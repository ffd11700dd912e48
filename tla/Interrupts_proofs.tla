------------------------- MODULE Interrupts_proofs --------------------------
(***************************************************************************)
(* Proofs about module Interrupts, for every set of scancodes, every size  *)
(* of the ring buffer, every mask the BIOS may leave and every wait: an    *)
(* interrupt always finds its gate and blocks no other for want of an EOI, *)
(* at most two are in progress, and under this delivery of interrupts the  *)
(* keyboard driver still is the queue that it is shown to be first.        *)
(***************************************************************************)
EXTENDS Interrupts, SequenceTheorems, TLAPS
-----------------------------------------------------------------------------
(* The ring implements the queue of module KeyQueue, for a ring of any     *)
(* size and any table of scancodes.                                        *)

(* Between its test and its update of buffer_start the reader relies on    *)
(* what it has seen: the buffer is not empty, and the character it has     *)
(* loaded is still the oldest.  The interrupt must preserve both.          *)
IInv ==
  /\ keyboard_buffer \in [Index -> 0..127]
  /\ buffer_start \in Index
  /\ buffer_end \in Index
  /\ reader = "load" => buffer_start # buffer_end
  /\ LoadedIsOldest

LEMMA Size == KEYBOARD_BUFFER_SIZE \in Nat \ {0}
  BY ZenonT(30), KeyboardAssumption

\* The remainder, as an index of the ring needs it.
LEMMA Remainder ==
  ASSUME NEW n \in Nat \ {0}, NEW i \in 0 .. n - 1
  PROVE  (i + 1) % n = IF i + 1 = n THEN 0 ELSE i + 1
  OBVIOUS

LEMMA Wraps ==
  ASSUME NEW i \in Index
  PROVE  Advance(i) = IF i + 1 = KEYBOARD_BUFFER_SIZE THEN 0 ELSE i + 1
  BY Zenon, Size, Remainder DEF Index, Advance

\* A key press that has a character stores one.
LEMMA Translates ==
  ASSUME NEW scancode \in Scancode, ~ IsRelease(scancode), scancode_to_ascii[scancode] # 0
  PROVE  scancode_to_ascii[scancode] \in Char
<1>1. scancode \in 0..255
  BY ZenonT(30), KeyboardAssumption
<1>2. scancode \in 0..127
  BY <1>1 DEF IsRelease
<1>3. scancode_to_ascii \in [0..127 -> 0..127]
  BY ZenonT(30), KeyboardAssumption
<1>4. scancode_to_ascii[scancode] \in 0..127
  BY ZenonT(30), <1>2, <1>3
<1> QED
  BY <1>4 DEF Char

LEMMA InitInv == Init => IInv
  BY Size DEF Init, IInv, Index, LoadedIsOldest

\* An interrupt with a full buffer, or for no character, leaves the ring alone.
LEMMA NextInv == IInv /\ [Next]_vars => IInv'
<1> SUFFICES ASSUME IInv, [Next]_vars PROVE IInv'
  BY Zenon
<1> USE DEF IInv
<1>0. /\ 0 \in Index
      /\ \A i \in Index : Advance(i) \in Index
  BY Size, Wraps DEF Index
<1>1. ASSUME NEW scancode \in Scancode, keyboard_callback(scancode) PROVE IInv'
  <2>1. CASE UNCHANGED <<keyboard_buffer, buffer_end>>
    BY Zenon, <1>1, <2>1 DEF keyboard_callback, EndHlt, LoadedIsOldest
  <2>2. CASE ~ UNCHANGED <<keyboard_buffer, buffer_end>>
    <3>1. /\ ~ Full /\ Store(scancode_to_ascii[scancode])
          /\ ~ IsRelease(scancode) /\ scancode_to_ascii[scancode] # 0
      BY Zenon, <1>1, <2>2 DEF keyboard_callback, Store
    <3>2. scancode_to_ascii[scancode] \in 0..127
      BY <3>1, Translates DEF Char
    <3>3. buffer_end' = Advance(buffer_end) /\ buffer_end' # buffer_start
      BY Zenon, <3>1 DEF Store, Full
    <3>4. keyboard_buffer' = [keyboard_buffer EXCEPT ![buffer_end] = scancode_to_ascii[scancode]]
      BY Zenon, <3>1 DEF Store
    <3> QED
      BY Zenon, <1>0, <1>1, <3>2, <3>3, <3>4 DEF keyboard_callback, EndHlt, LoadedIsOldest
  <2> QED
    BY Zenon, <2>1, <2>2
<1>2. CASE timer_irq
  BY Zenon, <1>2 DEF timer_irq, EndHlt, LoadedIsOldest
<1>3. CASE Call
  BY Zenon, <1>3 DEF Call, LoadedIsOldest
<1>4. CASE TestEmpty
  BY Zenon, <1>4 DEF TestEmpty, LoadedIsOldest
<1>5. CASE Hlt
  BY Zenon, <1>5 DEF Hlt, LoadedIsOldest
<1>6. CASE Load
  BY Zenon, <1>6 DEF Load, LoadedIsOldest
<1>7. CASE Return
  BY Zenon, <1>0, <1>7 DEF Return, LoadedIsOldest
<1>8. CASE UNCHANGED vars
  BY Zenon, <1>8 DEF vars, LoadedIsOldest
<1> QED
  BY Zenon, <1>1, <1>2, <1>3, <1>4, <1>5, <1>6, <1>7, <1>8 DEF Next, keyboard_get_char

(* The reader never returns a character that the interrupt has overwritten *)
(* after it was loaded: the slot at buffer_start is not reused.            *)
THEOREM LoadedStaysOldest == Spec => []LoadedIsOldest
<1>1. IInv => LoadedIsOldest
  BY Zenon DEF IInv
<1> QED
  BY InitInv, NextInv, <1>1, PTL DEF Spec
-----------------------------------------------------------------------------
\* What the ring holds is a sequence, shorter than the ring.
Shape ==
  /\ Waiting \in 0 .. KEYBOARD_BUFFER_SIZE - 1
  /\ Contents \in Seq(0..127)
  /\ Len(Contents) = Waiting
  /\ \A i \in 1..Waiting : Slot(i) \in Index /\ Contents[i] = keyboard_buffer[Slot(i)]
  /\ Contents = <<>> <=> buffer_start = buffer_end

LEMMA ContentsShape == IInv => Shape
<1> SUFFICES ASSUME IInv PROVE Shape
  BY Zenon
<1>0. /\ keyboard_buffer \in [Index -> 0..127]
      /\ buffer_start \in Index /\ buffer_end \in Index
  BY Zenon DEF IInv
<1>1. Waiting \in 0 .. KEYBOARD_BUFFER_SIZE - 1
  BY <1>0, Size DEF Waiting, Index
<1>2. \A i \in 1..Waiting : Slot(i) \in Index
  BY <1>0, Size DEF Waiting, Slot, Index
<1>3. \A i \in 1..Waiting : keyboard_buffer[Slot(i)] \in 0..127
  BY Zenon, <1>0, <1>2
<1>4. Contents \in Seq(0..127) /\ Len(Contents) = Waiting
  BY <1>1, <1>3 DEF Contents
<1>5. \A i \in 1..Waiting : Contents[i] = keyboard_buffer[Slot(i)]
  BY Zenon DEF Contents
<1>6. Waiting = 0 <=> buffer_start = buffer_end
  BY <1>0, Size DEF Waiting, Index
<1>7. Contents = <<>> <=> Waiting = 0
  BY Zenon, <1>1, <1>4, EmptySeq
<1> QED
  BY Zenon, <1>1, <1>2, <1>4, <1>5, <1>6, <1>7 DEF Shape

\* The interrupt stores a character in a buffer that is not full.
LEMMA StorePuts ==
  ASSUME IInv, IInv', Shape, Shape', NEW ch \in Char, ~ Full, Store(ch),
         UNCHANGED <<buffer_start, returned>>
  PROVE  KQ!Put(ch)
<1>0. /\ keyboard_buffer \in [Index -> 0..127]
      /\ buffer_start \in Index /\ buffer_end \in Index /\ buffer_start' = buffer_start
  BY Zenon DEF IInv
<1>1. /\ keyboard_buffer' = [keyboard_buffer EXCEPT ![buffer_end] = ch]
      /\ buffer_end' = Advance(buffer_end)
      /\ Advance(buffer_end) # buffer_start
  BY Zenon DEF Store, Full
<1>2. Waiting' = Waiting + 1
  BY <1>0, <1>1, Size, Wraps DEF Waiting, Index
<1>3. Len(Contents) < KEYBOARD_BUFFER_SIZE - 1
  BY <1>2, Size DEF Shape
<1>4. \A i \in 1..Waiting' : Contents'[i] = Append(Contents, ch)[i]
  <2>1. \A i \in Nat : Slot(i)' = Slot(i)
    BY Zenon, <1>0 DEF Slot
  <2>2. \A i \in 1..Waiting : Slot(i) # buffer_end
    BY <1>0, Size DEF Slot, Waiting, Index
  <2>3. \A i \in Nat : i = Waiting + 1 => Slot(i) = buffer_end
    BY <1>0, Size DEF Slot, Waiting, Index
  <2>4. \A i \in 1..Waiting : Contents'[i] = Contents[i]
    BY <1>0, <1>1, <1>2, <2>1, <2>2 DEF Shape
  <2>5. \A i \in 1..Waiting' : i = Waiting + 1 => Contents'[i] = ch
    BY <1>0, <1>1, <2>1, <2>3 DEF Shape
  <2>6. ch \in 0..127
    BY DEF Char
  <2> QED
    BY <1>2, <2>4, <2>5, <2>6, AppendProperties DEF Shape
<1>5. Contents' = Append(Contents, ch)
  <2>1. Append(Contents, ch) \in Seq(0..127) /\ Len(Append(Contents, ch)) = Waiting + 1
    BY AppendProperties DEF Char, Shape
  <2> QED
    BY <1>2, <1>4, <2>1, SeqEqual DEF Shape
<1> QED
  BY Zenon, <1>3, <1>5 DEF KQ!Put

\* The reader advances buffer_start past the character it has loaded.
LEMMA ReturnGets ==
  ASSUME IInv, IInv', Shape, Shape', Return
  PROVE  KQ!Get
<1>0. buffer_start \in Index /\ buffer_end \in Index
  BY Zenon DEF IInv
<1>1. /\ buffer_start # buffer_end /\ c = keyboard_buffer[buffer_start]
      /\ buffer_start' = Advance(buffer_start) /\ returned' = c
      /\ UNCHANGED <<keyboard_buffer, buffer_end>>
  BY Zenon DEF IInv, Return, LoadedIsOldest
<1>2. Waiting' = Waiting - 1 /\ Waiting >= 1
  <2>1. buffer_start' = IF buffer_start + 1 = KEYBOARD_BUFFER_SIZE THEN 0 ELSE buffer_start + 1
    BY Zenon, <1>0, <1>1, Wraps
  <2> QED
    BY <1>0, <1>1, <2>1, Size DEF Waiting, Index
<1>3. Contents # <<>>
  BY Zenon, <1>1 DEF Shape
<1>4. Head(Contents) = c
  <2>1. Slot(1) = buffer_start
    BY <1>0, Size DEF Slot, Index
  <2> QED
    BY <1>1, <1>2, <1>3, <2>1 DEF Shape
<1>5. Contents' = Tail(Contents)
  <2>1. /\ Tail(Contents) \in Seq(0..127) /\ Len(Tail(Contents)) = Waiting'
        /\ \A i \in 1..Waiting' : Tail(Contents)[i] = Contents[i + 1]
    BY <1>2, <1>3, HeadTailProperties DEF Shape
  <2>2. \A i \in 1..Waiting' : Slot(i)' = Slot(i + 1)
    BY <1>0, <1>1, <1>2, Size, Wraps DEF Slot, Waiting, Index
  <2>3. \A i \in 1..Waiting' : Contents'[i] = Tail(Contents)[i]
    BY <1>1, <1>2, <2>1, <2>2 DEF Shape
  <2> QED
    BY Zenon, <2>1, <2>3, SeqEqual DEF Shape
<1> QED
  BY Zenon, <1>1, <1>3, <1>4, <1>5 DEF KQ!Get

LEMMA StepImplements == IInv /\ IInv' /\ Shape /\ Shape' /\ [Next]_vars => [KQ!Next]_(KQ!vars)
<1> SUFFICES ASSUME IInv, IInv', Shape, Shape', [Next]_vars PROVE [KQ!Next]_(KQ!vars)
  BY Zenon
<1>0. ASSUME UNCHANGED <<keyboard_buffer, buffer_start, buffer_end, returned>>
      PROVE  UNCHANGED KQ!vars
  BY Zenon, <1>0 DEF KQ!vars, Contents, Waiting, Slot
<1>1. ASSUME NEW scancode \in Scancode, keyboard_callback(scancode)
      PROVE  [KQ!Next]_(KQ!vars)
  <2>1. CASE UNCHANGED <<keyboard_buffer, buffer_end>>
    BY Zenon, <1>0, <1>1, <2>1 DEF keyboard_callback
  <2>2. CASE ~ UNCHANGED <<keyboard_buffer, buffer_end>>
    <3>1. /\ ~ Full /\ Store(scancode_to_ascii[scancode])
          /\ ~ IsRelease(scancode) /\ scancode_to_ascii[scancode] # 0
      BY Zenon, <1>1, <2>2 DEF keyboard_callback, Store
    <3>2. scancode_to_ascii[scancode] \in Char
      BY Zenon, <3>1, Translates
    <3>3. KQ!Put(scancode_to_ascii[scancode])
      BY Zenon, <1>1, <3>1, <3>2, StorePuts DEF keyboard_callback
    <3> QED
      BY Zenon, <3>2, <3>3 DEF KQ!Next
  <2> QED
    BY Zenon, <2>1, <2>2
<1>2. CASE Return
  BY Zenon, <1>2, ReturnGets DEF KQ!Next
<1>3. CASE timer_irq \/ Call \/ TestEmpty \/ Hlt \/ Load \/ UNCHANGED vars
  BY Zenon, <1>0, <1>3 DEF timer_irq, Call, TestEmpty, Hlt, Load, vars
<1> QED
  BY Zenon, <1>1, <1>2, <1>3 DEF Next, keyboard_get_char

(* The ring buffer, whatever its size and however the interrupt and the    *)
(* reader interleave, is a FIFO queue that loses a key only when all slots *)
(* but one are taken: keyboard.c implements KeyQueue.                      *)
THEOREM KeyboardImplements == Spec => ImplementsKeyQueue
<1>1. Init => KQ!Init
  <2> SUFFICES ASSUME Init PROVE KQ!Init
    BY Zenon
  <2>1. IInv /\ buffer_start = buffer_end /\ returned = 0
    BY Zenon, InitInv DEF Init
  <2> QED
    BY Zenon, <2>1, ContentsShape DEF KQ!Init, Shape
<1>2. IInv => Shape
  BY Zenon, ContentsShape
<1> QED
  BY InitInv, NextInv, StepImplements, <1>1, <1>2, PTL DEF Spec, ImplementsKeyQueue, KQ!Spec
-----------------------------------------------------------------------------
(* The interrupts that call the driver. *)

Booting == {"idt_init", "pic_remap", "paging_init", "timer_init", "keyboard_init",
            "syscall_init", "sti"}
Threads == Booting \cup {"timer_wait", "wait_hlt", "wait_halted", "kmain", "user",
                         "syscall", "halt", "crash"}
Frame == [vector : Exceptions \cup IrqVectors \cup {SYSCALL}, iflag : {TRUE}]

(* What each step of the boot has established for those that follow. *)
Initialised ==
  /\ thread # "idt_init" => /\ base = [master |-> 32, slave |-> 40]
                            /\ Exceptions \cup IrqVectors \subseteq gates
  /\ thread \notin Booting \ {"keyboard_init", "syscall_init", "sti"} =>
       32 \in handlers /\ TIMER \notin mask
  /\ thread \notin Booting \ {"syscall_init", "sti"} => 33 \in handlers /\ KEYBOARD \notin mask
  /\ thread \notin Booting \ {"sti"} => SYSCALL \in handlers \cap gates

(* A frame is pushed with interrupts enabled, onto nothing or onto that of *)
(* a system call in progress.                                              *)
Nesting ==
  /\ frames \in Seq(Frame) /\ Len(frames) <= 2
  /\ thread \in Booting => Len(frames) = 0
  /\ Len(frames) = 2 => /\ frames[1].vector = SYSCALL /\ frames[2].vector # SYSCALL
                        /\ thread \in {"syscall", "halt", "crash"}
  /\ Len(frames) = 1 /\ frames[1].vector = SYSCALL => thread \in {"user", "syscall", "halt"}
  /\ thread = "syscall" => Len(frames) > 0 /\ frames[1].vector = SYSCALL
  /\ thread = "crash" => Len(frames) > 0 /\ frames[Len(frames)].vector \in Exceptions

(* Interrupts are enabled exactly while the CPU executes the thread, once  *)
(* booted.                                                                 *)
Enabled == iflag = (thread \notin Booting /\ Executes)

(* Only the interrupt that is being handled is in service.                 *)
InService ==
  isr = {} \/ /\ Len(frames) > 0 /\ InHandler
              /\ \E line \in Lines : Top = 32 + line /\ isr = {line, Rank(line)}

(* A keyboard interrupt, requested or being handled, has its byte waiting  *)
(* in the controller, and there is only one.                               *)
KeyHeld ==
  /\ KEYBOARD \in irr => obf \in Scancode
  /\ Len(frames) > 0 /\ Top = 33 => obf \in Scancode /\ KEYBOARD \notin irr

SysInv == thread \in Threads /\ Initialised /\ Nesting /\ Enabled /\ InService /\ KeyHeld
-----------------------------------------------------------------------------
LEMMA TopFrame ==
  ASSUME Nesting
  PROVE  /\ Len(frames) \in Nat
         /\ frames = <<>> <=> Len(frames) = 0
         /\ Len(frames) > 0 => /\ frames[Len(frames)] \in Frame
                               /\ Current = frames[Len(frames)]
                               /\ Top = frames[Len(frames)].vector
<1>1. frames \in Seq(Frame)
  BY Zenon DEF Nesting
<1> QED
  BY <1>1 DEF Current, Top

LEMMA Depth == Nesting => Len(frames) = 0 \/ Len(frames) = 1 \/ Len(frames) = 2
<1>1. \A n \in Nat : n <= 2 => n = 0 \/ n = 1 \/ n = 2
  OBVIOUS
<1> QED
  BY ZenonT(30), <1>1, TopFrame DEF Nesting

LEMMA Pushed ==
  ASSUME Nesting, NEW f \in Frame, frames' = Append(frames, f)
  PROVE  /\ frames' \in Seq(Frame)
         /\ Len(frames') = Len(frames) + 1
         /\ \A i \in 1 .. Len(frames) : frames'[i] = frames[i]
         /\ frames'[Len(frames) + 1] = f
         /\ frames' # <<>>
         /\ Top' = f.vector
<1>1. frames \in Seq(Frame)
  BY Zenon DEF Nesting
<1>2. /\ frames' \in Seq(Frame)
      /\ Len(frames') = Len(frames) + 1
      /\ \A i \in 1 .. Len(frames) : frames'[i] = frames[i]
      /\ frames'[Len(frames) + 1] = f
      /\ frames' # <<>>
  BY <1>1, AppendProperties
<1> QED
  BY Zenon, <1>2 DEF Top, Current

LEMMA Popped ==
  ASSUME Nesting, Len(frames) > 0, frames' = Below
  PROVE  /\ frames' \in Seq(Frame)
         /\ Len(frames') = Len(frames) - 1
         /\ \A i \in 1 .. Len(frames) - 1 : frames'[i] = frames[i]
<1>1. frames \in Seq(Frame) /\ Len(frames) \in Nat
  BY DEF Nesting
<1>2. frames' = SubSeq(frames, 1, Len(frames) - 1)
  BY Zenon DEF Below
<1>3. \A i \in 1 .. Len(frames) - 1 : frames[i] \in Frame
  BY <1>1
<1> DEFINE n == Len(frames) - 1
<1>4. 1 \in Int /\ n \in Int /\ n >= 0
  BY <1>1
<1>5. /\ SubSeq(frames, 1, n) \in Seq(Frame)
      /\ Len(SubSeq(frames, 1, n)) = IF 1 <= n THEN n - 1 + 1 ELSE 0
      /\ \A i \in 1 .. n - 1 + 1 : SubSeq(frames, 1, n)[i] = frames[1 + i - 1]
  <2> HIDE DEF n
  <2>1. \A i \in 1 .. n : frames[i] \in Frame
    BY Zenon, <1>3 DEF n
  <2> QED
    BY <1>4, <2>1, SubSeqProperties
<1>6. frames' = SubSeq(frames, 1, n)
  BY Zenon, <1>2
<1> HIDE DEF n
<1>7. frames' \in Seq(Frame) /\ Len(frames') = n
  BY <1>4, <1>5, <1>6
<1>8. ASSUME NEW i \in 1 .. n PROVE frames'[i] = frames[i]
  <2>1. i \in 1 .. n - 1 + 1 /\ 1 + i - 1 = i
    BY <1>4
  <2> QED
    BY Zenon, <1>5, <1>6, <2>1
<1> QED
  BY Zenon, <1>7, <1>8 DEF n
-----------------------------------------------------------------------------
LEMMA SysInitInv == SysInit => SysInv
<1> SUFFICES ASSUME SysInit PROVE SysInv
  BY Zenon
<1>1. frames = <<>> /\ frames \in Seq(Frame) /\ Len(frames) = 0
  BY DEF SysInit
<1>2. thread = "idt_init" /\ iflag = FALSE /\ isr = {} /\ irr = {}
  BY Zenon DEF SysInit
<1>3. thread \in Threads /\ Initialised /\ InService /\ KeyHeld
  BY <1>1, <1>2 DEF Threads, Booting, Initialised, InService, KeyHeld
<1>4. Nesting
  BY <1>1, <1>2 DEF Nesting
<1>5. Enabled
  BY ZenonT(30), <1>2 DEF Enabled, Booting
<1> QED
  BY Zenon, <1>3, <1>4, <1>5 DEF SysInv

(* Once interrupts are enabled, they are in the state of an interruptible  *)
(* thread: at most the frame of a system call lies on the stack.           *)
LEMMA FlagOn ==
  ASSUME SysInv, thread \notin Booting, Executes
  PROVE  iflag = TRUE /\ isr = {}
<1>1. Enabled /\ InService
  BY Zenon DEF SysInv
<1>2. iflag = TRUE
  BY ZenonT(30), <1>1 DEF Enabled
<1>3. isr = {}
  BY Zenon, <1>1 DEF InService, Executes
<1> QED
  BY Zenon, <1>2, <1>3

LEMMA WhenEnabled ==
  ASSUME SysInv, Executes
  PROVE  /\ thread # "crash"
         /\ \/ Len(frames) = 0 /\ thread # "syscall"
            \/ Len(frames) = 1 /\ frames[1].vector = SYSCALL /\ thread \in {"syscall", "halt"}
<1>1. Nesting
  BY Zenon DEF SysInv
<1>2. Len(frames) = 0 \/ Len(frames) = 1 \/ Len(frames) = 2
  BY Zenon, <1>1, Depth
<1>3. CASE Len(frames) = 0
  BY <1>1, <1>3 DEF Nesting
<1>4. CASE Len(frames) = 1 \/ Len(frames) = 2
  <2>1. Top = frames[Len(frames)].vector /\ frames # <<>>
    BY <1>1, <1>4, TopFrame
  <2>2. frames[Len(frames)].vector = SYSCALL /\ thread \in {"syscall", "halt"}
    BY Zenon, <2>1 DEF Executes, InHandler
  <2>3. Len(frames) # 2
    BY Zenon, <1>1, <2>2 DEF Nesting
  <2> QED
    BY Zenon, <1>4, <2>2, <2>3
<1> QED
  BY Zenon, <1>2, <1>3, <1>4

(* Entering a handler from there through a present gate. *)
LEMMA EnterStep ==
  ASSUME SysInv, thread \notin Booting, Executes,
         NEW vector \in Exceptions \cup IrqVectors \cup {SYSCALL},
         vector = SYSCALL => thread = "user",
         vector \in Exceptions => thread \in {"user", "syscall"},
         Enter(vector)
  PROVE  /\ thread' = thread /\ iflag' = FALSE
         /\ Nesting' /\ Len(frames') > 0 /\ Top' = vector
         /\ InHandler'
<1> DEFINE f == [vector |-> vector, iflag |-> iflag]
<1>1. iflag = TRUE /\ Nesting /\ Initialised /\ thread \in Threads
  BY Zenon, FlagOn DEF SysInv
<1>2. f \in Frame /\ frames' = Append(frames, f)
  BY Zenon, <1>1 DEF Frame, Enter
<1> HIDE DEF f
<1>3. /\ frames' \in Seq(Frame)
      /\ Len(frames') = Len(frames) + 1
      /\ \A i \in 1 .. Len(frames) : frames'[i] = frames[i]
      /\ frames'[Len(frames) + 1] = f
      /\ frames' # <<>>
      /\ Top' = f.vector
  BY Zenon, <1>1, <1>2, Pushed
<1>4. vector \in gates
  BY Zenon, <1>1 DEF Initialised, Booting
<1>5. thread' = thread /\ iflag' = FALSE
  BY Zenon, <1>4 DEF Enter
<1>6. Top' = vector
  BY Zenon, <1>3 DEF f
<1>7. CASE Len(frames) = 0 /\ thread # "syscall"
  BY <1>3, <1>5, <1>6, <1>7, WhenEnabled
     DEF Nesting, InHandler, f, Threads, Booting, Exceptions, IrqVectors, SYSCALL
<1>8. CASE Len(frames) = 1 /\ frames[1].vector = SYSCALL /\ thread \in {"syscall", "halt"}
  <2>1. vector # SYSCALL /\ frames'[1].vector = SYSCALL /\ frames'[2].vector = vector
    BY <1>3, <1>8 DEF f
  <2> QED
    BY <1>3, <1>5, <1>6, <1>8, <2>1 DEF Nesting, InHandler, Booting
<1> QED
  BY ZenonT(30), <1>7, <1>8, WhenEnabled

(* Leaving one by iret. *)
LEMMA IretStep ==
  ASSUME SysInv, InHandler, Top # SYSCALL, thread # "crash", Iret
  PROVE  /\ thread' \in Threads \ Booting /\ iflag' = TRUE
         /\ (thread' = thread \/ thread' = "timer_wait")
         /\ Nesting' /\ Executes' /\ (Len(frames') > 0 => Top' = SYSCALL)
<1>1. Nesting /\ thread \in Threads
  BY Zenon DEF SysInv
<1>2. (Len(frames) = 1 \/ Len(frames) = 2) /\ Current \in Frame /\ Top = frames[Len(frames)].vector
  <2>1. Len(frames) # 0
    BY Zenon, <1>1, TopFrame DEF InHandler
  <2>2. Len(frames) = 1 \/ Len(frames) = 2
    BY Zenon, <1>1, <2>1, Depth
  <2>3. Len(frames) > 0
    BY <2>2
  <2> QED
    BY Zenon, <1>1, <2>2, <2>3, TopFrame
<1>3. /\ frames' \in Seq(Frame)
      /\ Len(frames') = Len(frames) - 1
      /\ \A i \in 1 .. Len(frames) - 1 : frames'[i] = frames[i]
  <2>1. Len(frames) > 0
    BY <1>2
  <2>2. frames' = Below
    BY Zenon DEF Iret
  <2> QED
    BY Zenon, <1>1, <2>1, <2>2, Popped
<1>4. iflag' = TRUE
  BY ZenonT(30), <1>2 DEF Iret, Frame
<1>5. thread' \in Threads \ Booting /\ (thread' = thread \/ thread' = "timer_wait")
  BY Zenon, <1>1, <1>2 DEF Iret, Threads, Booting, Nesting
<1>6. CASE Len(frames) = 1
  BY <1>1, <1>2, <1>3, <1>4, <1>5, <1>6 DEF Nesting, Executes, InHandler, Iret
<1>7. CASE Len(frames) = 2
  <2>1. frames'[1].vector = SYSCALL /\ Top' = SYSCALL /\ thread' \in {"syscall", "halt"}
    BY <1>1, <1>2, <1>3, <1>7 DEF Nesting, Top, Current, Iret
  <2> QED
    BY <1>3, <1>4, <1>5, <1>7, <2>1 DEF Nesting, Executes, InHandler, Booting
<1> QED
  BY ZenonT(30), <1>2, <1>6, <1>7
-----------------------------------------------------------------------------
(* Both EOIs of an interrupt that came through the slave are needed to     *)
(* leave nothing in service.                                               *)
LEMMA EoiClears ==
  ASSUME SysInv, InHandler, Top \in IrqVectors
  PROVE  pic_send_eoi(Top - 32) = {}
<1>1. InService
  BY Zenon DEF SysInv
<1>2. CASE isr = {}
  BY Zenon, <1>2 DEF pic_send_eoi
<1>3. ASSUME NEW line \in Lines, Top = 32 + line, isr = {line, Rank(line)}
      PROVE  pic_send_eoi(Top - 32) = {}
  <2>1. CASE line = DISK
    BY <1>3, <2>1 DEF pic_send_eoi, Ended, Rank, DISK, CASCADE
  <2>2. CASE line \in {TIMER, KEYBOARD}
    BY <1>3, <2>2 DEF pic_send_eoi, Ended, Rank, TIMER, KEYBOARD, CASCADE
  <2> QED
    BY Zenon, <2>1, <2>2 DEF Lines
<1> QED
  BY Zenon, <1>1, <1>2, <1>3 DEF InService

LEMMA DeviceStep ==
  ASSUME SysInv, Tick \/ DiskDone \/ \E scancode \in Scancode : Press(scancode)
  PROVE  SysInv'
<1>1. UNCHANGED <<thread, iflag, frames, gates, handlers, base, mask, isr>>
  BY Zenon DEF Tick, DiskDone, Press, idt
<1>2. UNCHANGED <<Top, InHandler, Executes>>
  BY Zenon, <1>1 DEF Top, Current, InHandler, Executes
<1>3. (thread \in Threads /\ Initialised /\ Nesting /\ Enabled /\ InService)'
  BY <1>1, <1>2 DEF SysInv, Initialised, Nesting, Enabled, InService
<1>4. KeyHeld'
  <2>1. KeyHeld
    BY Zenon DEF SysInv
  <2>2. CASE Tick \/ DiskDone
    BY <1>1, <1>2, <2>1, <2>2 DEF KeyHeld, Tick, DiskDone, TIMER, DISK, KEYBOARD
  <2>3. ASSUME NEW scancode \in Scancode, Press(scancode) PROVE KeyHeld'
    BY Zenon, <1>1, <1>2, <2>1, <2>3, InterruptsAssumption DEF KeyHeld, Press
  <2> QED
    BY Zenon, <2>2, <2>3
<1> QED
  BY Zenon, <1>3, <1>4 DEF SysInv

(* The part of the invariant that a step leaves alone with these variables. *)
LEMMA Configured ==
  ASSUME SysInv, UNCHANGED <<gates, handlers, base, mask>>,
         thread \notin Booting, thread' \in Threads \ Booting
  PROVE  Initialised'
<1>1. Initialised
  BY Zenon DEF SysInv
<1> QED
  BY Zenon, <1>1 DEF Initialised, Booting

LEMMA DeliverStep ==
  ASSUME SysInv, NEW line \in Lines, Deliver(line)
  PROVE  SysInv'
<1>1. thread \in Threads /\ Initialised /\ Enabled /\ KeyHeld
  BY Zenon DEF SysInv
<1>2. thread \notin Booting /\ Executes
  BY ZenonT(30), <1>1 DEF Enabled, Deliver
<1>3. base.master = 32 /\ base.slave = 40
  BY <1>1, <1>2 DEF Initialised, Booting
<1>4. Vector(line) = 32 + line /\ Vector(line) \in IrqVectors /\ Vector(line) \notin Exceptions \cup {SYSCALL}
  BY <1>3 DEF Vector, Lines, TIMER, KEYBOARD, DISK, IrqVectors, Exceptions, SYSCALL
<1>5. Enter(Vector(line)) /\ UNCHANGED <<gates, handlers, base, mask, obf>>
  BY Zenon DEF Deliver, idt
<1>6. /\ thread' = thread /\ iflag' = FALSE
      /\ Nesting' /\ Len(frames') > 0 /\ Top' = Vector(line)
      /\ InHandler'
  BY ZenonT(30), <1>2, <1>4, <1>5, EnterStep
<1>7. isr = {} /\ isr' = {line, Rank(line)}
  BY Zenon, <1>2, FlagOn DEF Deliver
<1>8. Initialised' /\ thread' \in Threads
  BY Zenon, <1>1, <1>2, <1>5, <1>6, Configured
<1>9. Enabled'
  BY ZenonT(30), <1>6 DEF Enabled, Executes
<1>10. InService'
  BY Zenon, <1>4, <1>6, <1>7 DEF InService
<1>11. KeyHeld'
  <2>1. line \in irr /\ irr' = irr \ {line}
    BY Zenon DEF Deliver, Requested
  <2>2. Top' = 33 <=> line = KEYBOARD
    BY <1>4, <1>6 DEF Lines, TIMER, KEYBOARD, DISK
  <2> QED
    BY Zenon, <1>1, <1>5, <2>1, <2>2 DEF KeyHeld
<1> QED
  BY Zenon, <1>6, <1>8, <1>9, <1>10, <1>11 DEF SysInv

LEMMA EnterInv ==    \* a spurious interrupt, an exception or a system call
  ASSUME SysInv, thread \notin Booting, Executes,
         NEW vector \in {39, SYSCALL} \cup Exceptions,
         vector = SYSCALL => thread = "user",
         vector \in Exceptions => thread \in {"user", "syscall"},
         Enter(vector), UNCHANGED <<gates, handlers, base, mask, irr, isr, obf>>
  PROVE  SysInv'
<1>1. vector \in Exceptions \cup IrqVectors \cup {SYSCALL} /\ vector # 33
  BY DEF IrqVectors, Exceptions, SYSCALL
<1>2. /\ thread' = thread /\ iflag' = FALSE
      /\ Nesting' /\ Len(frames') > 0 /\ Top' = vector
      /\ InHandler'
  BY ZenonT(30), <1>1, EnterStep
<1>3. isr' = {} /\ KeyHeld /\ thread \in Threads
  BY Zenon, FlagOn DEF SysInv
<1>4. Initialised' /\ thread' \in Threads
  BY Zenon, <1>2, <1>3, Configured
<1>5. Enabled'
  BY ZenonT(30), <1>2 DEF Enabled, Executes
<1>6. InService' /\ KeyHeld'
  BY Zenon, <1>1, <1>2, <1>3 DEF InService, KeyHeld
<1> QED
  BY Zenon, <1>2, <1>4, <1>5, <1>6 DEF SysInv

LEMMA IrqStep == ASSUME SysInv, irq_handler PROVE SysInv'
<1>1. thread \in Threads /\ Initialised /\ Nesting /\ KeyHeld /\ InHandler /\ Top \in IrqVectors
  BY Zenon DEF SysInv, irq_handler
<1>2. Top # SYSCALL /\ thread # "crash" /\ Len(frames) > 0 /\ thread \notin Booting
  <2>1. Len(frames) \in Nat /\ Len(frames) # 0
    BY Zenon, <1>1, TopFrame DEF InHandler
  <2>2. Len(frames) > 0 /\ Top = frames[Len(frames)].vector
    BY <1>1, <2>1, TopFrame
  <2>3. Top # SYSCALL /\ Top \notin Exceptions
    BY <1>1 DEF IrqVectors, SYSCALL, Exceptions
  <2>4. thread # "crash" /\ thread \notin Booting
    BY Zenon, <1>1, <2>1, <2>2, <2>3 DEF Nesting
  <2> QED
    BY Zenon, <2>2, <2>3, <2>4
<1>3. Iret /\ UNCHANGED <<gates, handlers, base, mask, irr>> /\ isr' = pic_send_eoi(Top - 32)
  BY Zenon DEF irq_handler, idt
<1>4. /\ thread' \in Threads \ Booting /\ iflag' = TRUE
      /\ Nesting' /\ Executes' /\ (Len(frames') > 0 => Top' = SYSCALL)
  BY Zenon, <1>1, <1>2, <1>3, IretStep
<1>5. Initialised'
  BY Zenon, <1>2, <1>3, <1>4, Configured
<1>6. InService'
  BY Zenon, <1>1, <1>3, EoiClears DEF InService
<1>7. Enabled'
  BY ZenonT(30), <1>4 DEF Enabled
<1>8. KeyHeld'
  <2>1. ~ (Len(frames') > 0 /\ Top' = 33)
    BY <1>4 DEF SYSCALL
  <2>2. CASE Top = 33
    BY Zenon, <1>1, <1>2, <1>3, <2>1, <2>2 DEF KeyHeld
  <2>3. CASE Top # 33
    <3>1. obf' = obf
      BY Zenon, <2>3 DEF irq_handler, Callback
    <3> QED
      BY Zenon, <1>1, <1>3, <2>1, <3>1 DEF KeyHeld
  <2> QED
    BY Zenon, <2>2, <2>3
<1> QED
  BY Zenon, <1>4, <1>5, <1>6, <1>7, <1>8 DEF SysInv

LEMMA IsrStep == ASSUME SysInv, isr_handler PROVE SysInv'
<1>1. /\ thread \in Threads /\ Initialised /\ Nesting /\ Enabled /\ InService /\ KeyHeld
      /\ InHandler /\ thread # "crash"
  BY Zenon DEF SysInv, isr_handler
<1>2. UNCHANGED <<gates, handlers, base, mask, irr, isr, obf>>
  BY Zenon DEF isr_handler, idt, pic
<1>3. Len(frames) > 0 /\ Top = frames[Len(frames)].vector /\ thread \notin Booting
  <2>1. Len(frames) \in Nat /\ Len(frames) # 0
    BY Zenon, <1>1, TopFrame DEF InHandler
  <2>2. Len(frames) > 0
    BY <2>1
  <2> QED
    BY Zenon, <1>1, <2>1, <2>2, TopFrame DEF Nesting
<1>4. Top \in Exceptions \cup {SYSCALL} => isr = {}
  BY <1>1 DEF InService, Lines, TIMER, KEYBOARD, DISK, Exceptions, SYSCALL
<1>5. CASE Handled
  <2>1. Iret /\ Top # SYSCALL /\ isr' = {}
    BY <1>2, <1>4, <1>5 DEF Handled, Exceptions, SYSCALL
  <2>2. /\ thread' \in Threads \ Booting /\ iflag' = TRUE
        /\ Nesting' /\ Executes' /\ (Len(frames') > 0 => Top' = SYSCALL)
    BY Zenon, <1>1, <2>1, IretStep
  <2>3. Initialised'
    BY Zenon, <1>2, <1>3, <2>2, Configured
  <2>4. InService' /\ KeyHeld'
    BY <1>1, <1>2, <2>1, <2>2 DEF InService, KeyHeld, SYSCALL
  <2>5. Enabled'
    BY ZenonT(30), <2>2 DEF Enabled
  <2> QED
    BY Zenon, <2>2, <2>3, <2>4, <2>5 DEF SysInv
<1>6. CASE Crash
  <2>1. /\ thread' = "crash" /\ frames' = frames /\ iflag' = iflag /\ isr' = {}
        /\ Top \in Exceptions /\ Top # SYSCALL
    BY <1>2, <1>4, <1>6 DEF Crash, Exceptions, SYSCALL
  <2>2. Top' = Top /\ InHandler' /\ thread' \in Threads \ Booting
    BY Zenon, <1>1, <2>1 DEF Top, Current, InHandler, Threads, Booting
  <2>3. Nesting'
    BY Zenon, <1>1, <1>3, <2>1 DEF Nesting, Booting
  <2>4. Initialised'
    BY Zenon, <1>2, <1>3, <2>2, Configured
  <2>5. InService' /\ KeyHeld'
    BY Zenon, <1>1, <1>2, <2>1, <2>2 DEF InService, KeyHeld
  <2>6. Enabled'
    BY Zenon, <1>1, <2>1, <2>2 DEF Enabled, Executes
  <2> QED
    BY Zenon, <2>2, <2>3, <2>4, <2>5, <2>6 DEF SysInv
<1>7. CASE syscall_handler
  <2>1. thread' = "syscall" /\ frames' = frames /\ iflag' = TRUE /\ isr' = {} /\ Top = SYSCALL
    BY Zenon, <1>2, <1>4, <1>7 DEF syscall_handler
  <2>2. Top' = Top /\ Executes' /\ thread' \in Threads \ Booting
    BY Zenon, <2>1 DEF Top, Current, InHandler, Executes, Threads, Booting
  <2>3. Len(frames) = 1 /\ frames[1].vector = SYSCALL
    <3>0. Len(frames) # 0
      BY <1>3
    <3>1. Len(frames) # 2
      <4> SUFFICES ASSUME Len(frames) = 2 PROVE FALSE
        BY Zenon
      <4>1. frames[2].vector # SYSCALL
        BY Zenon, <1>1 DEF Nesting
      <4> QED
        BY Zenon, <1>3, <2>1, <4>1
    <3>2. Len(frames) = 1
      BY Zenon, <1>1, <3>0, <3>1, Depth
    <3> QED
      BY ZenonT(30), <1>3, <2>1, <3>2
  <2>4. Nesting'
    BY <1>1, <2>1, <2>3 DEF Nesting, Booting
  <2>5. Initialised'
    BY Zenon, <1>2, <1>3, <2>2, Configured
  <2>6. InService' /\ KeyHeld'
    BY Zenon, <1>1, <1>2, <2>1, <2>2 DEF InService, KeyHeld, SYSCALL
  <2>7. Enabled'
    BY ZenonT(30), <2>1, <2>2 DEF Enabled
  <2> QED
    BY Zenon, <2>2, <2>4, <2>5, <2>6, <2>7 DEF SysInv
<1> QED
  BY Zenon, <1>5, <1>6, <1>7 DEF isr_handler

LEMMA BootStep == ASSUME SysInv, Boot PROVE SysInv'
<1>1. thread \in Threads /\ Initialised /\ Nesting /\ Enabled /\ InService /\ KeyHeld
  BY Zenon DEF SysInv
<1>2. thread \in Booting /\ frames' = frames /\ obf' = obf
  BY Zenon DEF Boot, Booting, Step, idt_init, RemapAgain, paging_init, timer_init, keyboard_init,
         syscall_init, Sti
<1>3. Len(frames) = 0 /\ frames = <<>> /\ Executes /\ Executes'
  BY Zenon, <1>1, <1>2, TopFrame DEF Nesting, Executes, InHandler
<1>4. iflag = FALSE /\ isr = {}
  <2>1. iflag = FALSE
    BY ZenonT(30), <1>1, <1>2 DEF Enabled
  <2>2. isr = {}
    BY <1>1, <1>3 DEF InService
  <2> QED
    BY Zenon, <2>1, <2>2
<1>5. irr' \subseteq irr /\ isr' = {}
  BY Zenon, <1>4 DEF Boot, idt_init, RemapAgain, pic_remap, paging_init, timer_init, keyboard_init,
              syscall_init, Sti, pic
<1>6. thread' \in Threads \ {"syscall", "crash"} /\ Initialised'
  <2>1. CASE idt_init \/ RemapAgain
    BY Zenon, <1>1, <2>1 DEF Initialised, Booting, Threads, Step, idt_init, RemapAgain, pic_remap, idt
  <2>2. CASE paging_init
    BY Zenon, <1>1, <2>2 DEF Initialised, Booting, Threads, Step, paging_init,
                      register_interrupt_handler, pic
  <2>3. CASE timer_init \/ keyboard_init
    BY Zenon, <1>1, <2>3 DEF Initialised, Booting, Threads, Step, timer_init, keyboard_init,
                      register_interrupt_handler, pic_clear_mask, TIMER, KEYBOARD
  <2>4. CASE syscall_init \/ Sti
    BY Zenon, <1>1, <2>4 DEF Initialised, Booting, Threads, Step, syscall_init, Sti,
                      register_interrupt_handler, idt, pic
  <2> QED
    BY Zenon, <2>1, <2>2, <2>3, <2>4 DEF Boot
<1>7. Nesting' /\ InService' /\ KeyHeld'
  BY <1>1, <1>2, <1>3, <1>5, <1>6 DEF Nesting, InService, KeyHeld
<1>8. Enabled'
  <2>1. CASE Sti
    <3>1. iflag' = TRUE /\ thread' = "timer_wait"
      BY Zenon, <2>1 DEF Sti, Step
    <3> QED
      BY ZenonT(30), <1>3, <3>1 DEF Enabled, Booting
  <2>2. CASE Boot /\ ~ Sti
    <3>1. iflag' = iflag /\ thread' \in Booting
      BY Zenon, <2>2 DEF Boot, Booting, Step, idt_init, RemapAgain, paging_init, timer_init,
                  keyboard_init, syscall_init
    <3> QED
      BY ZenonT(30), <1>4, <3>1 DEF Enabled
  <2> QED
    BY Zenon, <2>1, <2>2
<1> QED
  BY Zenon, <1>6, <1>7, <1>8 DEF SysInv

(* The thread runs on, or stops, where it is. *)
LEMMA StayStep ==
  ASSUME SysInv, timer_wait \/ ReadChar \/ GetChar \/ Halt
  PROVE  SysInv'
<1>1. /\ thread \in Threads /\ Initialised /\ Nesting /\ Enabled /\ InService /\ KeyHeld
      /\ Executes
  BY Zenon DEF SysInv, timer_wait, Step, ReadChar, GetChar, Halt
<1>2. UNCHANGED <<iflag, frames, gates, handlers, base, mask, irr, isr, obf, Top>>
  BY Zenon DEF timer_wait, ReadChar, GetChar, Halt, idt, pic, Top, Current
<1>3. CASE thread' = thread
  <2>1. UNCHANGED <<InHandler, Executes>>
    BY Zenon, <1>2, <1>3 DEF InHandler, Executes, Top, Current
  <2>2. Initialised'
    BY Zenon, <1>1, <1>2, <1>3 DEF Initialised
  <2>3. Nesting'
    BY Zenon, <1>1, <1>2, <1>3 DEF Nesting
  <2>4. Enabled'
    BY ZenonT(30), <1>1, <1>2, <1>3, <2>1 DEF Enabled
  <2>5. InService' /\ KeyHeld'
    BY Zenon, <1>1, <1>2, <1>3, <2>1 DEF InService, KeyHeld
  <2> QED
    BY Zenon, <1>1, <1>3, <2>2, <2>3, <2>4, <2>5 DEF SysInv
<1>4. CASE timer_wait
  <2>1. /\ thread \in {"timer_wait", "wait_hlt"}
        /\ thread' \in {"wait_hlt", "wait_halted", "kmain"}
    BY Zenon, <1>4 DEF timer_wait, Step
  <2> HIDE <1>4
  <2>2. thread \notin Booting /\ thread' \in Threads \ Booting
    BY Zenon, <2>1 DEF Threads, Booting
  <2>3. Len(frames) = 0 /\ frames = <<>>
    <3>1. Len(frames) = 0
      BY Zenon, <1>1, <2>1, WhenEnabled
    <3> QED
      BY Zenon, <1>1, <3>1, TopFrame
  <2>4. Executes' /\ iflag = TRUE /\ isr = {}
    BY Zenon, <1>1, <1>2, <2>2, <2>3, FlagOn DEF Executes, InHandler
  <2>5. Nesting' /\ InService' /\ KeyHeld'
    BY Zenon, <1>1, <1>2, <2>1, <2>2, <2>3, <2>4 DEF Nesting, InService, KeyHeld
  <2>6. Enabled'
    BY ZenonT(30), <1>2, <2>2, <2>4 DEF Enabled
  <2>7. Initialised'
    BY Zenon, <1>2, <2>2, Configured
  <2> QED
    BY Zenon, <2>2, <2>5, <2>6, <2>7 DEF SysInv
<1>5. CASE Halt
  <2>1. thread \in {"kmain", "syscall"} /\ thread' = "halt"
    BY Zenon, <1>5 DEF Halt
  <2> HIDE <1>5
  <2>2. thread \notin Booting /\ thread' \in Threads \ Booting
    BY Zenon, <2>1 DEF Threads, Booting
  <2>3. \/ Len(frames) = 0
        \/ Len(frames) = 1 /\ frames[1].vector = SYSCALL
    BY Zenon, <1>1, <2>1, WhenEnabled
  <2>4. Executes'
    <3>1. CASE Len(frames) = 0
      BY Zenon, <1>1, <1>2, <3>1, TopFrame DEF Executes, InHandler
    <3>2. CASE Len(frames) = 1 /\ frames[1].vector = SYSCALL
      <4>1. Top = SYSCALL
        BY <1>1, <3>2, TopFrame
      <4> QED
        BY Zenon, <1>2, <2>1, <4>1 DEF Executes, InHandler
    <3> QED
      BY Zenon, <2>3, <3>1, <3>2
  <2>5. iflag = TRUE /\ isr = {}
    BY Zenon, <1>1, <2>2, FlagOn
  <2>6. Nesting' /\ InService' /\ KeyHeld'
    BY Zenon, <1>1, <1>2, <2>1, <2>2, <2>3, <2>5 DEF Nesting, InService, KeyHeld
  <2>7. Enabled'
    BY ZenonT(30), <1>2, <2>2, <2>4, <2>5 DEF Enabled
  <2>8. Initialised'
    BY Zenon, <1>2, <2>2, Configured
  <2> QED
    BY Zenon, <2>2, <2>6, <2>7, <2>8 DEF SysInv
<1> QED
  BY Zenon, <1>3, <1>4, <1>5 DEF ReadChar, GetChar

(* The thread goes to user mode with an empty interrupt stack. *)
LEMMA LeaveStep == ASSUME SysInv, elf_exec \/ Return80 PROVE SysInv'
<1>1. /\ thread \in Threads /\ Initialised /\ Nesting /\ KeyHeld
      /\ Executes /\ thread \in {"kmain", "syscall"}
  BY Zenon DEF SysInv, elf_exec, Return80
<1>2. UNCHANGED <<gates, handlers, base, mask, irr, isr, obf>> /\ thread' = "user"
  BY Zenon DEF elf_exec, Return80, idt, pic
<1>3. thread \notin Booting /\ thread' \in Threads \ Booting
  BY Zenon, <1>1, <1>2 DEF Threads, Booting
<1>4. frames' \in Seq(Frame) /\ Len(frames') = 0 /\ iflag' = TRUE
  <2>1. CASE elf_exec
    BY <2>1 DEF elf_exec
  <2>2. CASE Return80
    <3>0. Len(frames) = 1
      <4>1. thread = "syscall"
        BY Zenon, <2>2 DEF Return80
      <4> QED
        BY Zenon, <1>1, <4>1, WhenEnabled
    <3>1. Len(frames) = 1 /\ Len(frames) > 0
      BY <3>0
    <3>2. frames' = Below /\ iflag' = Current.iflag
      BY Zenon, <2>2 DEF Return80
    <3>3. frames' \in Seq(Frame) /\ Len(frames') = Len(frames) - 1
      BY Zenon, <1>1, <3>1, <3>2, Popped
    <3>4. Current \in Frame
      BY Zenon, <1>1, <3>1, TopFrame
    <3>5. iflag' = TRUE
      BY ZenonT(30), <3>2, <3>4 DEF Frame
    <3> QED
      BY <3>1, <3>3, <3>5
  <2> QED
    BY ZenonT(30), <2>1, <2>2
<1>5. frames' = <<>> /\ Executes'
  BY <1>4 DEF Executes, InHandler
<1>6. isr' = {}
  BY Zenon, <1>1, <1>2, <1>3, FlagOn
<1>7. Nesting' /\ InService' /\ KeyHeld'
  BY <1>1, <1>2, <1>3, <1>4, <1>6 DEF Nesting, InService, KeyHeld
<1>8. Enabled'
  BY ZenonT(30), <1>3, <1>4, <1>5 DEF Enabled
<1>9. Initialised'
  BY Zenon, <1>2, <1>3, Configured
<1> QED
  BY Zenon, <1>3, <1>7, <1>8, <1>9 DEF SysInv

LEMMA SysNextInv == SysInv /\ [SysNext]_sysvars => SysInv'
<1> SUFFICES ASSUME SysInv, [SysNext]_sysvars PROVE SysInv'
  BY Zenon
<1>1. CASE Tick \/ DiskDone \/ \E scancode \in Scancode : Press(scancode)
  BY Zenon, <1>1, DeviceStep
<1>2. CASE \E line \in Lines : Deliver(line)
  BY Zenon, <1>2, DeliverStep
<1>3. CASE Spurious
  <2>1. Enabled /\ Initialised /\ iflag
    BY Zenon, <1>3 DEF SysInv, Spurious
  <2>2. thread \notin Booting /\ Executes
    BY ZenonT(30), <2>1 DEF Enabled
  <2>3. Vector(SPURIOUS) = 39
    BY <2>1, <2>2 DEF Vector, SPURIOUS, Initialised, Booting
  <2>4. Enter(39) /\ UNCHANGED <<gates, handlers, base, mask, irr, isr, obf>>
    BY Zenon, <1>3, <2>3 DEF Spurious, idt, pic
  <2>5. 39 \in {39, SYSCALL} \cup Exceptions /\ 39 # SYSCALL /\ 39 \notin Exceptions
    BY DEF SYSCALL, Exceptions
  <2> QED
    BY Zenon, <2>2, <2>4, <2>5, EnterInv
<1>4. ASSUME NEW vector \in Exceptions \cup {SYSCALL}, Raise(vector) PROVE SysInv'
  <2>1. /\ Executes /\ thread \in {"user", "syscall"} /\ Enter(vector)
        /\ vector = SYSCALL => thread = "user"
        /\ UNCHANGED <<gates, handlers, base, mask, irr, isr, obf>>
    BY Zenon, <1>4 DEF Raise, idt, pic
  <2>2. thread \notin Booting
    BY Zenon, <2>1 DEF Booting
  <2> QED
    BY ZenonT(30), <2>1, <2>2, EnterInv
<1>5. CASE irq_handler
  BY Zenon, <1>5, IrqStep
<1>6. CASE isr_handler
  BY Zenon, <1>6, IsrStep
<1>7. CASE Boot
  BY Zenon, <1>7, BootStep
<1>8. CASE timer_wait \/ ReadChar \/ GetChar \/ Halt
  BY Zenon, <1>8, StayStep
<1>9. CASE elf_exec \/ Return80
  BY Zenon, <1>9, LeaveStep
<1>10. CASE UNCHANGED sysvars
  <2>1. UNCHANGED <<thread, iflag, frames, gates, handlers, base, mask, irr, isr, obf>>
    BY Zenon, <1>10 DEF sysvars, idt, pic
  <2>2. UNCHANGED <<Top, InHandler, Executes>>
    BY Zenon, <2>1 DEF Top, Current, InHandler, Executes
  <2> QED
    BY <2>1, <2>2 DEF SysInv, Initialised, Nesting, Enabled, InService, KeyHeld
<1> QED
  BY Zenon, <1>1, <1>2, <1>3, <1>4, <1>5, <1>6, <1>7, <1>8, <1>9, <1>10 DEF SysNext, Thread
-----------------------------------------------------------------------------
(* Whatever the BIOS left in the masks and whatever devices and programs   *)
(* do: an interrupt finds its gate, and while interrupts are enabled no    *)
(* line is in service, masked or without its handler that the kernel needs *)
(* (irq_handler, pic_send_eoi, and the order of kmain).                    *)
THEOREM InterruptsDispatched == SysSpec => []Dispatched
<1>1. SysInv => Dispatched
  <2> SUFFICES ASSUME SysInv PROVE Dispatched
    BY Zenon
  <2>1. thread # "reset"
    BY Zenon DEF SysInv, Threads, Booting
  <2>2. ASSUME iflag PROVE isr = {} /\ {TIMER, KEYBOARD} \cap mask = {}
                           /\ {32, 33, SYSCALL} \subseteq handlers
    <3>1. thread \notin Booting /\ Executes
      BY ZenonT(30), <2>2 DEF SysInv, Enabled
    <3>2. isr = {}
      BY Zenon, <3>1, FlagOn
    <3> QED
      BY Zenon, <3>1, <3>2 DEF SysInv, Initialised, Booting
  <2> QED
    BY Zenon, <2>1, <2>2 DEF Dispatched
<1> QED
  BY SysInitInv, SysNextInv, <1>1, PTL DEF SysSpec

(* At most two interrupts are in progress, the outer one a system call,    *)
(* although syscall_handler enables interrupts: 8 KB of stack are not used *)
(* up by nesting.                                                          *)
THEOREM NestingStaysBounded == SysSpec => []NestingBounded
<1>1. SysInv => NestingBounded
  <2> SUFFICES ASSUME SysInv PROVE NestingBounded
    BY Zenon
  <2>1. Nesting /\ frames \in Seq(Frame) /\ Len(frames) <= 2
    BY Zenon DEF SysInv, Nesting
  <2>2. ASSUME NEW i \in DOMAIN frames, i < Len(frames) PROVE frames[i].vector = SYSCALL
    <3> DEFINE n == Len(frames)
    <3>1. i \in 1 .. n /\ n \in Nat /\ n <= 2 /\ i < n
      BY <2>1, <2>2
    <3> HIDE DEF n
    <3>2. n = 2 /\ i = 1
      BY <3>1
    <3> QED
      BY Zenon, <2>1, <3>2 DEF Nesting, n
  <2> QED
    BY Zenon, <2>1, <2>2 DEF NestingBounded
<1> QED
  BY SysInitInv, SysNextInv, <1>1, PTL DEF SysSpec

(* Behind the PICs and the dispatch, with interrupts delivered only when   *)
(* the code lets them in and keys read from the controller by the handler, *)
(* every step is a step of module Keyboard or none.                        *)
LEMMA KeyboardStep == SysInv /\ [SysNext]_sysvars => [Next]_vars
<1> SUFFICES ASSUME SysInv, [SysNext]_sysvars PROVE [Next]_vars
  BY Zenon
<1>1. CASE irq_handler
  <2>1. CASE Top = 33 /\ 33 \in handlers
    <3>1. keyboard_callback(obf)
      BY Zenon, <1>1, <2>1 DEF irq_handler, Callback
    <3>2. Nesting /\ KeyHeld /\ frames # <<>>
      BY Zenon, <1>1 DEF SysInv, irq_handler, InHandler
    <3>3. Len(frames) \in Nat /\ Len(frames) # 0
      BY Zenon, <3>2, TopFrame
    <3>4. obf \in Scancode
      BY <2>1, <3>2, <3>3 DEF KeyHeld
    <3> QED
      BY Zenon, <3>1, <3>4 DEF Next
  <2>2. CASE ~ (Top = 33 /\ 33 \in handlers)
    <3>1. EndHlt /\ UNCHANGED <<keyboard_buffer, buffer_start, buffer_end, c, returned>>
      BY Zenon, <1>1, <2>2 DEF irq_handler, Callback
    <3> QED
      BY Zenon, <3>1 DEF Next, timer_irq, EndHlt, vars
  <2> QED
    BY Zenon, <2>1, <2>2
<1>2. CASE ReadChar \/ GetChar
  BY Zenon, <1>2 DEF ReadChar, GetChar, Next
<1>3. CASE ~ (irq_handler \/ ReadChar \/ GetChar)
  BY Zenon, <1>3 DEF SysNext, sysvars, kbd, Tick, DiskDone, Press, Spurious, Deliver, isr_handler, Boot,
              idt_init, RemapAgain, paging_init, timer_init, keyboard_init, syscall_init, Sti,
              timer_wait, Thread, elf_exec, Halt, Return80, Raise
<1> QED
  BY Zenon, <1>1, <1>2, <1>3

(* The keyboard driver under the interrupt system of this kernel is the    *)
(* FIFO queue of module KeyQueue: keyboard_callback and keyboard_get_char  *)
(* lose, reorder and duplicate no character.                               *)
THEOREM SystemImplementsKeyQueue == SysSpec => ImplementsKeyQueue
<1>1. SysInit => Init
  BY Zenon DEF SysInit
<1>2. SysSpec => Spec
  BY SysInitInv, SysNextInv, KeyboardStep, <1>1, PTL DEF SysSpec, Spec
<1> QED
  BY <1>2, KeyboardImplements, PTL
=============================================================================
