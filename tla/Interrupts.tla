----------------------------- MODULE Interrupts -----------------------------
(***************************************************************************)
(* src/idt.c, src/pic.c, src/isr.asm, the initialisation order of kmain    *)
(* (src/kernel.c), timer_wait (src/timer.c) and the entry and exit of      *)
(* system calls (src/syscalls.c), composed with the keyboard driver of     *)
(* module Keyboard: how an edge on an interrupt line reaches a handler,    *)
(* what it interrupts, and what waits for it.                              *)
(*                                                                         *)
(* The CPU runs one thread: kmain, then a user program and its system      *)
(* calls.  Delivery of an interrupt is a step, and the handler (EOI, the   *)
(* registered callback, iret) another: interrupts are off between the two, *)
(* and a device may raise its line.                                        *)
(***************************************************************************)
EXTENDS Keyboard

CONSTANTS Masks,       \* what the BIOS may leave in the mask registers
          WAIT_TICKS   \* the argument of timer_wait

ASSUME InterruptsAssumption ==
  /\ WAIT_TICKS \in Nat
  /\ 0 \notin Scancode         \* it stands for an empty controller

(* IRQ lines: timer, keyboard, the cascade of the slave PIC, one without a *)
(* device and the disk; vectors: a divide error (for the exceptions without *)
(* a handler), a page fault, the IRQs after pic_remap and the system call. *)
TIMER == 0
KEYBOARD == 1
CASCADE == 2
SPURIOUS == 7
DISK == 14
Exceptions == {0, 14}
IrqVectors == 32..47
SYSCALL == 128

VARIABLES thread,      \* what the CPU runs when it handles no interrupt
          iflag,       \* the CPU's interrupt flag
          frames,      \* interrupts in progress: vector and saved interrupt flag
          gates,       \* vectors with a present gate in the IDT
          handlers,    \* interrupt_handlers: the vectors that have one
          base,        \* vector of line 0 of each PIC
          mask, irr, isr,   \* the registers of both PICs, as sets of lines
          obf,         \* the keyboard controller's output buffer; 0 is empty
          to_wait      \* ticks that timer_wait has still to see

kbd == vars                    \* the variables of module Keyboard
idt == <<gates, handlers>>
pic == <<base, mask, irr, isr>>
sysvars == <<kbd, thread, iflag, frames, idt, pic, obf, to_wait>>

SysInit ==
  /\ Init
  /\ thread = "idt_init"
  /\ iflag = FALSE             \* the cli of _start
  /\ frames = <<>>
  /\ gates = {} /\ handlers = {}
  /\ base = [master |-> 8, slave |-> 112]
  /\ mask \in Masks /\ irr = {} /\ isr = {}
  /\ obf = 0
  /\ to_wait = WAIT_TICKS
-----------------------------------------------------------------------------
(* Devices *)

Tick == /\ irr' = irr \cup {TIMER}
        /\ UNCHANGED <<kbd, thread, iflag, frames, idt, base, mask, isr, obf, to_wait>>

\* The controller holds back a byte until port 0x60 has been read.
Press(scancode) ==
  /\ obf = 0
  /\ obf' = scancode
  /\ irr' = irr \cup {KEYBOARD}
  /\ UNCHANGED <<kbd, thread, iflag, frames, idt, base, mask, isr, to_wait>>

\* A command of ata.c has made progress, at boot or in elf_exec: the interrupt
\* that nobody waits for.
DiskDone ==
  /\ thread \in {"timer_init", "kmain", "syscall"} /\ reader = "caller"
  /\ irr' = irr \cup {DISK}
  /\ UNCHANGED <<kbd, thread, iflag, frames, idt, base, mask, isr, obf, to_wait>>
-----------------------------------------------------------------------------
(* The PICs and the CPU's side of an interrupt *)

\* The frame of the interrupt being handled, and the frames that it interrupted.
Current == frames[Len(frames)]
Below == SubSeq(frames, 1, Len(frames) - 1)

Top == Current.vector
InHandler == frames # <<>> /\ ~(Top = SYSCALL /\ thread \in {"syscall", "halt"})
Executes == ~InHandler         \* the CPU executes the thread

Unmasked(line) == line \notin mask /\ (line >= 8 => CASCADE \notin mask)
Rank(line) == IF line >= 8 THEN CASCADE ELSE line
Requested(line) ==
  /\ line \in irr /\ Unmasked(line)
  /\ \A other \in irr : Unmasked(other) => Rank(line) <= Rank(other)
  /\ \A other \in isr : Rank(line) < Rank(other)

Vector(line) == IF line >= 8 THEN base.slave + line - 8 ELSE base.master + line

\* The CPU enters through an interrupt gate; without one it resets.
Enter_TrapGate(vector) ==
  /\ frames' = Append(frames, [vector |-> vector, iflag |-> iflag])
  /\ iflag' = iflag
  /\ thread' = IF vector \in gates THEN thread ELSE "reset"
Enter(vector) ==
  /\ frames' = Append(frames, [vector |-> vector, iflag |-> iflag])
  /\ iflag' = FALSE
  /\ thread' = IF vector \in gates THEN thread ELSE "reset"

Deliver(line) ==
  /\ iflag /\ Requested(line)
  /\ irr' = irr \ {line}
  /\ isr' = isr \cup {line, Rank(line)}
  /\ Enter(Vector(line))
  /\ UNCHANGED <<kbd, idt, base, mask, obf, to_wait>>

\* A request withdrawn too late: the PIC answers with line 7, in service nowhere.
Spurious ==
  /\ iflag /\ isr = {}
  /\ Enter(Vector(SPURIOUS))
  /\ UNCHANGED <<kbd, idt, pic, obf, to_wait>>

\* EOI: a PIC forgets the line of highest priority that it has in service.
Ended(lines) == {l \in lines : \A k \in lines : l <= k}
pic_send_eoi_Half(irq) ==
  IF irq >= 8 THEN isr \ Ended({l \in isr : l >= 8}) ELSE isr \ Ended({l \in isr : l < 8})
pic_send_eoi(irq) ==
  (isr \ Ended({l \in isr : l < 8})) \ (IF irq >= 8 THEN Ended({l \in isr : l >= 8}) ELSE {})

\* iret; a hlt that was interrupted is over.
Iret == /\ frames' = Below
        /\ iflag' = Current.iflag
        /\ thread' = IF thread = "wait_halted" THEN "timer_wait" ELSE thread

\* What irq_handler calls: timer_callback (preemption is off), keyboard_callback
\* with the byte it takes out of the controller, or nothing.
Callback(vector) ==
  /\ to_wait' = IF vector = 32 /\ 32 \in handlers /\ to_wait > 0 THEN to_wait - 1 ELSE to_wait
  /\ IF vector = 33 /\ 33 \in handlers
     THEN keyboard_callback(obf) /\ obf' = 0
     ELSE EndHlt /\ UNCHANGED <<keyboard_buffer, buffer_start, buffer_end, c, returned, obf>>

irq_handler ==
  /\ InHandler /\ Top \in IrqVectors
  /\ isr' = pic_send_eoi(Top - 32)
  /\ Callback(Top)
  /\ Iret
  /\ UNCHANGED <<idt, base, mask, irr>>
-----------------------------------------------------------------------------
(* Exceptions and system calls: isr_handler *)

\* A registered handler that returns: the page fault handler, for a page it maps.
Handled ==
  /\ Top \in Exceptions \cap handlers
  /\ Iret

\* The crash screen: cli, hlt.  The page fault handler has one of its own.
Crash ==
  /\ Top \in Exceptions
  /\ thread' = "crash"
  /\ UNCHANGED <<frames, iflag>>

syscall_handler_NoSti ==
  /\ Top = SYSCALL /\ SYSCALL \in handlers
  /\ thread' = "syscall"
  /\ UNCHANGED <<frames, iflag>>
syscall_handler ==
  /\ Top = SYSCALL /\ SYSCALL \in handlers
  /\ iflag' = TRUE             \* its first instruction is sti
  /\ thread' = "syscall"
  /\ UNCHANGED frames

isr_handler ==
  /\ InHandler /\ thread # "crash"
  /\ Handled \/ Crash \/ syscall_handler
  /\ UNCHANGED <<kbd, idt, pic, obf, to_wait>>
-----------------------------------------------------------------------------
(* kmain up to the sti *)

Step(from, to) == Executes /\ thread = from /\ thread' = to

\* ICW1 forgets requests and lines in service; the masks are saved and restored.
pic_remap(offset1, offset2) ==
  /\ base' = [master |-> offset1, slave |-> offset2]
  /\ irr' = {} /\ isr' = {}
  /\ UNCHANGED mask

idt_init ==
  /\ Step("idt_init", "pic_remap")
  /\ gates' = Exceptions \cup IrqVectors
  /\ handlers' = {}
  /\ pic_remap(32, 40)
  /\ UNCHANGED <<kbd, iflag, frames, obf, to_wait>>

RemapAgain ==
  /\ Step("pic_remap", "paging_init")
  /\ pic_remap(32, 40)
  /\ UNCHANGED <<kbd, iflag, frames, idt, obf, to_wait>>

register_interrupt_handler(n) == handlers' = handlers \cup {n}

paging_init ==
  /\ Step("paging_init", "timer_init")
  /\ register_interrupt_handler(14)
  /\ UNCHANGED <<kbd, iflag, frames, gates, pic, obf, to_wait>>

pic_clear_mask_Set(irq) == mask' = mask \cup {irq}
pic_clear_mask(irq) == mask' = mask \ {irq}

timer_init ==
  /\ Step("timer_init", "keyboard_init")
  /\ register_interrupt_handler(32)
  /\ pic_clear_mask(TIMER)
  /\ UNCHANGED <<kbd, iflag, frames, gates, base, irr, isr, obf, to_wait>>

keyboard_init ==
  /\ Step("keyboard_init", "syscall_init")
  /\ register_interrupt_handler(33)
  /\ pic_clear_mask(KEYBOARD)
  /\ UNCHANGED <<kbd, iflag, frames, gates, base, irr, isr, obf, to_wait>>

syscall_init ==
  /\ Step("syscall_init", "sti")
  /\ register_interrupt_handler(SYSCALL)
  /\ gates' = gates \cup {SYSCALL}
  /\ UNCHANGED <<kbd, iflag, frames, pic, obf, to_wait>>

Sti ==
  /\ Step("sti", "timer_wait")
  /\ iflag' = TRUE
  /\ UNCHANGED <<kbd, frames, idt, pic, obf, to_wait>>

Boot == idt_init \/ RemapAgain \/ paging_init \/ timer_init \/ keyboard_init
          \/ syscall_init \/ Sti
-----------------------------------------------------------------------------
(* The rest of the thread *)

\* The loop of timer_wait: test, hlt, test again.
timer_wait ==
  /\ \/ Step("timer_wait", IF to_wait > 0 THEN "wait_hlt" ELSE "kmain")
     \/ Step("wait_hlt", "wait_halted")
  /\ UNCHANGED <<kbd, iflag, frames, idt, pic, obf, to_wait>>

\* read_input in kmain and sys_read in a system call.
ReadChar ==
  /\ Executes /\ thread \in {"kmain", "syscall"}
  /\ Call
  /\ UNCHANGED <<thread, iflag, frames, idt, pic, obf, to_wait>>

GetChar ==
  /\ Executes
  /\ keyboard_get_char
  /\ UNCHANGED <<thread, iflag, frames, idt, pic, obf, to_wait>>

\* enter_usermode leaves for ever whatever called it; the next entry from user
\* mode finds the interrupt stack empty.  It returns only if nothing was loaded:
\* kmain then halts, a system call goes back.
elf_exec ==
  /\ Executes /\ thread \in {"kmain", "syscall"} /\ reader = "caller"
  /\ thread' = "user" /\ frames' = <<>> /\ iflag' = TRUE
  /\ UNCHANGED <<kbd, idt, pic, obf, to_wait>>

Halt ==    \* the last loop of kmain, or sys_exit
  /\ Executes /\ thread \in {"kmain", "syscall"} /\ reader = "caller"
  /\ thread' = "halt"
  /\ UNCHANGED <<kbd, iflag, frames, idt, pic, obf, to_wait>>

Return80 ==
  /\ Executes /\ thread = "syscall" /\ reader = "caller"
  /\ thread' = "user"
  /\ frames' = Below /\ iflag' = Current.iflag
  /\ UNCHANGED <<kbd, idt, pic, obf, to_wait>>

\* int 0x80, a page fault of the program or of a system call, another exception.
Raise(vector) ==
  /\ Executes /\ thread \in {"user", "syscall"} /\ reader = "caller"
  /\ vector = SYSCALL => thread = "user"
  /\ Enter(vector)
  /\ UNCHANGED <<kbd, idt, pic, obf, to_wait>>

Thread == \/ ReadChar \/ elf_exec \/ Halt \/ Return80
          \/ \E vector \in Exceptions \cup {SYSCALL} : Raise(vector)
-----------------------------------------------------------------------------
Lines == {TIMER, KEYBOARD, DISK}

SysNext == \/ Tick \/ DiskDone \/ \E scancode \in Scancode : Press(scancode)
           \/ Spurious \/ \E line \in Lines : Deliver(line)
           \/ irq_handler \/ isr_handler
           \/ Boot \/ timer_wait \/ GetChar \/ Thread

SysSpec == SysInit /\ [][SysNext]_sysvars

(* The CPU executes handlers, boot code and loops, and the PIT ticks.  At  *)
(* 100 ticks a second there is time between two of them for the thread and *)
(* the other lines: if the thread runs interruptible again and again, it   *)
(* does so with no tick pending.  Nobody has to type, to call or to return. *)
Interruptible == Executes /\ iflag
TicksAreRare == \/ <>[]~Interruptible
                \/ []<>(Interruptible /\ ~Requested(TIMER))
SysFairSpec ==
  /\ SysSpec
  /\ WF_sysvars(Tick) /\ WF_sysvars(irq_handler) /\ WF_sysvars(isr_handler) /\ WF_sysvars(Boot)
  /\ SF_sysvars(timer_wait) /\ SF_sysvars(GetChar)
  /\ \A line \in {TIMER, KEYBOARD} : SF_sysvars(Deliver(line))
  /\ TicksAreRare
-----------------------------------------------------------------------------
Stopped == thread \in {"crash", "reset"}

(* Whenever interrupts are enabled no line is in service, so that none is  *)
(* blocked for want of an EOI, be it the cascade or a spurious one; every  *)
(* interrupt finds its gate; and the lines the kernel lives on are open    *)
(* and have their handlers, whatever masks the BIOS left.                  *)
Dispatched ==
  /\ thread # "reset"
  /\ iflag => /\ isr = {}
              /\ {TIMER, KEYBOARD} \cap mask = {}
              /\ {32, 33, SYSCALL} \subseteq handlers

(* On a stack of 8 KB no more than two interrupts are ever in progress: a  *)
(* system call, which enables interrupts, and one that arrives during it.  *)
(* No handler of an IRQ or an exception is interrupted.                    *)
NestingBounded ==
  /\ Len(frames) <= 2
  /\ \A i \in DOMAIN frames : i < Len(frames) => frames[i].vector = SYSCALL

(* A key pressed once the PIC is initialised is fetched from the           *)
(* controller, however the edge, the masks, the priorities of the other    *)
(* lines and the handlers in progress fall; before that its edge is        *)
(* forgotten and the controller stays full.                                *)
KeyServed ==
  (KEYBOARD \in irr /\ thread \notin {"idt_init", "pic_remap"})
    ~> (obf = 0 \/ Stopped)

(* Nobody sleeps through what it waits for: timer_wait ends, and a reader  *)
(* that is about to halt or has halted with a character in the buffer      *)
(* returns, although hlt follows the test with interrupts enabled.         *)
WaitersReturn ==
  /\ (thread \in {"timer_wait", "wait_hlt", "wait_halted"}) ~> (thread = "kmain")
  /\ HaltedReaderReturns
=============================================================================
