------------------------------- MODULE Shell --------------------------------
(***************************************************************************)
(* userspace/shell.c on top of src/syscalls.c: the prompt loop, SYS_READ   *)
(* with its line editing and echo, SYS_WRITE, SYS_EXEC and SYS_EXIT.  The  *)
(* keyboard is the abstract KeyQueue.  A message stands for one letter and *)
(* the newlines around it, a built-in command for its first letter.        *)
(* Characters are ASCII codes.                                             *)
(***************************************************************************)
EXTENDS Console

CONSTANTS Key,          \* the characters that are typed, NL and BS among them
          Capacity,     \* of the keyboard's buffer
          max_len,      \* sizeof(buffer) in the shell
          MAX_KEYS      \* bound on the keys typed

ASSUME ShellAssumption ==
  /\ Key \subseteq Nat /\ NL \in Key /\ BS \in Key /\ Len(Prefix) < VGA_COLS
  /\ max_len \in Nat \ {0} /\ MAX_KEYS \in Nat

VARIABLES queue, got,   \* of the keyboard
          con,          \* the screen
          pc,           \* what the shell is doing
          out,          \* the messages it writes first, one SYS_WRITE each
          line,         \* the first i characters of its buffer
          taken,        \* the keys this SYS_READ has consumed
          origin,       \* where the cursor was when it began
          typed         \* how many keys were typed

vars == <<queue, got, con, pc, out, line, taken, origin, typed>>

Keyboard == INSTANCE KeyQueue WITH Char <- Key

Banner == <<NL, NL, 42, NL>>       \* "\n\n*** FlowOS Shell ***\n"
Hint == <<84, NL, NL>>             \* "Type 'help' ...\n\n"
Prompt == <<62>>                   \* "FlowOS> "
Bare == <<46>>                     \* any other message,
Text == Bare \o <<NL>>             \* and one that ends its line

HELP == <<104>>
CLEAR == <<99>>
EXIT == <<101>>

Init == /\ Keyboard!Init
        /\ con = vga_clear
        /\ pc = "prompt" /\ out = <<Banner, Hint>>
        /\ line = <<>> /\ taken = <<>>
        /\ origin = [row |-> 0, col |-> 0]
        /\ typed = 0

\* The keyboard interrupt; a key that finds the buffer full is dropped.
keyboard_callback(c) ==
  /\ typed < MAX_KEYS
  /\ typed' = typed + 1
  /\ \/ Keyboard!Put(c)
     \/ Len(queue) = Capacity /\ UNCHANGED <<queue, got>>
  /\ UNCHANGED <<con, pc, out, line, taken, origin>>
-----------------------------------------------------------------------------
sys_write ==
  /\ out # <<>>
  /\ con' = log_info(con, Head(out))
  /\ out' = Tail(out)
  /\ UNCHANGED <<queue, got, pc, line, taken, origin, typed>>

\* write("FlowOS> ") and the call of read.
PromptAndRead ==
  /\ pc = "prompt" /\ out = <<>>
  /\ pc' = "read"
  /\ con' = log_info(con, Prompt)
  /\ origin' = [row |-> con'.row, col |-> con'.col]
  /\ line' = <<>> /\ taken' = <<>>
  /\ UNCHANGED <<queue, got, out, typed>>

Room_OffByOne == Len(line) < max_len
Room == Len(line) < max_len - 1     \* while (i < max_len - 1)

Shorter(text) == SubSeq(text, 1, Len(text) - 1)     \* i--

\* One turn of the loop of sys_read.
ReadKey ==
  /\ pc = "read" /\ Room
  /\ Keyboard!Get
  /\ taken' = Append(taken, got')
  /\ \/ /\ got' = NL
        /\ con' = vga_put_char(con, NL)
        /\ pc' = "parse"
        /\ UNCHANGED line
     \/ /\ got' = BS
        /\ IF line # <<>>
           THEN line' = Shorter(line) /\ con' = vga_put_char(con, BS)
           ELSE UNCHANGED <<line, con>>
        /\ UNCHANGED pc
     \/ /\ got' \notin {NL, BS}
        /\ line' = Append(line, got')
        /\ con' = vga_put_char(con, got')
        /\ UNCHANGED pc
  /\ UNCHANGED <<out, origin, typed>>

\* The buffer is full: return without waiting for Enter.
ReadFull ==
  /\ pc = "read" /\ ~ Room
  /\ pc' = "parse"
  /\ UNCHANGED <<queue, got, con, out, line, taken, origin, typed>>
-----------------------------------------------------------------------------
Command(word) == pc = "parse" /\ line = word

Answer(msgs, next) ==
  /\ out' = <<<<NL>>>> \o msgs
  /\ pc' = next
  /\ UNCHANGED <<queue, got, con, line, taken, origin, typed>>

EmptyLine == /\ pc = "parse" /\ line = <<>>
             /\ pc' = "prompt"
             /\ UNCHANGED <<queue, got, con, out, line, taken, origin, typed>>

help == Command(HELP) /\ Answer([k \in 1..5 |-> Text], "prompt")

clear == Command(CLEAR) /\ Answer([k \in 1 .. VGA_ROWS |-> <<NL>>], "prompt")

\* sys_exit logs "Process exited" and halts.
exit == Command(EXIT) /\ Answer(<<Text, Bare>>, "halted")

\* elf_exec logs; if it fails the shell says so, else it is replaced.
exec == /\ pc = "parse" /\ line # <<>> /\ line \notin {HELP, CLEAR, EXIT}
        /\ \/ Answer(<<Text, Bare, line, <<NL>>>>, "prompt")
           \/ Answer(<<Text>>, "replaced")

Shell == \/ sys_write \/ PromptAndRead \/ ReadKey \/ ReadFull
         \/ EmptyLine \/ help \/ clear \/ exit \/ exec

Next == (\E c \in Key : keyboard_callback(c)) \/ Shell

Spec == Init /\ [][Next]_vars
-----------------------------------------------------------------------------
\* The text that keys stand for: a backspace takes back what came before it, a
\* character of chars is added while there is room for it, other keys do nothing.
Pressed(text, key, chars, room) ==
  IF key = BS THEN (IF text = <<>> THEN text ELSE Shorter(text))
  ELSE IF key \in chars /\ Len(text) < room THEN Append(text, key) ELSE text
Edited(keys, chars, room) ==
  LET text[k \in 0 .. Len(keys)] ==
        IF k = 0 THEN <<>> ELSE Pressed(text[k - 1], keys[k], chars, room)
  IN text[Len(keys)]

Edit(keys) == Edited(keys, Key \ {NL, BS}, max_len)
Before(k) == Edit(SubSeq(taken, 1, k))

(* SYS_READ returns the edited line, terminated within the max_len bytes   *)
(* of the caller's buffer: it took keys up to the first Enter or until     *)
(* max_len - 1 characters stood in the line, and not one key more.         *)
LineIsEdit ==
  /\ line = Edit(taken)
  /\ Len(line) <= max_len - 1
  /\ \A k \in 1 .. Len(taken) - 1 : taken[k] # NL /\ Len(Before(k)) < max_len - 1

(* What is on the screen between the prompt and the cursor is the line as  *)
(* the shell will get it, through any editing, as long as the line has not *)
(* reached the right edge since the prompt: vga_put_char never moves back  *)
(* to the row above.                                                       *)
EchoMatchesLine ==
  LET reached == {Len(Before(k)) : k \in 0 .. Len(taken)}
      shown == [k \in 1 .. Len(line) |-> con.cell[origin.row][origin.col + k - 1]]
  IN pc = "read" /\ (\A n \in reached : origin.col + n < VGA_COLS)
     => /\ con.row = origin.row /\ con.col = origin.col + Len(line)
        /\ shown = line
        /\ \A n \in reached : n > Len(line) =>
             con.cell[origin.row][origin.col + n - 1] = Blank
=============================================================================
