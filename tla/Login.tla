------------------------------- MODULE Login --------------------------------
(***************************************************************************)
(* show_login_screen and read_input of src/kernel.c, and the shell that    *)
(* kmain starts behind them: two fields are read, one after the other,     *)
(* until neither is empty.  Both read from the one keyboard queue, so that *)
(* keys typed ahead, during timer_wait too, go to whoever reads next.      *)
(***************************************************************************)
EXTENDS Shell

CONSTANTS field_width,   \* 20
          BUFFER         \* sizeof(login_username)

ASSUME LoginAssumption == field_width \in 1..BUFFER /\ BUFFER \in Nat

Field == {"username", "password"}
Printable(ch) == ch >= 32 /\ ch < 127

VARIABLES at,            \* the field being read, "error" and "welcome" in timer_wait, "in"
          buffer,        \* login_username and login_password, up to the NUL
          pos,           \* of read_input
          since          \* the keys each field has taken in this attempt (history)

login == <<at, buffer, pos, since>>
session == <<vars, login>>

\* The login screen, or the shell after a login that left no key behind.
SessionInit ==
  /\ \/ Init /\ at = "in"
     \/ /\ Keyboard!Init
        /\ con = vga_clear
        /\ pc = "login" /\ out = <<>>
        /\ line = <<>> /\ taken = <<>>
        /\ origin = [row |-> 0, col |-> 0]
        /\ typed = 0
        /\ at = "username"
  /\ buffer = [f \in Field |-> <<>>]
  /\ pos = 0
  /\ since = [f \in Field |-> <<>>]
-----------------------------------------------------------------------------
(* read_input.  buffer holds what an earlier attempt left beyond pos, as   *)
(* the array does, until '\n' terminates it at pos.                        *)

Terminate_Unless0(f) ==
  buffer' = [buffer EXCEPT ![f] = IF pos = 0 THEN @ ELSE SubSeq(@, 1, pos)]
Terminate(f) == buffer' = [buffer EXCEPT ![f] = SubSeq(@, 1, pos)]

Accepts(ch) == pos < field_width - 1 /\ Printable(ch)

Store(f, ch) ==
  /\ buffer' = [buffer EXCEPT ![f] = SubSeq(@, 1, pos) \o <<ch>> \o SubSeq(@, pos + 2, Len(@))]
  /\ pos' = pos + 1

read_input(f) ==
  /\ at = f
  /\ Keyboard!Get
  /\ got' # NL
  /\ since' = [since EXCEPT ![f] = Append(@, got')]
  /\ \/ got' = BS /\ pos' = (IF pos > 0 THEN pos - 1 ELSE 0) /\ UNCHANGED buffer
     \/ got' # BS /\ Accepts(got') /\ Store(f, got')
     \/ got' # BS /\ ~ Accepts(got') /\ UNCHANGED <<buffer, pos>>
  /\ UNCHANGED <<con, pc, out, line, taken, origin, typed, at>>

UsernameDone ==
  /\ at = "username"
  /\ Keyboard!Get /\ got' = NL
  /\ Terminate("username")
  /\ at' = "password"
  /\ pos' = 0
  /\ UNCHANGED <<con, pc, out, line, taken, origin, typed, since>>

\* Either credential empty: show the error and start over.
PasswordDone ==
  /\ at = "password"
  /\ Keyboard!Get /\ got' = NL
  /\ Terminate("password")
  /\ at' = IF \E f \in Field : buffer'[f] = <<>> THEN "error" ELSE "welcome"
  /\ UNCHANGED <<con, pc, out, line, taken, origin, typed, pos, since>>

\* The fields are redrawn and read again.
Retry ==
  /\ at = "error"
  /\ at' = "username"
  /\ pos' = 0
  /\ since' = [f \in Field |-> <<>>]
  /\ UNCHANGED <<vars, buffer>>

\* show_booted_message and elf_exec("SHELL"); without a shell kmain halts.
StartShell ==
  /\ at = "welcome"
  /\ at' = "in"
  /\ con' = vga_clear
  /\ \/ pc' = "prompt" /\ out' = <<Banner, Hint>>
     \/ pc' = "halted" /\ UNCHANGED out
  /\ UNCHANGED <<queue, got, line, taken, origin, typed, buffer, pos, since>>

show_login_screen == (\E f \in Field : read_input(f)) \/ UsernameDone \/ PasswordDone \/ Retry

SessionNext == \/ Next /\ UNCHANGED login
               \/ show_login_screen
               \/ StartShell

SessionSpec == SessionInit /\ [][SessionNext]_session
-----------------------------------------------------------------------------
\* The text of a field: printable keys, edited, cut at the width.
FieldEdit(keys) == Edited(keys, {ch \in Key : Printable(ch)}, field_width - 1)

(* The boot goes on only with two credentials that are not empty, and they *)
(* are the ones typed in this attempt: nothing of a rejected attempt, nor  *)
(* a character that was erased, stays in login_username or login_password. *)
CredentialsAsTyped ==
  at = "welcome" => \A f \in Field : buffer[f] # <<>> /\ buffer[f] = FieldEdit(since[f])
=============================================================================
