------------------------------ MODULE Console -------------------------------
(***************************************************************************)
(* The text console of src/kernel.c: what vga_put_char and log_info do to  *)
(* the screen and to the one cursor that every writer shares.  A console   *)
(* is a record [row, col, cell]; colours and the serial copy are left out. *)
(***************************************************************************)
EXTENDS Integers, Sequences

CONSTANTS VGA_ROWS, VGA_COLS,
          NL, BS, Blank,   \* '\n', '\b' and ' '
          Prefix           \* "[INFO] ", a sequence of characters

Row == 0 .. VGA_ROWS - 1
Col == 0 .. VGA_COLS - 1

ASSUME ConsoleAssumption ==
  /\ VGA_ROWS \in Nat \ {0} /\ VGA_COLS \in Nat \ {0}
  /\ NL # BS /\ Blank \in Nat /\ Prefix \in Seq(Nat)

vga_clear == [row |-> 0, col |-> 0, cell |-> [r \in Row |-> [c \in Col |-> Blank]]]

NextRow(row) == (row + 1) % VGA_ROWS     \* no scrolling: back to the top

Erase_Stay(con) == [con EXCEPT !.col = @ - 1]
Erase(con) ==
  [row |-> con.row, col |-> con.col - 1,
   cell |-> [con.cell EXCEPT ![con.row][con.col - 1] = Blank]]

Show(con, ch) ==
  [row |-> IF con.col + 1 >= VGA_COLS THEN NextRow(con.row) ELSE con.row,
   col |-> (con.col + 1) % VGA_COLS,
   cell |-> [con.cell EXCEPT ![con.row][con.col] = ch]]

vga_put_char(con, ch) ==
  IF ch = NL THEN [con EXCEPT !.col = 0, !.row = NextRow(@)]
  ELSE IF ch # BS THEN Show(con, ch)
  ELSE IF con.col > 0 THEN Erase(con) ELSE con

print_vga(con, str) ==
  LET after[k \in 0 .. Len(str)] ==
        IF k = 0 THEN con ELSE vga_put_char(after[k - 1], str[k])
  IN after[Len(str)]

\* Its callers name places on the screen, which vga_set_cursor takes as they are.
vga_write_at(con, row, col, str) == print_vga([con EXCEPT !.row = row, !.col = col], str)

\* Clears the bottom line and leaves the cursor after the message.
log_info(con, msg) ==
  LET cleared == [con EXCEPT !.cell[VGA_ROWS - 1] = [c \in Col |-> Blank]]
  IN vga_write_at(vga_write_at(cleared, VGA_ROWS - 1, 0, Prefix),
                  VGA_ROWS - 1, Len(Prefix), msg)
=============================================================================
