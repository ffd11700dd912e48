-------------------------------- MODULE Ata --------------------------------
(***************************************************************************)
(* src/ata.c: the PIO driver, polling drives that answer when they like.   *)
(*                                                                         *)
(* Two channels carry two drives each; the status register of a channel is *)
(* that of the drive selected last.  A drive sets BSY with a command and   *)
(* clears it when it is ready for a sector (DRQ), has finished or has      *)
(* failed (ERR or DF).  It ignores commands while BSY or DRQ is set.       *)
(*                                                                         *)
(* The driver's steps are its polls, its commands and the transfers of a   *)
(* sector (256 words, between which a drive does nothing else).            *)
(***************************************************************************)
EXTENDS Integers, Sequences, FiniteSets

CONSTANTS Attachments,   \* what may be plugged in: functions from Drive to Kind
          Lba,           \* the sectors of a drive
          Calls,         \* what callers ask for: operation, drive, lba and count
          FULL_COUNT,    \* sectors of a command whose count register is 0: 256
          LBA_RANGE,     \* sectors that the LBA registers can address: 2^28
          TIMEOUT        \* polls of ata_wait_ready: 100000

MAX_DRIVES == 4
Drive == 0 .. MAX_DRIVES - 1
Kind == {"ata", "atapi", "none", "floating"}   \* floating: no drive, lines pulled up

ASSUME AtaAssumption ==
  /\ Attachments \subseteq [Drive -> Kind]
  /\ Lba \subseteq Nat
  /\ FULL_COUNT \in Nat \ {0} /\ LBA_RANGE \in Nat \ {0}
  /\ Calls \subseteq [op : {"READ", "WRITE"}, drive : Drive, lba : Nat,
                      count : 0 .. FULL_COUNT - 1]
  /\ TIMEOUT \in Nat \ {0}

VARIABLES kind,                  \* what is plugged in
          sel,                   \* the drive select bit of each channel
          dev,                   \* what each drive is doing
          disk,                  \* what each drive stores
          drives, drive_count,   \* present, io_base and drive_select of each drive
          pc,                    \* where the driver is; "caller" outside its calls
          slot,                  \* the drive that ata_init is asking
          call,                  \* the arguments of the last call
          s, polls,              \* its loop counters
          buf,                   \* the buffer of a read
          result,                \* what it returned
          abandoned,             \* drives left in the middle of a transfer (history)
          failed                 \* drives that failed during the last call (history)

found == <<drives, drive_count, slot>>
local == <<call, s, polls, buf, result>>
history == <<abandoned, failed>>
vars == <<kind, sel, dev, disk, found, pc, local, history>>

Channel(drive) == drive \div 2     \* stands for io_base
Position(drive) == drive % 2       \* ATA_MASTER or ATA_SLAVE

Original(drive, lba) == <<"disk", drive, lba>>   \* what a sector holds at first
Written(i) == <<"buffer", i>>                   \* the i-th sector of a caller's buffer

Resting(err) == [phase |-> "idle", err |-> err, cmd |-> "none", lba |-> 0, left |-> 0,
                 holds |-> <<>>]

Init ==
  /\ kind \in Attachments
  /\ sel = [c \in {0, 1} |-> 0]
  /\ dev = [i \in Drive |-> Resting({})]
  /\ disk = [i \in Drive |-> [l \in Lba |-> Original(i, l)]]
  /\ drives = [i \in Drive |-> [present |-> FALSE, io_base |-> 0, drive_select |-> 0]]
  /\ drive_count = 0
  /\ pc = "identify" /\ slot = 0       \* ata_init has been called
  /\ call = [op |-> "none", drive |-> 0, lba |-> 0, count |-> 0]
  /\ s = 0 /\ polls = 0 /\ buf = <<>> /\ result = FALSE
  /\ abandoned = {}
  /\ failed = {}
-----------------------------------------------------------------------------
(* The drives *)

Selected(c) == 2 * c + sel[c]

Shown(v) == IF v.phase = "busy" THEN {"BSY"}
            ELSE IF v.phase = "data" THEN {"DRDY", "DRQ"}
            ELSE {"DRDY"} \cup v.err
Status(c) == IF kind[Selected(c)] = "none" THEN {}
             ELSE IF kind[Selected(c)] = "floating" THEN {"BSY", "DRDY", "DF", "DRQ", "ERR"}
             ELSE Shown(dev[Selected(c)])

\* A command written to the drive that has just been selected.
Obeys(i) == kind[i] \in {"ata", "atapi"} /\ dev[i].phase = "idle"
Send(i, cmd, lba, count) ==
  dev' = IF Obeys(i)
         THEN [dev EXCEPT ![i] = [phase |-> "busy", err |-> {}, cmd |-> cmd, lba |-> lba,
                                  left |-> IF count = 0 THEN FULL_COUNT ELSE count,
                                  holds |-> <<>>]]
         ELSE dev

Stored(i) == IF dev[i].holds = <<>> THEN disk
             ELSE [disk EXCEPT ![i][dev[i].lba - 1] = dev[i].holds]

\* BSY goes off: the drive has stored what it was sent and is ready for the next
\* sector or done, or it gives up.  A packet device gives up on IDENTIFY, a drive
\* on a sector it has not.
Succeeds(i) ==
  /\ kind[i] = "ata"
  /\ dev[i].cmd \in {"READ", "WRITE"} /\ dev[i].left > 0 => dev[i].lba \in Lba
  /\ dev' = [dev EXCEPT ![i] = IF dev[i].cmd = "FLUSH" \/ dev[i].left = 0 THEN Resting({})
                               ELSE [dev[i] EXCEPT !.phase = "data", !.holds = <<>>]]
  /\ disk' = Stored(i)
  /\ UNCHANGED failed
Fails(i) ==
  /\ \E e \in {"ERR", "DF"} : dev' = [dev EXCEPT ![i] = Resting({e})]
  /\ failed' = failed \cup {i}
  /\ UNCHANGED disk
Answer(i) ==
  /\ dev[i].phase = "busy"
  /\ Succeeds(i) \/ Fails(i)
  /\ UNCHANGED <<kind, sel, found, pc, local, abandoned>>

\* A sector has passed through the data register: the drive has sent its last one
\* and is idle, or it is busy with the next or with storing this one.
Passed(i, sector) ==
  [dev EXCEPT ![i] = IF dev[i].cmd # "WRITE" /\ dev[i].left = 1 THEN Resting({})
                     ELSE [dev[i] EXCEPT !.phase = "busy", !.lba = @ + 1, !.left = @ - 1,
                                         !.holds = sector]]
-----------------------------------------------------------------------------
(* ata_init: ata_identify of one drive after the other *)

Identify ==
  /\ pc = "identify"
  /\ sel' = [sel EXCEPT ![Channel(slot)] = Position(slot)]
  /\ Send(2 * Channel(slot) + Position(slot), "IDENTIFY", 0, 1)
  /\ pc' = "exists"
  /\ UNCHANGED <<kind, disk, found, local, history>>

NextSlot == /\ pc' = IF slot = MAX_DRIVES - 1 THEN "caller" ELSE "identify"
            /\ slot' = (slot + 1) % MAX_DRIVES

Refuses == "ERR" \in Status(Channel(slot))
NotFound ==
  /\ \/ pc = "exists" /\ Status(Channel(slot)) = {}
     \/ pc = "signature" /\ "BSY" \notin Status(Channel(slot)) /\ kind[slot] = "atapi"
     \/ pc = "drq" /\ Refuses
  /\ NextSlot
  /\ UNCHANGED <<kind, sel, dev, disk, drives, drive_count, local, history>>

GoOn ==
  /\ \/ pc = "exists" /\ Status(Channel(slot)) # {} /\ pc' = "signature"
     \/ /\ pc = "signature" /\ "BSY" \notin Status(Channel(slot)) /\ kind[slot] # "atapi"
        /\ pc' = "drq"
  /\ UNCHANGED <<kind, sel, dev, disk, found, local, history>>

Found ==
  /\ pc = "drq" /\ ~Refuses /\ "DRQ" \in Status(Channel(slot))
  /\ dev' = Passed(Selected(Channel(slot)), <<>>)
  /\ drives' = [drives EXCEPT ![slot] = [present |-> TRUE, io_base |-> Channel(slot),
                                         drive_select |-> Position(slot)]]
  /\ drive_count' = drive_count + 1
  /\ NextSlot
  /\ UNCHANGED <<kind, sel, disk, local, history>>
-----------------------------------------------------------------------------
(* ata_read_sectors and ata_write_sectors *)

Call(c) ==
  /\ pc = "caller"
  /\ call' = c
  /\ pc' = IF drives[c.drive].present THEN "bsy" ELSE "caller"
  /\ s' = 0 /\ polls' = 0 /\ buf' = <<>> /\ result' = FALSE
  /\ failed' = {}
  /\ UNCHANGED <<kind, sel, dev, disk, found, abandoned>>

d == drives[call.drive]
Target == 2 * d.io_base + d.drive_select

\* ata_wait_bsy: it asks whichever drive was selected last.
WaitBsy_Not ==
  /\ pc = "bsy"
  /\ pc' = "command"
  /\ UNCHANGED <<kind, sel, dev, disk, found, local, history>>
WaitBsy ==
  /\ pc = "bsy" /\ "BSY" \notin Status(d.io_base)
  /\ pc' = "command"
  /\ UNCHANGED <<kind, sel, dev, disk, found, local, history>>

\* The registers take the low 28 bits of lba; the higher ones are dropped.
Lba28 == call.lba % LBA_RANGE
Command_Master ==
  /\ pc = "command"
  /\ sel' = [sel EXCEPT ![d.io_base] = 0]
  /\ Send(2 * d.io_base, call.op, Lba28, call.count)
  /\ pc' = call.op
  /\ UNCHANGED <<kind, disk, found, local, history>>
Command ==
  /\ pc = "command"
  /\ sel' = [sel EXCEPT ![d.io_base] = d.drive_select]
  /\ Send(Target, call.op, Lba28, call.count)
  /\ pc' = call.op
  /\ UNCHANGED <<kind, disk, found, local, history>>

\* A call returns; a drive that is still transferring is left to itself.
Return(ok) == /\ pc' = "caller"
              /\ result' = ok
              /\ abandoned' = IF dev[Target].phase = "idle" THEN abandoned
                              ELSE abandoned \cup {Target}

\* One poll of ata_wait_ready, and the sector behind it.
TimedOut == polls = TIMEOUT
Failed == "ERR" \in Status(d.io_base) \/ "DF" \in Status(d.io_base)
Ready == {"BSY", "DRQ"} \cap Status(d.io_base) = {"DRQ"}

ReadSector ==
  /\ Ready
  /\ buf' = Append(buf, IF dev[Target].cmd = "READ" THEN disk[Target][dev[Target].lba] ELSE <<>>)
  /\ dev' = Passed(Target, <<>>)
  /\ s' = s + 1 /\ polls' = 0
  /\ UNCHANGED <<pc, result, abandoned>>

\* false from ata_wait_ready
ReadFails ==
  /\ TimedOut \/ Failed
  /\ Return(FALSE)
  /\ UNCHANGED <<dev, s, polls, buf>>

PollAgain ==
  /\ ~TimedOut /\ ~Failed /\ ~Ready
  /\ polls' = polls + 1
  /\ UNCHANGED <<dev, pc, s, buf, result, abandoned>>

\* After count sectors: at once if count is 0, which the drive takes for 256.
ReadDone ==
  /\ Return(TRUE)
  /\ UNCHANGED <<dev, s, polls, buf>>

ata_read_sectors ==
  /\ pc = "READ"
  /\ IF s = call.count THEN ReadDone
     ELSE (~TimedOut /\ ReadSector) \/ ReadFails \/ PollAgain
  /\ UNCHANGED <<kind, sel, disk, found, call, failed>>

\* ata_wait_drq, which looks at no other bit, and the sector behind it.  A drive
\* that is sending takes nothing.
WriteSector ==
  /\ s < call.count /\ "DRQ" \in Status(d.io_base)
  /\ dev' = IF dev[Target].cmd = "WRITE" THEN Passed(Target, Written(s)) ELSE dev
  /\ s' = s + 1
  /\ UNCHANGED pc

Flush ==
  /\ s = call.count
  /\ Send(Target, "FLUSH", 0, 0)
  /\ pc' = "flush"
  /\ UNCHANGED s

ata_write_sectors ==
  /\ pc = "WRITE"
  /\ WriteSector \/ Flush
  /\ UNCHANGED <<kind, sel, disk, found, call, polls, buf, result, history>>

WriteDone ==
  /\ pc = "flush" /\ "BSY" \notin Status(d.io_base)
  /\ Return(TRUE)
  /\ UNCHANGED <<kind, sel, dev, disk, found, call, s, polls, buf, failed>>

\* The loops without a limit: ata_wait_bsy, ata_wait_drq and those of ata_identify.
PollOn ==
  /\ \/ pc = "signature" /\ "BSY" \in Status(Channel(slot))
     \/ pc = "drq" /\ ~Refuses /\ "DRQ" \notin Status(Channel(slot))
     \/ pc \in {"bsy", "flush"} /\ "BSY" \in Status(d.io_base)
     \/ pc = "WRITE" /\ s < call.count /\ "DRQ" \notin Status(d.io_base)
  /\ UNCHANGED vars
-----------------------------------------------------------------------------
ata_init == Identify \/ NotFound \/ GoOn \/ Found
Transfer == WaitBsy \/ Command \/ ata_read_sectors \/ ata_write_sectors \/ WriteDone

Next == \/ ata_init
        \/ \E c \in Calls : Call(c)
        \/ Transfer
        \/ PollOn
        \/ \E i \in Drive : Answer(i)

Spec == Init /\ [][Next]_vars

(* The CPU executes the driver, and a drive that is busy answers some day. *)
FairSpec == /\ Spec
            /\ WF_vars(ata_init) /\ WF_vars(Transfer)
            /\ \A i \in Drive : WF_vars(Answer(i))
-----------------------------------------------------------------------------
Addressable == call.lba < LBA_RANGE
Sectors == call.lba .. call.lba + call.count - 1

(* ata_read_sectors returns true only with the sectors asked for, from the *)
(* drive asked for and in their order in the buffer, whatever was read or  *)
(* written before, failed, or is still going on in the other drive of the  *)
(* channel.  Two provisos: lba fits the 28 bits of the registers (the code *)
(* does not test it and reads sector lba % 2^28 otherwise), and no earlier *)
(* call has left a transfer of this drive unfinished.                      *)
ReadsRequested ==
  /\ pc = "caller" /\ call.op = "READ" /\ result
  /\ Addressable /\ call.drive \notin abandoned
  => /\ Len(buf) = call.count
     /\ \A i \in 1..call.count : buf[i] = disk[call.drive][call.lba + i - 1]

(* When ata_write_sectors returns true the sectors it was asked to write   *)
(* have the contents of the buffer, unless the drive reported an error,    *)
(* which the code does not look for; no other sector of any drive changes  *)
(* during the call.  (With the two provisos of ReadsRequested: an lba of   *)
(* more than 28 bits writes another sector.)                               *)
ReturnsWritten ==
  /\ pc = "flush" /\ pc' = "caller"
  /\ Addressable /\ call.drive \notin abandoned' \cup failed
  => \A l \in Sectors : disk[call.drive][l] = Written(l - call.lba)
ChangesRequested ==
  \A i \in Drive, l \in Lba :
    disk'[i][l] # disk[i][l] /\ Addressable /\ i \notin abandoned =>
      /\ call.op = "WRITE" /\ i = call.drive /\ l \in Sectors
      /\ disk'[i][l] = Written(l - call.lba)
WritesRequested == [][ReturnsWritten /\ ChangesRequested]_vars

(* IDENTIFY, READ and WRITE never reach a drive that is busy, although     *)
(* ata_wait_bsy asks the drive selected last and the command goes to       *)
(* another: only the drive selected last can be busy.  FLUSH is sent       *)
(* without a poll.  If it finds the drive busy then only with storing the  *)
(* last sector, so that the wait behind it is for that sector, provided    *)
(* that count is not 0 and no earlier call left a transfer unfinished.     *)
SelectedAlone ==
  /\ \A i \in Drive : dev[i].phase = "busy" => i = Selected(Channel(i))
  /\ pc = "identify" => dev[slot].phase # "busy"
  /\ pc = "command" => dev[Target].phase # "busy"
  /\ /\ pc = "WRITE" /\ s = call.count /\ call.count # 0
     /\ Target \notin abandoned /\ dev[Target].phase = "busy"
     => dev[Target].cmd = "WRITE" /\ dev[Target].left = 0

(* Every call returns, and ata_init ends, if drives answer and unconnected *)
(* channels read as 0: the polls without a limit never wait for a drive    *)
(* that has nothing more to say, with two exceptions.  ata_write_sectors   *)
(* waits for ever for a drive that refused a sector, and ata_identify for  *)
(* one that shows DF without ERR, which its loop does not test.            *)
Refused == \/ pc = "WRITE" /\ dev[Target].err # {}
           \/ pc = "drq" /\ dev[slot].err = {"DF"}
=============================================================================
