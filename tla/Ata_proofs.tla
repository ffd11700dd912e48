----------------------------- MODULE Ata_proofs -----------------------------
(***************************************************************************)
(* Proofs about module Ata, for any drives, any number of sectors, any     *)
(* calls and any timeout: commands reach idle drives, and the sectors that *)
(* calls move are the ones asked for.                                      *)
(***************************************************************************)
EXTENDS Ata, TLAPS

Content == {<<>>} \cup ({"disk"} \X Drive \X Lba) \cup ({"buffer"} \X Nat)
DevState == [phase : {"idle", "busy", "data"}, err : SUBSET {"ERR", "DF"},
             cmd : {"none", "IDENTIFY", "READ", "WRITE", "FLUSH"},
             lba : Nat, left : Nat, holds : Content]
Initialising == {"identify", "exists", "signature", "drq"}
Calling == {"bsy", "command", "READ", "WRITE", "flush"}

Typed ==
  /\ kind \in [Drive -> Kind]
  /\ sel \in [{0, 1} -> {0, 1}]
  /\ dev \in [Drive -> DevState]
  /\ disk \in [Drive -> [Lba -> Content]]
  /\ drives \in [Drive -> [present : BOOLEAN, io_base : {0, 1}, drive_select : {0, 1}]]
  /\ pc \in Initialising \cup Calling \cup {"caller"}
  /\ slot \in Drive
  /\ call \in [op : {"none", "READ", "WRITE"}, drive : Drive, lba : Nat, count : Nat]
  /\ s \in 0 .. call.count
  /\ buf \in Seq(Content)

(* What ata_init has recorded is where the drive is.                       *)
Attached ==
  \A i \in Drive : drives[i].present => /\ kind[i] = "ata"
                                        /\ drives[i].io_base = Channel(i)
                                        /\ drives[i].drive_select = Position(i)

(* ata_identify talks to the drive of its slot and has asked for one       *)
(* sector.  No call has been made yet.                                     *)
Asking ==
  /\ pc \in Initialising => call.op = "none" /\ abandoned = {}
  /\ pc \in {"exists", "signature", "drq"} =>
       /\ sel[Channel(slot)] = Position(slot)
       /\ dev[slot].phase # "idle" => dev[slot].cmd = "IDENTIFY" /\ dev[slot].left = 1
  /\ pc = "signature" => kind[slot] # "none"
  /\ pc = "drq" => kind[slot] = "ata"

(* A transfer talks to the drive of its call.                              *)
Working ==
  /\ pc \in {"bsy", "command"} => call.op # "none" /\ s = 0 /\ buf = <<>>
  /\ pc \in Calling => drives[call.drive].present
  /\ pc \in {"READ", "WRITE", "flush"} => sel[Channel(call.drive)] = Position(call.drive)
  /\ pc = "READ" => call.op = "READ"
  /\ pc \in {"WRITE", "flush"} => call.op = "WRITE"
  /\ pc = "flush" => s = call.count

(* Only the drive selected last can be busy; ata_wait_bsy has seen that it *)
(* is not.                                                                 *)
Alone ==
  /\ \A i \in Drive : dev[i].phase = "busy" => i = Selected(Channel(i))
  /\ pc = "command" => dev[Selected(Channel(call.drive))].phase # "busy"

(* A drive that is doing something does it for the call in progress, or    *)
(* was left alone by an earlier one.                                       *)
Engaged == IF pc \in {"exists", "signature", "drq"} THEN {slot}
           ELSE IF pc \in {"READ", "WRITE", "flush"} THEN {call.drive} ELSE {}
Quiet == \A i \in Drive : dev[i].phase # "idle" => i \in abandoned \/ i \in Engaged

(* A drive moves sectors it has, and stores one only after taking it.      *)
Sane(i, v) ==
  /\ v.phase # "idle" => kind[i] \in {"ata", "atapi"}
  /\ v.phase = "data" => /\ kind[i] = "ata"
                         /\ v.left > 0
                         /\ v.cmd \in {"READ", "WRITE"} => v.lba \in Lba
  /\ v.holds # <<>> => v.phase = "busy" /\ v.cmd = "WRITE" /\ v.lba - 1 \in Lba
Stores == \A i \in Drive : Sane(i, dev[i])

(* The first s sectors are in the buffer and the drive goes on with the    *)
(* next.                                                                   *)
Reading ==
  pc = "READ" /\ Addressable /\ call.drive \notin abandoned =>
    /\ Len(buf) = s
    /\ \A i \in 1..s : buf[i] = disk[call.drive][call.lba + i - 1]
    /\ dev[call.drive].phase # "idle" =>
         dev[call.drive].cmd = "READ" /\ dev[call.drive].lba = call.lba + s

(* The first s sectors are on the disk, but for one that the drive has     *)
(* taken and not yet stored.                                               *)
WriteCmd(v) ==
  v.phase # "idle" => \/ v.cmd = "WRITE" /\ v.lba = call.lba + s
                      \/ pc = "flush" /\ v.cmd = "FLUSH"
Holding(v) == v.holds # <<>> => s > 0 /\ v.holds = Written(s - 1)
Done(v) ==
  call.drive \notin failed =>
    \A l \in call.lba .. call.lba + s - 1 :
      /\ l \in Lba
      /\ \/ disk[call.drive][l] = Written(l - call.lba)
         \/ v.holds # <<>> /\ l = call.lba + s - 1
Writing ==
  pc \in {"WRITE", "flush"} /\ Addressable /\ call.drive \notin abandoned =>
    LET v == dev[call.drive] IN WriteCmd(v) /\ Holding(v) /\ Done(v)

(* The drive still expects the sectors that the call has not sent.         *)
Storing ==
  pc = "WRITE" /\ call.drive \notin abandoned /\ dev[call.drive].phase # "idle" =>
    /\ dev[call.drive].cmd = "WRITE"
    /\ call.count # 0 => dev[call.drive].left = call.count - s

IInv == /\ Typed /\ Attached /\ Asking /\ Working /\ Alone /\ Quiet /\ Stores
        /\ Reading /\ Writing /\ Storing /\ ReadsRequested
-----------------------------------------------------------------------------
(* Channels and the status register *)

LEMMA Places ==
  /\ \A i \in Drive : /\ Channel(i) \in {0, 1} /\ Position(i) \in {0, 1}
                      /\ 2 * Channel(i) + Position(i) = i
  /\ \A c \in {0, 1}, b \in {0, 1} : /\ 2 * c + b \in Drive
                                     /\ Channel(2 * c + b) = c /\ Position(2 * c + b) = b
  BY DEF Drive, MAX_DRIVES, Channel, Position

LEMMA Picked ==
  ASSUME NEW i \in Drive, sel[Channel(i)] = Position(i)
  PROVE  Selected(Channel(i)) = i
  BY Zenon, Places DEF Selected

LEMMA OnTarget ==
  ASSUME Typed, Attached, drives[call.drive].present
  PROVE  /\ call.drive \in Drive
         /\ kind[call.drive] = "ata"
         /\ d.io_base = Channel(call.drive) /\ d.drive_select = Position(call.drive)
         /\ Target = call.drive
<1>1. call.drive \in Drive
  BY Zenon DEF Typed
<1>2. /\ kind[call.drive] = "ata"
      /\ d.io_base = Channel(call.drive) /\ d.drive_select = Position(call.drive)
  BY Zenon, <1>1 DEF Attached, d
<1> QED
  BY Zenon, <1>1, <1>2, Places DEF Target

\* The status register shows the phase of the drive that is selected.
LEMMA Shows ==
  ASSUME Typed, NEW i \in Drive, Selected(Channel(i)) = i, kind[i] = "ata"
  PROVE  /\ "BSY" \in Status(Channel(i)) <=> dev[i].phase = "busy"
         /\ "DRQ" \in Status(Channel(i)) <=> dev[i].phase = "data"
         /\ "ERR" \in Status(Channel(i)) => dev[i].phase = "idle"
<1>1. dev[i].phase \in {"idle", "busy", "data"} /\ dev[i].err \subseteq {"ERR", "DF"}
  BY Zenon DEF Typed, DevState
<1>2. Status(Channel(i)) = Shown(dev[i])
  BY Zenon DEF Status
<1> QED
  BY <1>1, <1>2 DEF Shown

LEMMA Bytes ==
  /\ <<>> \in Content
  /\ \A i \in Drive, l \in Lba : Original(i, l) \in Content
  /\ \A n \in Nat : Written(n) \in Content /\ Written(n) # <<>>
  BY Zenon DEF Content, Original, Written

LEMMA Rests ==
  ASSUME NEW err \in SUBSET {"ERR", "DF"}
  PROVE  /\ Resting(err) \in DevState
         /\ Resting(err).phase = "idle" /\ Resting(err).holds = <<>>
         /\ \A i : Sane(i, Resting(err))
  BY Zenon, Bytes DEF Resting, DevState, Sane

LEMMA StartInv == Init => IInv
<1> SUFFICES ASSUME Init PROVE IInv
  BY Zenon
<1>1. \A i \in Drive : dev[i] = Resting({})
  BY Zenon DEF Init
<1>2. Resting({}) \in DevState /\ Resting({}).phase = "idle" /\ \A i : Sane(i, Resting({}))
  BY Zenon, Rests
<1>3. Typed
  <2>1. disk \in [Drive -> [Lba -> Content]]
    BY Zenon, Bytes DEF Init
  <2>2. dev \in [Drive -> DevState]
    BY Zenon, <1>2 DEF Init
  <2>3. kind \in [Drive -> Kind]
    BY Zenon, AtaAssumption DEF Init
  <2>4. sel \in [{0, 1} -> {0, 1}] /\ buf \in Seq(Content)
    BY DEF Init
  <2>5. 0 \in Drive
    BY DEF Drive, MAX_DRIVES
  <2>6. drives \in [Drive -> [present : BOOLEAN, io_base : {0, 1}, drive_select : {0, 1}]]
    BY Zenon DEF Init
  <2> QED
    BY <2>1, <2>2, <2>3, <2>4, <2>5, <2>6 DEF Init, Typed, Initialising, Calling
<1>4. Attached /\ Asking /\ Working
  BY Zenon DEF Init, Attached, Asking, Working, Initialising, Calling
<1>5. Alone /\ Quiet /\ Stores
  BY Zenon, <1>1, <1>2 DEF Init, Alone, Quiet, Stores
<1>6. Reading /\ Writing /\ Storing /\ ReadsRequested
  BY Zenon DEF Init, Reading, Writing, Storing, ReadsRequested
<1> QED
  BY Zenon, <1>3, <1>4, <1>5, <1>6 DEF IInv
-----------------------------------------------------------------------------
(* What a step does to one drive *)

LEMMA OneMoves ==
  ASSUME Typed, Stores, NEW i \in Drive, NEW v \in DevState, Sane(i, v),
         dev' = [dev EXCEPT ![i] = v], kind' = kind
  PROVE  /\ dev' \in [Drive -> DevState]
         /\ dev'[i] = v
         /\ \A j \in Drive \ {i} : dev'[j] = dev[j]
         /\ Stores'
<1>1. dev \in [Drive -> DevState]
  BY Zenon DEF Typed
<1>2. /\ dev' \in [Drive -> DevState]
      /\ dev'[i] = v
      /\ \A j \in Drive \ {i} : dev'[j] = dev[j]
  BY Zenon, <1>1
<1>3. ASSUME NEW j \in Drive PROVE Sane(j, dev[j])'
  <2>1. CASE j = i
    BY Zenon, <1>2, <2>1 DEF Sane
  <2>2. CASE j # i
    BY Zenon, <1>2, <2>2 DEF Sane, Stores
  <2> QED
    BY Zenon, <2>1, <2>2
<1> QED
  BY Zenon, <1>2, <1>3 DEF Stores

\* A command changes an idle drive only, and then at most makes it busy.
LEMMA SendStep ==
  ASSUME Typed, Stores, NEW i \in Drive, NEW lba \in Nat, NEW count \in Nat,
         NEW cmd \in {"IDENTIFY", "READ", "WRITE", "FLUSH"},
         Send(i, cmd, lba, count), kind' = kind
  PROVE  /\ dev' \in [Drive -> DevState]
         /\ Stores'
         /\ \A j \in Drive \ {i} : dev'[j] = dev[j]
         /\ \/ dev'[i] = dev[i] /\ (dev[i].phase # "idle" \/ kind[i] \notin {"ata", "atapi"})
            \/ /\ dev[i].phase = "idle"
               /\ dev'[i].phase = "busy" /\ dev'[i].cmd = cmd /\ dev'[i].lba = lba
               /\ dev'[i].left = (IF count = 0 THEN FULL_COUNT ELSE count)
               /\ dev'[i].holds = <<>>
<1>1. CASE Obeys(i)
  <2> DEFINE v == [phase |-> "busy", err |-> {}, cmd |-> cmd, lba |-> lba,
                   left |-> IF count = 0 THEN FULL_COUNT ELSE count, holds |-> <<>>]
  <2>1. dev' = [dev EXCEPT ![i] = v]
    BY Zenon, <1>1 DEF Send
  <2>2. v \in DevState
    BY Zenon, Bytes, AtaAssumption DEF DevState
  <2>3. Sane(i, v)
    BY Zenon, <1>1 DEF Sane, Obeys
  <2> HIDE DEF v
  <2>4. /\ dev' \in [Drive -> DevState] /\ Stores'
        /\ dev'[i] = v /\ \A j \in Drive \ {i} : dev'[j] = dev[j]
    BY ZenonT(30), <2>1, <2>2, <2>3, OneMoves
  <2> QED
    BY <1>1, <2>4 DEF v, Obeys
<1>2. CASE ~ Obeys(i)
  BY Zenon, <1>2 DEF Send, Obeys, Typed, Stores, Sane
<1> QED
  BY Zenon, <1>1, <1>2

\* A sector passes: the drive rests or is busy with the next one.
LEMMA PassedStep ==
  ASSUME Typed, Stores, NEW i \in Drive, dev[i].phase = "data",
         NEW sector \in Content, sector # <<>> => dev[i].cmd = "WRITE",
         dev[i].cmd = "WRITE" => dev[i].lba \in Lba,
         dev' = Passed(i, sector), kind' = kind
  PROVE  /\ dev' \in [Drive -> DevState]
         /\ Stores'
         /\ \A j \in Drive \ {i} : dev'[j] = dev[j]
         /\ \/ dev'[i] = Resting({}) /\ dev[i].cmd # "WRITE"
            \/ /\ ~ (dev[i].cmd # "WRITE" /\ dev[i].left = 1)
               /\ dev'[i].phase = "busy" /\ dev'[i].cmd = dev[i].cmd
               /\ dev'[i].lba = dev[i].lba + 1 /\ dev'[i].left = dev[i].left - 1
               /\ dev'[i].holds = sector
<1>0. dev[i] \in DevState /\ dev[i].left > 0
  BY Zenon DEF Typed, Stores, Sane
<1>1. CASE dev[i].cmd # "WRITE" /\ dev[i].left = 1
  <2>1. dev' = [dev EXCEPT ![i] = Resting({})]
    BY Zenon, <1>1 DEF Passed
  <2> QED
    BY ZenonT(30), <1>1, <2>1, Rests, OneMoves
<1>2. CASE ~ (dev[i].cmd # "WRITE" /\ dev[i].left = 1)
  <2> DEFINE v == [dev[i] EXCEPT !.phase = "busy", !.lba = @ + 1, !.left = @ - 1,
                                 !.holds = sector]
  <2>1. dev' = [dev EXCEPT ![i] = v]
    BY ZenonT(30), <1>2 DEF Passed
  <2>2. v \in DevState
    <3>1. dev[i].lba \in Nat /\ dev[i].left \in Nat
      BY Zenon, <1>0 DEF DevState
    <3>2. dev[i].lba + 1 \in Nat /\ dev[i].left - 1 \in Nat
      BY <1>0, <3>1
    <3> QED
      BY ZenonT(30), <1>0, <3>2 DEF DevState
  <2>3. /\ v.phase = "busy" /\ v.cmd = dev[i].cmd
        /\ v.lba = dev[i].lba + 1 /\ v.left = dev[i].left - 1 /\ v.holds = sector
    BY Zenon, <1>0 DEF DevState
  <2>4. dev[i].lba \in Nat
    BY Zenon, <1>0 DEF DevState
  <2> HIDE DEF v
  <2>5. Sane(i, v)
    BY <2>3, <2>4 DEF Sane, Stores
  <2> QED
    BY ZenonT(30), <1>2, <2>1, <2>2, <2>3, <2>5, OneMoves
<1> QED
  BY Zenon, <1>1, <1>2
-----------------------------------------------------------------------------
(* ata_init *)

LEMMA IdentifyStep ==
  ASSUME IInv, Identify
  PROVE  IInv'
<1>0. /\ pc = "identify" /\ pc' = "exists"
      /\ sel' = [sel EXCEPT ![Channel(slot)] = Position(slot)]
      /\ UNCHANGED <<kind, disk, drives, slot, call, s, buf, result, abandoned, failed>>
  BY Zenon DEF Identify, found, local, history
<1>1. Typed /\ Attached /\ Asking /\ Working /\ Stores /\ slot \in Drive
  BY Zenon DEF IInv, Typed
<1>2. \A i \in Drive : dev[i].phase = "idle"
  BY Zenon, <1>0 DEF IInv, Asking, Quiet, Engaged, Initialising
<1>3. Send(slot, "IDENTIFY", 0, 1)
  BY Zenon, <1>1, Places DEF Identify
<1>4. /\ dev' \in [Drive -> DevState]
      /\ Stores'
      /\ \A j \in Drive \ {slot} : dev'[j].phase = "idle"
      /\ dev'[slot].phase # "idle" => dev'[slot].cmd = "IDENTIFY" /\ dev'[slot].left = 1
  <2>1. 0 \in Nat /\ 1 \in Nat
    BY Zenon
  <2> QED
    BY <1>0, <1>1, <1>2, <1>3, <2>1, SendStep
<1>5. sel' \in [{0, 1} -> {0, 1}] /\ sel'[Channel(slot)] = Position(slot)
  BY Zenon, <1>0, <1>1, Places DEF Typed
<1>6. Typed'
  BY Zenon, <1>0, <1>1, <1>4, <1>5 DEF Typed, Initialising
<1>7. Attached' /\ Asking' /\ Working'
  BY Zenon, <1>0, <1>1, <1>4, <1>5 DEF Attached, Asking, Working, Initialising, Calling
<1>8. Alone' /\ Quiet'
  <2>1. Selected(Channel(slot))' = slot
    BY Zenon, <1>0, <1>1, <1>5, Places DEF Selected
  <2> QED
    BY Zenon, <1>0, <1>4, <2>1 DEF Alone, Quiet, Engaged
<1>9. Reading' /\ Writing' /\ Storing' /\ ReadsRequested'
  BY Zenon, <1>0 DEF Reading, Writing, Storing, ReadsRequested
<1> QED
  BY Zenon, <1>4, <1>6, <1>7, <1>8, <1>9 DEF IInv

\* Once the drive of the slot is idle, all are.
LEMMA NextSlotStep ==
  ASSUME IInv, pc \in {"exists", "signature", "drq"}, NextSlot,
         dev' \in [Drive -> DevState], Stores', \A i \in Drive : dev'[i].phase = "idle",
         drives' \in [Drive -> [present : BOOLEAN, io_base : {0, 1}, drive_select : {0, 1}]],
         Attached',
         UNCHANGED <<kind, sel, disk, call, s, buf, abandoned>>
  PROVE  IInv'
<1>1. Typed /\ Asking /\ call.op = "none" /\ abandoned = {}
  BY Zenon DEF IInv, Asking, Initialising
<1>2. slot' \in Drive /\ pc' \in {"caller", "identify"}
  BY <1>1 DEF NextSlot, Typed, Drive, MAX_DRIVES
<1>3. Typed'
  BY Zenon, <1>1, <1>2 DEF Typed, Initialising
<1>4. Asking' /\ Working'
  BY Zenon, <1>1, <1>2 DEF Asking, Working, Initialising, Calling
<1>5. Alone' /\ Quiet'
  BY Zenon, <1>2 DEF Alone, Quiet
<1>6. Reading' /\ Writing' /\ Storing' /\ ReadsRequested'
  BY Zenon, <1>1, <1>2 DEF Reading, Writing, Storing, ReadsRequested
<1> QED
  BY Zenon, <1>3, <1>4, <1>5, <1>6 DEF IInv

\* While ata_identify asks a drive, the others are idle and it is selected.
LEMMA Asked ==
  ASSUME IInv, pc \in {"exists", "signature", "drq"}
  PROVE  /\ Typed /\ Stores /\ slot \in Drive
         /\ Selected(Channel(slot)) = slot
         /\ \A i \in Drive \ {slot} : dev[i].phase = "idle"
<1>1. Typed /\ Stores /\ slot \in Drive
  BY Zenon DEF IInv, Typed
<1>2. sel[Channel(slot)] = Position(slot) /\ abandoned = {}
  BY Zenon DEF IInv, Asking, Initialising
<1>3. Selected(Channel(slot)) = slot
  BY Zenon, <1>1, <1>2, Picked
<1> QED
  BY Zenon, <1>1, <1>2, <1>3 DEF IInv, Quiet, Engaged

LEMMA NotFoundStep ==
  ASSUME IInv, NotFound
  PROVE  IInv'
<1>0. /\ pc \in {"exists", "signature", "drq"} /\ NextSlot
      /\ UNCHANGED <<kind, sel, dev, disk, drives, call, s, buf, abandoned>>
  BY Zenon DEF NotFound, local, history
<1>1. /\ Typed /\ Stores /\ slot \in Drive
      /\ Selected(Channel(slot)) = slot
      /\ \A i \in Drive \ {slot} : dev[i].phase = "idle"
  BY Zenon, <1>0, Asked
<1>2. dev[slot].phase \in {"idle", "busy", "data"} /\ kind[slot] \in Kind
  BY Zenon, <1>1 DEF Typed, DevState
<1>3. Sane(slot, dev[slot])
  BY Zenon, <1>1 DEF Stores
<1>4. dev[slot].phase = "idle"
  <2>1. CASE pc = "exists" /\ Status(Channel(slot)) = {}
    <3>1. kind[slot] = "none"
      BY Zenon, <1>1, <2>1 DEF Status, Shown
    <3> QED
      BY Zenon, <1>3, <3>1 DEF Sane
  <2>2. CASE pc = "signature" /\ "BSY" \notin Status(Channel(slot)) /\ kind[slot] = "atapi"
    <3>1. dev[slot].phase # "busy"
      BY Zenon, <1>1, <2>2 DEF Status, Shown
    <3> QED
      BY Zenon, <1>2, <1>3, <2>2, <3>1 DEF Sane
  <2>3. CASE pc = "drq" /\ Refuses
    <3>1. kind[slot] = "ata"
      BY Zenon, <2>3 DEF IInv, Asking
    <3> QED
      BY Zenon, <1>1, <2>3, <3>1, Shows DEF Refuses
  <2> QED
    BY Zenon, <2>1, <2>2, <2>3 DEF NotFound
<1>5. /\ dev' \in [Drive -> DevState] /\ Stores' /\ \A i \in Drive : dev'[i].phase = "idle"
      /\ drives' \in [Drive -> [present : BOOLEAN, io_base : {0, 1}, drive_select : {0, 1}]]
      /\ Attached'
  BY Zenon, <1>0, <1>1, <1>4 DEF IInv, Typed, Stores, Sane, Attached
<1> QED
  BY Zenon, <1>0, <1>5, NextSlotStep

LEMMA GoOnStep ==
  ASSUME IInv, GoOn
  PROVE  IInv'
<1>0. /\ pc \in {"exists", "signature"} /\ pc' \in {"signature", "drq"}
      /\ UNCHANGED <<kind, sel, dev, disk, drives, slot, call, s, buf, abandoned>>
  BY Zenon DEF GoOn, found, local, history
<1>1. /\ Typed /\ Stores /\ slot \in Drive
      /\ Selected(Channel(slot)) = slot
  BY Zenon, <1>0, Asked
<1>2. pc' = "drq" => kind[slot] = "ata"
  <2> SUFFICES ASSUME pc' = "drq" PROVE kind[slot] = "ata"
    BY Zenon
  <2>1. "BSY" \notin Status(Channel(slot)) /\ kind[slot] # "atapi"
    BY Zenon, <1>0 DEF GoOn
  <2>2. kind[slot] # "floating"
    BY Zenon, <1>1, <2>1 DEF Status
  <2>3. kind[slot] # "none"
    BY Zenon, <1>0 DEF GoOn, IInv, Asking
  <2> QED
    BY Zenon, <1>1, <2>1, <2>2, <2>3 DEF Typed, Kind
<1>3. Typed'
  BY Zenon, <1>0, <1>1 DEF Typed, Initialising
<1>4. pc' = "signature" => kind[slot] # "none"
  BY Zenon, <1>0, <1>1 DEF GoOn, Status
<1>5. Attached' /\ Asking' /\ Working'
  BY Zenon, <1>0, <1>2, <1>4 DEF IInv, Attached, Asking, Working, Initialising, Calling
<1>6. Alone' /\ Quiet' /\ Stores'
  BY Zenon, <1>0 DEF IInv, Alone, Quiet, Engaged, Stores, Sane, Selected
<1>7. Reading' /\ Writing' /\ Storing' /\ ReadsRequested'
  BY Zenon, <1>0 DEF Reading, Writing, Storing, ReadsRequested
<1> QED
  BY Zenon, <1>3, <1>5, <1>6, <1>7 DEF IInv

LEMMA FoundStep ==
  ASSUME IInv, Found
  PROVE  IInv'
<1>0. /\ pc = "drq" /\ NextSlot
      /\ UNCHANGED <<kind, sel, disk, call, s, buf, abandoned>>
  BY Zenon DEF Found, local, history
<1>1. /\ Typed /\ Stores /\ slot \in Drive
      /\ Selected(Channel(slot)) = slot
      /\ \A i \in Drive \ {slot} : dev[i].phase = "idle"
  BY Zenon, <1>0, Asked
<1>2. kind[slot] = "ata"
  BY Zenon, <1>0 DEF IInv, Asking
<1>3. dev[slot].phase = "data"
  BY Zenon, <1>1, <1>2, Shows DEF Found
<1>4. dev[slot].cmd = "IDENTIFY" /\ dev[slot].left = 1
  BY Zenon, <1>0, <1>3 DEF IInv, Asking
<1>5. /\ dev' \in [Drive -> DevState] /\ Stores'
      /\ \A j \in Drive \ {slot} : dev'[j] = dev[j]
      /\ dev'[slot] = Resting({})
  <2>1. dev' = Passed(slot, <<>>) /\ kind' = kind
    BY Zenon, <1>0, <1>1 DEF Found
  <2>2. <<>> \in Content
    BY Zenon, Bytes
  <2>3. dev[slot].cmd # "WRITE"
    BY Zenon, <1>4
  <2> QED
    BY Zenon, <1>1, <1>3, <1>4, <2>1, <2>2, <2>3, PassedStep
<1>6. \A i \in Drive : dev'[i].phase = "idle"
  BY <1>1, <1>5, Rests
<1>7. Channel(slot) \in {0, 1} /\ Position(slot) \in {0, 1}
  BY Zenon, <1>1, Places
<1>8. drives' \in [Drive -> [present : BOOLEAN, io_base : {0, 1}, drive_select : {0, 1}]]
  BY Zenon, <1>1, <1>7 DEF Found, Typed
<1>9. Attached'
  BY Zenon, <1>0, <1>1, <1>2 DEF Found, IInv, Attached, Typed
<1> QED
  BY Zenon, <1>0, <1>5, <1>6, <1>8, <1>9, NextSlotStep
-----------------------------------------------------------------------------
(* The start of a transfer *)

LEMMA CallStep ==
  ASSUME IInv, NEW c \in Calls, Call(c)
  PROVE  IInv'
<1>0. /\ pc = "caller" /\ call' = c
      /\ pc' = IF drives[c.drive].present THEN "bsy" ELSE "caller"
      /\ s' = 0 /\ buf' = <<>> /\ result' = FALSE
      /\ UNCHANGED <<kind, sel, dev, disk, drives, slot, abandoned>>
  BY Zenon DEF Call, found
<1>1. /\ c \in [op : {"none", "READ", "WRITE"}, drive : Drive, lba : Nat, count : Nat]
      /\ c.op # "none" /\ 0 <= c.count
  BY AtaAssumption
<1>2. Typed'
  <2>1. s' \in 0 .. call'.count /\ buf' \in Seq(Content)
    BY <1>0, <1>1
  <2>2. pc' \in Calling \cup {"caller"}
    BY Zenon, <1>0 DEF Calling
  <2> QED
    BY Zenon, <1>0, <1>1, <2>1, <2>2 DEF IInv, Typed
<1>3. Attached' /\ Asking' /\ Working'
  BY Zenon, <1>0, <1>1 DEF IInv, Attached, Asking, Working, Initialising, Calling
<1>4. Alone' /\ Quiet' /\ Stores'
  BY Zenon, <1>0 DEF IInv, Alone, Quiet, Engaged, Stores, Sane, Selected
<1>5. Reading' /\ Writing' /\ Storing' /\ ReadsRequested'
  BY Zenon, <1>0 DEF Reading, Writing, Storing, ReadsRequested
<1> QED
  BY Zenon, <1>2, <1>3, <1>4, <1>5 DEF IInv

LEMMA WaitBsyStep ==
  ASSUME IInv, WaitBsy
  PROVE  IInv'
<1>0. /\ pc = "bsy" /\ pc' = "command"
      /\ UNCHANGED <<kind, sel, dev, disk, drives, slot, call, s, buf, result, abandoned>>
  BY Zenon DEF WaitBsy, found, local, history
<1>1. Typed /\ Attached /\ drives[call.drive].present /\ call.drive \in Drive
  BY Zenon, <1>0 DEF IInv, Working, Calling, Typed
<1> DEFINE j == Selected(Channel(call.drive))
<1>2. dev[j].phase # "busy"
  <2>1. d.io_base = Channel(call.drive) /\ Channel(call.drive) \in {0, 1}
    BY Zenon, <1>1, OnTarget, Places
  <2>2. j \in Drive
    BY <1>1, <2>1, Places DEF Typed, Selected
  <2>3. "BSY" \notin Status(Channel(call.drive))
    BY Zenon, <2>1 DEF WaitBsy
  <2>4. dev[j].phase = "busy" => kind[j] \in {"ata", "atapi"}
    BY Zenon, <2>2 DEF IInv, Stores, Sane
  <2> QED
    BY Zenon, <2>3, <2>4 DEF Status, Shown
<1>3. Typed'
  BY Zenon, <1>0, <1>1 DEF Typed, Calling
<1>4. Attached' /\ Asking' /\ Working'
  BY Zenon, <1>0 DEF IInv, Attached, Asking, Working, Initialising, Calling
<1>5. Alone' /\ Quiet' /\ Stores'
  BY Zenon, <1>0, <1>2 DEF IInv, Alone, Quiet, Engaged, Stores, Sane, Selected
<1>6. Reading' /\ Writing' /\ Storing' /\ ReadsRequested'
  BY Zenon, <1>0 DEF Reading, Writing, Storing, ReadsRequested
<1> QED
  BY Zenon, <1>3, <1>4, <1>5, <1>6 DEF IInv

LEMMA CommandStep ==
  ASSUME IInv, Command
  PROVE  IInv'
<1> DEFINE t == call.drive
<1>0. /\ pc = "command" /\ pc' = call.op
      /\ UNCHANGED <<kind, disk, drives, slot, call, s, buf, result, abandoned, failed>>
  BY Zenon DEF Command, found, local, history
<1>1. /\ Typed /\ Attached /\ Stores /\ t \in Drive /\ drives[t].present
      /\ call.op \in {"READ", "WRITE"} /\ call.lba \in Nat /\ call.count \in Nat
      /\ s = 0 /\ buf = <<>>
  BY Zenon, <1>0 DEF IInv, Working, Calling, Typed
<1>2. /\ kind[t] = "ata" /\ Target = t
      /\ sel' = [sel EXCEPT ![Channel(t)] = Position(t)]
      /\ Channel(t) \in {0, 1} /\ Position(t) \in {0, 1}
  BY ZenonT(30), <1>1, OnTarget, Places DEF Command
<1>3. /\ dev' \in [Drive -> DevState]
      /\ Stores'
      /\ \A j \in Drive \ {t} : dev'[j] = dev[j]
      /\ \/ dev'[t] = dev[t] /\ dev[t].phase # "idle"
         \/ /\ dev'[t].phase = "busy" /\ dev'[t].cmd = call.op /\ dev'[t].lba = Lba28
            /\ call.count # 0 => dev'[t].left = call.count
            /\ dev'[t].holds = <<>>
  <2>1. Send(t, call.op, Lba28, call.count)
    BY Zenon, <1>2 DEF Command
  <2>2. Lba28 \in Nat
    BY <1>1, AtaAssumption DEF Lba28
  <2> QED
    BY <1>0, <1>1, <1>2, <2>1, <2>2, SendStep
<1>4. sel' \in [{0, 1} -> {0, 1}] /\ sel'[Channel(t)] = Position(t)
  BY Zenon, <1>1, <1>2 DEF Typed
<1>5. Typed'
  BY Zenon, <1>0, <1>1, <1>3, <1>4 DEF Typed, Calling
<1>6. Attached' /\ Asking' /\ Working'
  BY Zenon, <1>0, <1>1, <1>4 DEF IInv, Attached, Asking, Working, Initialising, Calling
<1>7. Alone'
  <2>1. Selected(Channel(t))' = t
    BY Zenon, <1>1, <1>0, <1>4, Places DEF Selected
  <2>2. ASSUME NEW i \in Drive \ {t}, dev'[i].phase = "busy"
        PROVE  i = Selected(Channel(i))'
    <3>1. dev[i].phase = "busy" /\ i = Selected(Channel(i))
      BY Zenon, <1>3, <2>2 DEF IInv, Alone
    <3>2. Channel(i) # Channel(t)
      BY Zenon, <1>0, <3>1 DEF IInv, Alone
    <3>3. sel'[Channel(i)] = sel[Channel(i)]
      BY Zenon, <1>1, <1>2, <3>2, Places DEF Typed
    <3> QED
      BY Zenon, <3>1, <3>3 DEF Selected
  <2>3. pc' # "command"
    BY Zenon, <1>0, <1>1
  <2> QED
    BY Zenon, <2>1, <2>2, <2>3, <1>0 DEF Alone
<1>8. Quiet'
  BY Zenon, <1>0, <1>1, <1>3 DEF IInv, Quiet, Engaged
<1>9. t \notin abandoned => /\ dev'[t].phase = "busy" /\ dev'[t].cmd = call.op
                            /\ Addressable => dev'[t].lba = call.lba
                            /\ call.count # 0 => dev'[t].left = call.count
                            /\ dev'[t].holds = <<>>
  <2>1. Addressable => Lba28 = call.lba
    BY <1>1, AtaAssumption DEF Addressable, Lba28
  <2> QED
    BY Zenon, <1>0, <1>1, <1>3, <2>1 DEF IInv, Quiet, Engaged
<1>10. Reading'
  BY <1>0, <1>1, <1>9 DEF Reading, Addressable
<1>11. Writing' /\ Storing'
  BY <1>0, <1>1, <1>9 DEF Writing, WriteCmd, Holding, Done, Storing, Addressable
<1>12. ReadsRequested'
  BY Zenon, <1>0, <1>1 DEF ReadsRequested
<1> QED
  BY Zenon, <1>3, <1>5, <1>6, <1>7, <1>8, <1>10, <1>11, <1>12 DEF IInv
-----------------------------------------------------------------------------
(* Transfers, and what the drives do meanwhile *)

LEMMA OneAppended ==
  ASSUME NEW C, NEW q \in Seq(C), NEW x \in C
  PROVE  /\ Append(q, x) \in Seq(C) /\ Len(Append(q, x)) = Len(q) + 1
         /\ \A k \in 1 .. Len(q) : Append(q, x)[k] = q[k]
         /\ Append(q, x)[Len(q) + 1] = x
  OBVIOUS

LEMMA Moving ==
  ASSUME IInv, pc \in {"READ", "WRITE", "flush"}
  PROVE  /\ Typed /\ Stores /\ call.drive \in Drive /\ kind[call.drive] = "ata"
         /\ Target = call.drive /\ Selected(Channel(call.drive)) = call.drive
         /\ "BSY" \in Status(d.io_base) <=> dev[call.drive].phase = "busy"
         /\ "DRQ" \in Status(d.io_base) <=> dev[call.drive].phase = "data"
<1>1. /\ Typed /\ Attached /\ Stores /\ drives[call.drive].present
      /\ sel[Channel(call.drive)] = Position(call.drive)
  BY Zenon DEF IInv, Working, Calling
<1>2. /\ call.drive \in Drive /\ kind[call.drive] = "ata" /\ Target = call.drive
      /\ d.io_base = Channel(call.drive)
  BY Zenon, <1>1, OnTarget
<1>3. Selected(Channel(call.drive)) = call.drive
  BY Zenon, <1>1, <1>2, Picked
<1> QED
  BY Zenon, <1>1, <1>2, <1>3, Shows

LEMMA ReturnStep ==
  ASSUME IInv, pc \in {"READ", "WRITE", "flush"}, NEW ok, Return(ok), ReadsRequested',
         UNCHANGED <<kind, sel, dev, disk, drives, slot, call, s, buf>>
  PROVE  IInv'
<1>0. /\ Typed /\ Stores /\ call.drive \in Drive /\ Target = call.drive
      /\ pc' = "caller" /\ call.op # "none"
      /\ abandoned' = IF dev[call.drive].phase = "idle" THEN abandoned
                      ELSE abandoned \cup {call.drive}
  BY ZenonT(30), Moving DEF Return, IInv, Working
<1>1. Typed'
  BY Zenon, <1>0 DEF Typed
<1>2. Attached' /\ Asking' /\ Working'
  BY Zenon, <1>0 DEF IInv, Attached, Asking, Working, Initialising, Calling
<1>3. Alone' /\ Stores'
  BY Zenon, <1>0 DEF IInv, Alone, Stores, Sane, Selected
<1>4. Quiet'
  BY Zenon, <1>0 DEF IInv, Quiet, Engaged
<1>5. Reading' /\ Writing' /\ Storing'
  BY Zenon, <1>0 DEF Reading, Writing, Storing
<1> QED
  BY Zenon, <1>1, <1>2, <1>3, <1>4, <1>5 DEF IInv

\* The drive of the call has moved a sector.
LEMMA MovedStep ==
  ASSUME IInv, pc \in {"READ", "WRITE"}, pc' = pc, s < call.count, s' = s + 1,
         buf' \in Seq(Content), dev' \in [Drive -> DevState], Stores',
         \A j \in Drive \ {call.drive} : dev'[j] = dev[j],
         UNCHANGED <<kind, sel, disk, drives, slot, call, abandoned>>,
         Reading', Writing', Storing'
  PROVE  IInv'
<1>1. /\ Typed /\ call.drive \in Drive
      /\ Selected(Channel(call.drive)) = call.drive
  BY Zenon, Moving
<1>2. Typed'
  <2>1. s' \in 0 .. call.count
    BY <1>1 DEF Typed
  <2> QED
    BY Zenon, <1>1, <2>1 DEF Typed
<1>3. Attached' /\ Asking' /\ Working'
  BY Zenon DEF IInv, Attached, Asking, Working, Initialising, Calling
<1>4. Alone'
  BY Zenon, <1>1 DEF IInv, Alone, Selected
<1>5. Quiet' /\ ReadsRequested'
  BY Zenon DEF IInv, Quiet, Engaged, ReadsRequested, Addressable
<1> QED
  BY Zenon, <1>2, <1>3, <1>4, <1>5 DEF IInv

LEMMA ReadSectorStep ==
  ASSUME IInv, pc = "READ", pc' = pc, s # call.count, ReadSector,
         UNCHANGED <<kind, sel, disk, drives, slot, call>>
  PROVE  IInv'
<1> DEFINE t == call.drive
           sector == IF dev[t].cmd = "READ" THEN disk[t][dev[t].lba] ELSE <<>>
<1>0. /\ Typed /\ Stores /\ t \in Drive /\ Target = t
      /\ dev[t].phase = "data"
  <2>1. "DRQ" \in Status(d.io_base)
    BY Zenon DEF ReadSector, Ready
  <2> QED
    BY Zenon, <2>1, Moving
<1>1. /\ s \in Nat /\ s < call.count /\ s' = s + 1
      /\ call.lba \in Nat /\ buf \in Seq(Content) /\ abandoned' = abandoned
  BY <1>0 DEF Typed, ReadSector
<1>2. buf' = Append(buf, sector) /\ dev' = Passed(t, <<>>)
  BY Zenon, <1>0 DEF ReadSector
<1>3. dev[t].cmd \in {"READ", "WRITE"} => dev[t].lba \in Lba
  BY Zenon, <1>0 DEF Stores, Sane
<1>4. sector \in Content
  BY <1>0, <1>3, Bytes DEF Typed
<1> HIDE DEF sector
<1>5. /\ buf' \in Seq(Content) /\ Len(buf') = Len(buf) + 1
      /\ \A i \in 1 .. Len(buf) : buf'[i] = buf[i]
      /\ buf'[Len(buf) + 1] = sector
  BY <1>1, <1>2, <1>4, OneAppended
<1>6. /\ dev' \in [Drive -> DevState] /\ Stores'
      /\ \A j \in Drive \ {t} : dev'[j] = dev[j]
      /\ \/ dev'[t] = Resting({})
         \/ /\ dev'[t].phase = "busy" /\ dev'[t].cmd = dev[t].cmd
            /\ dev'[t].lba = dev[t].lba + 1
  BY Zenon, <1>0, <1>2, <1>3, Bytes, PassedStep
<1>7. Reading'
  <2> SUFFICES ASSUME t \notin abandoned, Addressable
               PROVE  /\ Len(buf') = s'
                      /\ \A i \in 1..s' : buf'[i] = disk[t][call.lba + i - 1]
                      /\ dev'[t].phase # "idle" =>
                           dev'[t].cmd = "READ" /\ dev'[t].lba = call.lba + s'
    BY Zenon, <1>1 DEF Reading, Addressable
  <2>1. /\ Len(buf) = s
        /\ \A i \in 1..s : buf[i] = disk[t][call.lba + i - 1]
        /\ dev[t].cmd = "READ" /\ dev[t].lba = call.lba + s
    BY Zenon, <1>0 DEF IInv, Reading
  <2>2. Len(buf') = s'
    BY Zenon, <1>1, <1>5, <2>1
  <2>3. ASSUME NEW i \in 1..s' PROVE buf'[i] = disk[t][call.lba + i - 1]
    <3>1. CASE i \in 1..s
      BY Zenon, <1>5, <2>1, <3>1
    <3>2. CASE i = s + 1
      <4>1. sector = disk[t][call.lba + s]
        BY Zenon, <2>1 DEF sector
      <4>2. call.lba + i - 1 = call.lba + s
        BY <1>1, <3>2
      <4> QED
        BY Zenon, <1>5, <2>1, <3>2, <4>1, <4>2
    <3> QED
      BY <1>1, <3>1, <3>2
  <2>4. dev'[t].phase # "idle" => dev'[t].cmd = "READ" /\ dev'[t].lba = call.lba + s'
    <3>1. CASE dev'[t] = Resting({})
      <4>1. Resting({}).phase = "idle"
        BY Zenon, Rests
      <4> QED
        BY Zenon, <3>1, <4>1
    <3>2. CASE dev'[t].cmd = dev[t].cmd /\ dev'[t].lba = dev[t].lba + 1
      <4>1. (call.lba + s) + 1 = call.lba + s'
        BY <1>1
      <4> QED
        BY Zenon, <2>1, <3>2, <4>1
    <3> QED
      BY Zenon, <1>6, <3>1, <3>2
  <2> QED
    BY Zenon, <2>2, <2>3, <2>4
<1>8. Writing' /\ Storing'
  BY Zenon DEF Writing, Storing
<1> QED
  BY Zenon, <1>1, <1>5, <1>6, <1>7, <1>8, MovedStep

LEMMA ReadStep ==
  ASSUME IInv, ata_read_sectors
  PROVE  IInv'
<1>0. /\ pc = "READ" /\ UNCHANGED <<kind, sel, disk, drives, slot, call>>
  BY Zenon DEF ata_read_sectors, found
<1>1. CASE s = call.count /\ ReadDone
  <2>1. /\ Return(TRUE) /\ UNCHANGED <<dev, s, buf>>
    BY ZenonT(30), <1>1 DEF ReadDone
  <2>2. abandoned \subseteq abandoned'
    BY Zenon, <2>1 DEF Return
  <2>3. ReadsRequested'
    BY Zenon, <1>0, <1>1, <2>1, <2>2 DEF IInv, Reading, ReadsRequested, Addressable
  <2> QED
    BY ZenonT(30), <1>0, <2>1, <2>3, ReturnStep
<1>2. CASE s # call.count /\ ReadSector
  BY Zenon, <1>0, <1>2, ReadSectorStep DEF ReadSector
<1>3. CASE ReadFails
  <2>1. Return(FALSE) /\ UNCHANGED <<dev, s, buf>>
    BY ZenonT(30), <1>3 DEF ReadFails
  <2>2. ReadsRequested'
    BY Zenon, <2>1 DEF Return, ReadsRequested
  <2> QED
    BY ZenonT(30), <1>0, <2>1, <2>2, ReturnStep
<1>4. CASE PollAgain
  <2>1. UNCHANGED <<kind, sel, dev, disk, drives, slot, call, pc, s, buf, result, abandoned>>
    BY Zenon, <1>0, <1>4 DEF PollAgain
  <2>2. Typed' /\ Attached' /\ Asking' /\ Working'
    BY <2>1 DEF IInv, Typed, Attached, Asking, Working
  <2>3. Alone' /\ Quiet' /\ Stores'
    BY Zenon, <2>1 DEF IInv, Alone, Quiet, Engaged, Stores, Sane, Selected
  <2>4. Reading' /\ Writing' /\ Storing' /\ ReadsRequested'
    BY Zenon, <1>0, <2>1 DEF IInv, Reading, Writing, Storing, ReadsRequested, Addressable
  <2> QED
    BY Zenon, <2>2, <2>3, <2>4 DEF IInv
<1> QED
  BY Zenon, <1>1, <1>2, <1>3, <1>4 DEF ata_read_sectors

LEMMA WriteSectorStep ==
  ASSUME IInv, pc = "WRITE", WriteSector,
         UNCHANGED <<kind, sel, disk, drives, slot, call, buf, abandoned, failed>>
  PROVE  IInv'
<1> DEFINE t == call.drive
<1>0. /\ Typed /\ Stores /\ t \in Drive /\ Target = t /\ dev[t].phase = "data"
  <2>1. "DRQ" \in Status(d.io_base)
    BY Zenon DEF WriteSector
  <2> QED
    BY Zenon, <2>1, Moving
<1>1. /\ s \in Nat /\ s < call.count /\ s' = s + 1 /\ pc' = pc
      /\ call.lba \in Nat /\ buf \in Seq(Content)
  BY <1>0 DEF Typed, WriteSector
<1>2. dev' = IF dev[t].cmd = "WRITE" THEN Passed(t, Written(s)) ELSE dev
  BY Zenon, <1>0 DEF WriteSector
<1>3. /\ dev[t].cmd = "WRITE" => dev[t].lba \in Lba
      /\ dev[t].holds = <<>>
  BY Zenon, <1>0 DEF Stores, Sane
<1>4. Written(s) \in Content /\ Written(s) # <<>>
  BY Zenon, <1>1, Bytes
<1>5. /\ dev' \in [Drive -> DevState] /\ Stores'
      /\ \A j \in Drive \ {t} : dev'[j] = dev[j]
      /\ dev[t].cmd = "WRITE" =>
           /\ dev'[t].phase = "busy" /\ dev'[t].cmd = "WRITE"
           /\ dev'[t].lba = dev[t].lba + 1 /\ dev'[t].left = dev[t].left - 1
           /\ dev'[t].holds = Written(s)
  <2>1. CASE dev[t].cmd = "WRITE"
    <3>1. dev' = Passed(t, Written(s))
      BY Zenon, <1>2, <2>1
    <3> QED
      BY Zenon, <1>0, <1>3, <1>4, <2>1, <3>1, PassedStep
  <2>2. CASE dev[t].cmd # "WRITE"
    BY Zenon, <1>0, <1>2, <2>2 DEF Typed, Stores, Sane
  <2> QED
    BY Zenon, <2>1, <2>2
<1>6. Writing'
  <2> SUFFICES ASSUME t \notin abandoned, Addressable
               PROVE  (WriteCmd(dev[t]) /\ Holding(dev[t]) /\ Done(dev[t]))'
    BY Zenon DEF Writing, Addressable
  <2>1. WriteCmd(dev[t]) /\ Holding(dev[t]) /\ Done(dev[t])
    BY Zenon DEF IInv, Writing
  <2>2. dev[t].cmd = "WRITE" /\ dev[t].lba = call.lba + s
    BY Zenon, <1>0, <2>1 DEF WriteCmd
  <2>3. WriteCmd(dev[t])'
    BY <1>1, <1>5, <2>2 DEF WriteCmd
  <2>4. Holding(dev[t])'
    BY <1>1, <1>5, <2>2 DEF Holding
  <2>5. Done(dev[t])'
    <3>0. call.lba + s' - 1 = call.lba + s
      BY <1>1
    <3> SUFFICES ASSUME t \notin failed, NEW l \in call.lba .. call.lba + s
                 PROVE  /\ l \in Lba
                        /\ \/ disk[t][l] = Written(l - call.lba)
                           \/ dev'[t].holds # <<>> /\ l = call.lba + s
      BY Zenon, <3>0 DEF Done
    <3>1. CASE l = call.lba + s
      BY Zenon, <1>3, <1>4, <1>5, <2>2, <3>1
    <3>2. CASE l \in call.lba .. call.lba + s - 1
      BY Zenon, <1>3, <2>1, <3>2 DEF Done
    <3> QED
      BY <1>1, <3>1, <3>2
  <2> QED
    BY Zenon, <2>3, <2>4, <2>5
<1>7. Reading'
  BY Zenon, <1>1 DEF Reading
<1>8. Storing'
  <2> SUFFICES ASSUME t \notin abandoned
               PROVE  /\ dev'[t].cmd = "WRITE"
                      /\ call.count # 0 => dev'[t].left = call.count - s'
    BY Zenon DEF Storing
  <2>1. /\ dev[t].cmd = "WRITE"
        /\ call.count # 0 => dev[t].left = call.count - s
    BY Zenon, <1>0 DEF IInv, Storing
  <2>2. call.count \in Nat /\ (call.count - s) - 1 = call.count - s'
    BY <1>0, <1>1 DEF Typed
  <2> QED
    BY Zenon, <1>5, <2>1, <2>2
<1> QED
  BY Zenon, <1>1, <1>5, <1>6, <1>7, <1>8, MovedStep

LEMMA FlushStep ==
  ASSUME IInv, pc = "WRITE", Flush,
         UNCHANGED <<kind, sel, disk, drives, slot, call, buf, result, abandoned, failed>>
  PROVE  IInv'
<1> DEFINE t == call.drive
<1>0. /\ Typed /\ Stores /\ t \in Drive /\ Target = t /\ kind[t] = "ata"
      /\ Selected(Channel(t)) = t
  BY Zenon, Moving
<1>1. pc' = "flush" /\ s' = s /\ s = call.count /\ Send(t, "FLUSH", 0, 0)
  BY Zenon, <1>0 DEF Flush
<1>2. /\ dev' \in [Drive -> DevState] /\ Stores'
      /\ \A j \in Drive \ {t} : dev'[j] = dev[j]
      /\ \/ dev'[t] = dev[t] /\ dev[t].phase # "idle"
         \/ /\ dev[t].phase = "idle" /\ dev'[t].phase = "busy" /\ dev'[t].cmd = "FLUSH"
            /\ dev'[t].holds = <<>>
  <2>1. 0 \in Nat
    BY Zenon
  <2> QED
    BY Zenon, <1>0, <1>1, <2>1, SendStep
<1>3. dev[t].phase = "idle" => dev[t].holds = <<>>
  BY Zenon, <1>0 DEF Stores, Sane
<1>4. Typed'
  BY Zenon, <1>0, <1>1, <1>2 DEF Typed, Calling
<1>5. Attached' /\ Asking' /\ Working'
  BY Zenon, <1>1 DEF IInv, Attached, Asking, Working, Initialising, Calling
<1>6. Alone'
  BY Zenon, <1>0, <1>1, <1>2 DEF IInv, Alone, Selected
<1>7. Quiet' /\ ReadsRequested' /\ Reading'
  BY Zenon, <1>1, <1>2 DEF IInv, Quiet, Engaged, ReadsRequested, Reading
<1>8. Writing' /\ Storing'
  BY ZenonT(30), <1>1, <1>2, <1>3
     DEF IInv, Writing, WriteCmd, Holding, Done, Storing, Addressable
<1> QED
  BY Zenon, <1>2, <1>4, <1>5, <1>6, <1>7, <1>8 DEF IInv

LEMMA WriteStep ==
  ASSUME IInv, ata_write_sectors \/ WriteDone
  PROVE  IInv'
<1>1. CASE ata_write_sectors
  BY Zenon, <1>1, WriteSectorStep, FlushStep DEF ata_write_sectors, found, history
<1>2. CASE WriteDone
  <2>1. /\ pc = "flush" /\ Return(TRUE)
        /\ UNCHANGED <<kind, sel, dev, disk, drives, slot, call, s, buf>>
    BY ZenonT(30), <1>2 DEF WriteDone, found
  <2>2. ReadsRequested'
    BY Zenon, <2>1 DEF IInv, Working, ReadsRequested
  <2> QED
    BY ZenonT(30), <2>1, <2>2, ReturnStep
<1> QED
  BY Zenon, <1>1, <1>2
-----------------------------------------------------------------------------
(* The drives *)

\* A busy drive answers: it rests or has data, and stores what it was holding,
\* or it fails.
Stored1(i) == /\ disk'[i][dev[i].lba - 1] = dev[i].holds
              /\ \A l \in Lba \ {dev[i].lba - 1} : disk'[i][l] = disk[i][l]

LEMMA AnswerEffect ==
  ASSUME Typed, Stores, NEW i \in Drive, Answer(i)
  PROVE  /\ dev' \in [Drive -> DevState] /\ Stores' /\ dev'[i].holds = <<>>
         /\ \A j \in Drive \ {i} : dev'[j] = dev[j] /\ disk'[j] = disk[j]
         /\ \/ dev'[i].phase = "idle"
            \/ /\ dev'[i].phase = "data" /\ dev'[i].cmd = dev[i].cmd
               /\ dev'[i].lba = dev[i].lba /\ dev'[i].left = dev[i].left
         /\ disk' \in [Drive -> [Lba -> Content]]
         /\ \A j \in Drive \ {i} : j \in failed' <=> j \in failed
         /\ \/ disk' = disk /\ (i \in failed' \/ (dev[i].holds = <<>> /\ failed' = failed))
            \/ dev[i].holds # <<>> /\ Stored1(i) /\ failed' = failed
<1>0. kind' = kind /\ dev[i].phase = "busy" /\ dev[i] \in DevState /\ Sane(i, dev[i])
  BY Zenon DEF Answer, Typed, Stores
<1>1. CASE Fails(i)
  <2>1. PICK e \in {"ERR", "DF"} : dev' = [dev EXCEPT ![i] = Resting({e})]
    BY ZenonT(30), <1>1 DEF Fails
  <2>2. Resting({e}) \in DevState /\ Sane(i, Resting({e}))
        /\ Resting({e}).phase = "idle" /\ Resting({e}).holds = <<>>
    BY Zenon, Rests
  <2>3. /\ dev' \in [Drive -> DevState] /\ Stores' /\ dev'[i] = Resting({e})
        /\ \A j \in Drive \ {i} : dev'[j] = dev[j]
    BY ZenonT(30), <1>0, <2>1, <2>2, OneMoves
  <2>4. disk' = disk /\ failed' = failed \cup {i} /\ disk \in [Drive -> [Lba -> Content]]
    BY Zenon, <1>1 DEF Fails, Typed
  <2>5. dev'[i].phase = "idle" /\ dev'[i].holds = <<>>
    BY Zenon, <2>2, <2>3
  <2>6. \A j \in Drive \ {i} : dev'[j] = dev[j] /\ disk'[j] = disk[j]
    BY Zenon, <2>3, <2>4
  <2>7. i \in failed' /\ \A j \in Drive \ {i} : j \in failed' <=> j \in failed
    BY Zenon, <2>4
  <2> QED
    BY Zenon, <2>3, <2>4, <2>5, <2>6, <2>7
<1>2. CASE Succeeds(i)
  <2>1. disk' = Stored(i) /\ failed' = failed /\ kind[i] = "ata"
    BY Zenon, <1>2 DEF Succeeds
  <2>2. /\ disk' \in [Drive -> [Lba -> Content]]
        /\ \A j \in Drive \ {i} : disk'[j] = disk[j]
        /\ \/ disk' = disk /\ dev[i].holds = <<>>
           \/ dev[i].holds # <<>> /\ Stored1(i)
    <3>1. CASE dev[i].holds = <<>>
      BY Zenon, <2>1, <3>1 DEF Stored, Typed
    <3>2. CASE dev[i].holds # <<>>
      <4>1. disk' = [disk EXCEPT ![i][dev[i].lba - 1] = dev[i].holds]
        BY Zenon, <2>1, <3>2 DEF Stored
      <4>2. dev[i].lba - 1 \in Lba /\ dev[i].holds \in Content
        BY Zenon, <1>0, <3>2 DEF Sane, DevState
      <4> QED
        BY Zenon, <3>2, <4>1, <4>2 DEF Typed, Stored1
    <3> QED
      BY Zenon, <3>1, <3>2
  <2>3. CASE dev' = [dev EXCEPT ![i] = Resting({})]
    <3>1. Resting({}) \in DevState /\ Sane(i, Resting({}))
          /\ Resting({}).phase = "idle" /\ Resting({}).holds = <<>>
      BY Zenon, Rests
    <3>2. /\ dev' \in [Drive -> DevState] /\ Stores' /\ dev'[i] = Resting({})
          /\ \A j \in Drive \ {i} : dev'[j] = dev[j]
      BY ZenonT(30), <1>0, <2>3, <3>1, OneMoves
    <3> QED
      BY Zenon, <2>1, <2>2, <3>1, <3>2
  <2>4. CASE ~ (dev[i].cmd = "FLUSH" \/ dev[i].left = 0)
    <3> DEFINE v == [dev[i] EXCEPT !.phase = "data", !.holds = <<>>]
    <3>1. dev' = [dev EXCEPT ![i] = v]
      BY ZenonT(30), <1>2, <2>4 DEF Succeeds
    <3>2. v \in DevState
      BY ZenonT(30), <1>0, Bytes DEF DevState
    <3>3. /\ v.phase = "data" /\ v.holds = <<>> /\ v.cmd = dev[i].cmd
          /\ v.lba = dev[i].lba /\ v.left = dev[i].left
      BY Zenon, <1>0 DEF DevState
    <3>4. dev[i].left > 0
      BY <1>0, <2>4 DEF DevState
    <3> HIDE DEF v
    <3>5. Sane(i, v)
      BY Zenon, <1>2, <2>1, <3>3, <3>4 DEF Sane, Succeeds
    <3>6. /\ dev' \in [Drive -> DevState] /\ Stores' /\ dev'[i] = v
          /\ \A j \in Drive \ {i} : dev'[j] = dev[j]
      BY ZenonT(30), <1>0, <3>1, <3>2, <3>5, OneMoves
    <3> QED
      BY Zenon, <2>1, <2>2, <3>3, <3>6
  <2> QED
    BY ZenonT(30), <1>2, <2>3, <2>4 DEF Succeeds
<1> QED
  BY Zenon, <1>1, <1>2 DEF Answer

\* What a drive does concerns the call in progress only if it is its drive.
LEMMA AnswerStep ==
  ASSUME IInv, NEW i \in Drive, Answer(i)
  PROVE  IInv'
<1> DEFINE t == call.drive
<1>0. /\ Typed /\ Stores /\ t \in Drive /\ slot \in Drive
      /\ dev[i].phase = "busy"
      /\ UNCHANGED <<kind, sel, drives, slot, pc, call, s, buf, result, abandoned>>
  BY Zenon DEF IInv, Typed, Answer, found, local
<1>1. /\ dev' \in [Drive -> DevState] /\ Stores' /\ dev'[i].holds = <<>>
      /\ \A j \in Drive \ {i} : dev'[j] = dev[j] /\ disk'[j] = disk[j]
      /\ \/ dev'[i].phase = "idle"
         \/ /\ dev'[i].phase = "data" /\ dev'[i].cmd = dev[i].cmd
            /\ dev'[i].lba = dev[i].lba /\ dev'[i].left = dev[i].left
      /\ disk' \in [Drive -> [Lba -> Content]]
      /\ \A j \in Drive \ {i} : j \in failed' <=> j \in failed
      /\ \/ disk' = disk /\ (i \in failed' \/ (dev[i].holds = <<>> /\ failed' = failed))
         \/ dev[i].holds # <<>> /\ Stored1(i) /\ failed' = failed
  BY Zenon, <1>0, AnswerEffect
<1>2. Typed'
  BY Zenon, <1>0, <1>1 DEF Typed
<1>3. Attached' /\ Asking' /\ Working'
  <2>1. Attached' /\ Working'
    BY Zenon, <1>0 DEF IInv, Attached, Working
  <2>2. dev'[slot].phase # "idle" =>
          /\ dev[slot].phase # "idle"
          /\ dev'[slot].cmd = dev[slot].cmd /\ dev'[slot].left = dev[slot].left
    BY Zenon, <1>0, <1>1
  <2>3. Asking'
    BY Zenon, <1>0, <2>2 DEF IInv, Asking
  <2> QED
    BY Zenon, <2>1, <2>3
<1>4. Alone'
  <2>1. \A j \in Drive : dev'[j].phase = "busy" => dev[j].phase = "busy"
    BY Zenon, <1>0, <1>1
  <2>2. Selected(Channel(t)) \in Drive
    BY <1>0, Places DEF Typed, Selected
  <2> QED
    BY Zenon, <1>0, <2>1, <2>2 DEF IInv, Alone, Selected
<1>5. Quiet'
  BY Zenon, <1>0, <1>1 DEF IInv, Quiet, Engaged
<1>6. dev[i].holds # <<>> => dev[i].cmd = "WRITE"
  BY Zenon, <1>0 DEF Stores, Sane
<1>7. Reading'
  <2> SUFFICES ASSUME pc = "READ", Addressable, t \notin abandoned, Reading
               PROVE  /\ disk'[t] = disk[t]
                      /\ dev'[t].phase # "idle" =>
                           /\ dev[t].phase # "idle"
                           /\ dev'[t].cmd = dev[t].cmd /\ dev'[t].lba = dev[t].lba
    BY Zenon, <1>0 DEF IInv, Reading, Addressable
  <2>1. CASE i = t
    BY Zenon, <1>0, <1>1, <1>6, <2>1 DEF Reading
  <2>2. CASE i # t
    BY Zenon, <1>0, <1>1, <2>2
  <2> QED
    BY Zenon, <2>1, <2>2
<1>8. Writing'
  <2> SUFFICES ASSUME pc \in {"WRITE", "flush"}, Addressable, t \notin abandoned
               PROVE  (WriteCmd(dev[t]) /\ Holding(dev[t]) /\ Done(dev[t]))'
    BY Zenon, <1>0 DEF Writing, Addressable
  <2>0. WriteCmd(dev[t]) /\ Holding(dev[t]) /\ Done(dev[t])
    BY Zenon DEF IInv, Writing
  <2>1. WriteCmd(dev[t])' /\ Holding(dev[t])'
    BY Zenon, <1>0, <1>1, <2>0 DEF WriteCmd, Holding
  <2>2. CASE i # t
    BY ZenonT(30), <1>0, <1>1, <2>0, <2>1, <2>2 DEF Done
  <2>3. CASE /\ i = t /\ disk' = disk
             /\ i \in failed' \/ (dev[i].holds = <<>> /\ failed' = failed)
    BY ZenonT(30), <1>0, <1>1, <2>0, <2>1, <2>3 DEF Done
  <2>4. CASE i = t /\ dev[i].holds # <<>> /\ Stored1(i) /\ failed' = failed
    <3>1. /\ s > 0 /\ s \in Nat /\ call.lba \in Nat
          /\ dev[t].holds = Written(s - 1) /\ dev[t].lba = call.lba + s
      BY <1>0, <1>6, <2>0, <2>4 DEF Holding, WriteCmd, Typed
    <3>2. dev[t].lba - 1 = call.lba + s - 1 /\ (call.lba + s - 1) - call.lba = s - 1
      BY <3>1
    <3>3. ASSUME t \notin failed, NEW l \in call.lba .. call.lba + s - 1
          PROVE  l \in Lba /\ disk'[t][l] = Written(l - call.lba)
      <4>1. l \in Lba
        BY Zenon, <2>0, <3>3 DEF Done
      <4>2. CASE l = call.lba + s - 1
        BY Zenon, <2>4, <3>1, <3>2, <4>1, <4>2 DEF Stored1
      <4>3. CASE l # call.lba + s - 1
        BY Zenon, <2>0, <2>4, <3>2, <3>3, <4>1, <4>3 DEF Stored1, Done
      <4> QED
        BY Zenon, <4>2, <4>3
    <3>4. Done(dev[t])'
      BY Zenon, <1>0, <2>4, <3>3 DEF Done
    <3> QED
      BY Zenon, <2>1, <3>4
  <2> QED
    BY Zenon, <1>1, <2>2, <2>3, <2>4
<1>9. Storing'
  <2>1. dev'[t].phase # "idle" =>
          /\ dev[t].phase # "idle"
          /\ dev'[t].cmd = dev[t].cmd /\ dev'[t].left = dev[t].left
    BY Zenon, <1>0, <1>1
  <2> QED
    BY Zenon, <1>0, <2>1 DEF IInv, Storing
<1>10. ReadsRequested'
  <2>1. pc = "caller" /\ t \notin abandoned => t # i
    BY Zenon, <1>0 DEF IInv, Quiet, Engaged
  <2>2. t # i => disk'[t] = disk[t]
    BY Zenon, <1>0, <1>1
  <2> QED
    BY Zenon, <1>0, <2>1, <2>2 DEF IInv, ReadsRequested, Addressable
<1> QED
  BY Zenon, <1>1, <1>2, <1>3, <1>4, <1>5, <1>7, <1>8, <1>9, <1>10 DEF IInv
-----------------------------------------------------------------------------
LEMMA StutterStep ==
  ASSUME IInv, UNCHANGED vars
  PROVE  IInv'
<1>1. UNCHANGED <<kind, sel, dev, disk, drives, slot, pc, call, s, buf, result, abandoned,
                  failed>>
  BY Zenon DEF vars, found, local, history
<1>2. Typed' /\ Attached' /\ Asking' /\ Working'
  BY <1>1 DEF IInv, Typed, Attached, Asking, Working
<1>3. Alone' /\ Quiet' /\ Stores'
  BY ZenonT(30), <1>1 DEF IInv, Alone, Quiet, Engaged, Stores, Sane, Selected
<1>4. Reading' /\ Storing'
  BY ZenonT(30), <1>1 DEF IInv, Reading, Storing, Addressable
<1>5. ReadsRequested'
  BY ZenonT(30), <1>1 DEF IInv, ReadsRequested, Addressable
<1>6. Writing'
  BY ZenonT(30), <1>1 DEF IInv, Writing, WriteCmd, Holding, Done, Addressable
<1> QED
  BY Zenon, <1>2, <1>3, <1>4, <1>5, <1>6 DEF IInv

LEMMA StepInv == IInv /\ [Next]_vars => IInv'
<1> SUFFICES ASSUME IInv, [Next]_vars PROVE IInv'
  BY Zenon
<1>1. CASE ata_init
  BY Zenon, <1>1, IdentifyStep, NotFoundStep, GoOnStep, FoundStep DEF ata_init
<1>2. ASSUME NEW c \in Calls, Call(c) PROVE IInv'
  BY Zenon, <1>2, CallStep
<1>3. CASE Transfer
  BY Zenon, <1>3, WaitBsyStep, CommandStep, ReadStep, WriteStep DEF Transfer
<1>4. CASE PollOn \/ UNCHANGED vars
  BY Zenon, <1>4, StutterStep DEF PollOn
<1>5. ASSUME NEW i \in Drive, Answer(i) PROVE IInv'
  BY Zenon, <1>5, AnswerStep
<1> QED
  BY Zenon, <1>1, <1>2, <1>3, <1>4, <1>5 DEF Next

LEMMA Invariant == Spec => []IInv
  BY StartInv, StepInv, PTL DEF Spec

(* ata_read_sectors returns true only with the sectors asked for: for any  *)
(* number of sectors, with a timeout of any length, on any of four drives, *)
(* if lba fits the 28 bits that are sent to the drive, after any history   *)
(* of calls that has left the drive no transfer pending.                   *)
THEOREM ReadsWhatIsAsked == Spec => []ReadsRequested
<1>1. IInv => ReadsRequested
  BY Zenon DEF IInv
<1> QED
  BY <1>1, Invariant, PTL

(* IDENTIFY, READ and WRITE find the drive free although ata_wait_bsy      *)
(* polls the drive selected last and not the one the command is for, since *)
(* only the drive selected last is ever busy.  The FLUSH of a write, sent  *)
(* without a poll, finds it free or storing the last sector of the call,   *)
(* if count is not 0 and no transfer of the drive was left pending.        *)
THEOREM CommandsFindDriveFree == Spec => []SelectedAlone
<1>1. IInv => SelectedAlone
  <2> SUFFICES ASSUME IInv PROVE SelectedAlone
    BY Zenon
  <2>1. ASSUME pc = "command" PROVE dev[Target].phase # "busy"
    <3>1. Typed /\ Attached /\ drives[call.drive].present
      BY Zenon, <2>1 DEF IInv, Working, Calling
    <3>2. call.drive \in Drive /\ Target = call.drive
      BY Zenon, <3>1, OnTarget
    <3> QED
      BY Zenon, <2>1, <3>2 DEF IInv, Alone
  <2>2. ASSUME pc = "identify" PROVE dev[slot].phase # "busy"
    BY Zenon, <2>2 DEF IInv, Typed, Asking, Quiet, Engaged, Initialising
  <2>3. ASSUME pc = "WRITE", s = call.count, call.count # 0, Target \notin abandoned,
               dev[Target].phase = "busy"
        PROVE  dev[Target].cmd = "WRITE" /\ dev[Target].left = 0
    <3>1. Target = call.drive /\ Typed
      BY Zenon, <2>3, Moving
    <3>2. call.count - s = 0
      BY <2>3, <3>1 DEF Typed
    <3> QED
      BY Zenon, <2>3, <3>1, <3>2 DEF IInv, Storing
  <2> QED
    BY Zenon, <2>1, <2>2, <2>3 DEF IInv, Alone, SelectedAlone
<1> QED
  BY <1>1, Invariant, PTL

LEMMA ReturnsWrittenStep ==
  ASSUME IInv, Next, pc = "flush", pc' = "caller", Addressable,
         call.drive \notin abandoned' \cup failed
  PROVE  \A l \in Sectors : disk[call.drive][l] = Written(l - call.lba)
<1>1. WriteDone
  <2>1. ~ ata_init /\ ~ PollOn
    BY Zenon DEF ata_init, Identify, NotFound, GoOn, Found, PollOn, vars
  <2>2. \A c \in Calls : ~ Call(c)
    BY Zenon DEF Call
  <2>3. \A i \in Drive : ~ Answer(i)
    BY Zenon DEF Answer
  <2>4. ~ WaitBsy /\ ~ Command /\ ~ ata_read_sectors /\ ~ ata_write_sectors
    BY Zenon DEF WaitBsy, Command, ata_read_sectors, ata_write_sectors
  <2> QED
    BY Zenon, <2>1, <2>2, <2>3, <2>4 DEF Next, Transfer
<1>2. /\ Stores /\ call.drive \in Drive /\ Target = call.drive
  BY Zenon, Moving
<1>3. dev[call.drive].phase = "idle" /\ call.drive \notin abandoned
  BY Zenon, <1>1, <1>2 DEF WriteDone, Return
<1>4. dev[call.drive].holds = <<>>
  BY Zenon, <1>2, <1>3 DEF Stores, Sane
<1>5. Done(dev[call.drive]) /\ s = call.count
  BY Zenon, <1>3 DEF IInv, Writing, Working
<1> QED
  BY Zenon, <1>4, <1>5 DEF Done, Sectors

LEMMA ChangesRequestedStep ==
  ASSUME IInv, Next, NEW i \in Drive, NEW l \in Lba,
         disk'[i][l] # disk[i][l], Addressable, i \notin abandoned
  PROVE  /\ call.op = "WRITE" /\ i = call.drive /\ l \in Sectors
         /\ disk'[i][l] = Written(l - call.lba)
<1>1. PICK j \in Drive : Answer(j)
  <2>1. ~ ata_init /\ ~ PollOn
    BY Zenon DEF ata_init, Identify, NotFound, GoOn, Found, PollOn, vars
  <2>2. \A c \in Calls : ~ Call(c)
    BY Zenon DEF Call
  <2>3. ~ Transfer
    BY ZenonT(30) DEF Transfer, WaitBsy, Command, ata_read_sectors, ata_write_sectors, WriteDone
  <2> QED
    BY Zenon, <2>1, <2>2, <2>3 DEF Next
<1>2. Typed /\ Stores /\ dev[j].phase = "busy"
  BY Zenon, <1>1 DEF IInv, Answer
<1>3. /\ \A k \in Drive \ {j} : disk'[k] = disk[k]
      /\ disk' = disk \/ (dev[j].holds # <<>> /\ Stored1(j))
  BY Zenon, <1>1, <1>2, AnswerEffect
<1>4. /\ i = j /\ dev[i].holds # <<>>
      /\ l = dev[i].lba - 1 /\ disk'[i][l] = dev[i].holds
  BY <1>3 DEF Stored1
<1>5. dev[i].cmd = "WRITE"
  BY Zenon, <1>2, <1>4 DEF Stores, Sane
<1>6. i \in Engaged
  BY Zenon, <1>2, <1>4 DEF IInv, Quiet
<1>7. pc \in {"WRITE", "flush"} /\ i = call.drive
  BY Zenon, <1>2, <1>4, <1>5, <1>6 DEF IInv, Engaged, Asking, Reading
<1>8. WriteCmd(dev[i]) /\ Holding(dev[i]) /\ call.op = "WRITE"
  BY Zenon, <1>7 DEF IInv, Writing, Working
<1>9. /\ dev[i].lba = call.lba + s /\ dev[i].holds = Written(s - 1) /\ s > 0
      /\ s \in 0 .. call.count /\ call.lba \in Nat /\ call.count \in Nat
  BY Zenon, <1>2, <1>4, <1>5, <1>8 DEF WriteCmd, Holding, Typed
<1>10. l = call.lba + s - 1 /\ l - call.lba = s - 1 /\ l \in Sectors
  <2>1. l = call.lba + s - 1
    BY <1>4, <1>9
  <2>2. /\ (call.lba + s - 1) - call.lba = s - 1
        /\ call.lba + s - 1 \in call.lba .. call.lba + call.count - 1
    BY <1>9
  <2> QED
    BY Zenon, <2>1, <2>2 DEF Sectors
<1> QED
  BY Zenon, <1>4, <1>7, <1>8, <1>9, <1>10

(* When ata_write_sectors returns and the drive reported no error, the     *)
(* sectors asked for hold the buffer, and no step of the driver or of a    *)
(* drive changes any other sector, for any calls, drives and delays, if    *)
(* lba fits 28 bits and no earlier call has left a transfer of the drive   *)
(* unfinished.                                                             *)
THEOREM WritesWhatIsAsked == Spec => WritesRequested
<1>1. IInv /\ [Next]_vars => [ReturnsWritten /\ ChangesRequested]_vars
  BY Zenon, ReturnsWrittenStep, ChangesRequestedStep DEF ReturnsWritten, ChangesRequested
<1> QED
  BY <1>1, Invariant, PTL DEF Spec, WritesRequested
=============================================================================
