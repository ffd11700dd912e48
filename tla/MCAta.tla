------------------------------- MODULE MCAta -------------------------------
EXTENDS Ata

Plugged(a) == [i \in Drive |-> a[i + 1]]
Asked(op, drive, lba, count) == [op |-> op, drive |-> drive, lba |-> lba, count |-> count]

\* Two drives on one channel; a packet device before a drive; a channel that
\* nothing is connected to.
MCAttachments == {Plugged(<<"ata", "ata", "none", "none">>),
                  Plugged(<<"atapi", "ata", "none", "ata">>),
                  Plugged(<<"ata", "none", "floating", "floating">>)}

\* Reads and writes of one and two sectors of two drives, transfers of
\* none, a read beyond the end, one of a drive that may be absent, and transfers
\* whose lba the registers cannot hold.
MCCalls == {Asked("READ", 0, 0, 2), Asked("READ", 0, 1, 1), Asked("READ", 0, 0, 0),
            Asked("READ", 1, 0, 1), Asked("READ", 1, 1, 2), Asked("READ", 3, 0, 1),
            Asked("WRITE", 1, 0, 2), Asked("WRITE", 1, 1, 1), Asked("WRITE", 1, 0, 0),
            Asked("READ", 0, 5, 1), Asked("WRITE", 1, 4, 1)}
=============================================================================
