------------------------------- MODULE Fat32 --------------------------------
(***************************************************************************)
(* src/fat32.c behind src/vfs.c: mounting, looking a name up, listing a    *)
(* directory and reading a file, cluster by cluster.  Any disk read may    *)
(* fail.  A cluster holds cluster_size bytes or directory entries; a byte  *)
(* is the pair of its cluster and its place in it.  Where the code does    *)
(* not look at what kmalloc returns, kmalloc succeeds.                     *)
(***************************************************************************)
EXTENDS Integers, Sequences, FiniteSets

CONSTANTS cluster_size,   \* bytes of a cluster
          dir_entries_per_cluster,
          LAST,           \* the last cluster of the volume
          Volumes,        \* [fat, entries]: the FAT, and the directory clusters
          root_cluster,
          Names,          \* names looked up, sequences of characters
          MAX_INDEX,      \* bound on the index of readdir
          MAX_OFFSET, MAX_SIZE   \* bounds on the arguments of read

EOC == LAST + 1                \* 0x0FFFFFF8 and above
END == 0                       \* name[0] after the last entry
DELETED == 229                 \* name[0] of a deleted entry
LONG_NAME == {"read_only", "hidden", "system", "volume_id"}   \* ATTR_LONG_NAME
SPACE == 32
DOT == 46

DirEntry == [name : Seq(Nat), attr : SUBSET (LONG_NAME \cup {"directory"}),
             first : {0} \cup 2..LAST, file_size : Nat]

ASSUME Fat32Assumption ==
  /\ cluster_size \in Nat \ {0} /\ dir_entries_per_cluster \in Nat \ {0}
  /\ LAST \in Nat /\ root_cluster \in 2..LAST
  /\ MAX_INDEX \in Nat /\ MAX_OFFSET \in Nat /\ MAX_SIZE \in Nat
  /\ \A v \in Volumes :
       /\ v.fat \in [0..LAST -> {0} \cup 2..EOC]
       /\ root_cluster \in DOMAIN v.entries
       /\ \A c \in DOMAIN v.entries :
            /\ c \in 2..LAST /\ v.fat[c] \in DOMAIN v.entries \cup {EOC}
            /\ v.entries[c] \in [1..dir_entries_per_cluster -> DirEntry]

VARIABLES vol,            \* the volume in the drive
          fs_root,        \* the root node, or NoNode
          node,           \* the node vfs_finddir returned last, or NoNode
          doing,          \* where the call is
          call,           \* the call being served: [op, name, index, offset, size]
          cluster, offset, size,
          entry,          \* i: the entry of the cluster that is looked at next
          current_index,
          walked,         \* history: clusters of the directory before this one
          out,            \* the bytes copied to the caller's buffer
          result,         \* the entry found or listed, or NoEntry
          buffers,        \* cluster buffers taken from the heap
          failed          \* a disk read of this call failed, or its buffer

args == <<cluster, offset, size, entry, current_index, walked>>
fat_vars == <<vol, fs_root, node, doing, call, args, out, result, buffers, failed>>

NoNode == [kind |-> "none", inode |-> 0, length |-> 0]
NoEntry == [name |-> <<END>>, attr |-> {}, first |-> 0, file_size |-> 0]
NoCall == [op |-> "none", name |-> <<>>, index |-> 0, offset |-> 0, size |-> 0]

\* The entry of cluster 0, which an empty file starts at, ends the chain.
get_next_cluster(c, ok) == IF ok THEN vol.fat[c] ELSE EOC

Byte(c, k) == <<c, k>>
-----------------------------------------------------------------------------
FatInit == /\ vol \in Volumes
           /\ fs_root = NoNode /\ node = NoNode
           /\ doing = "boot"
           /\ call = NoCall
           /\ cluster = 0 /\ offset = 0 /\ size = 0
           /\ entry = 0 /\ current_index = 0 /\ walked = 0
           /\ out = <<>> /\ result = NoEntry
           /\ buffers = 0 /\ failed = FALSE

\* A boot sector that cannot be read, or is not one of FAT32, mounts nothing.
fat32_init ==
  /\ doing = "boot"
  /\ doing' = "idle"
  /\ fs_root' \in {NoNode, [kind |-> "dir", inode |-> root_cluster, length |-> 0]}
  /\ UNCHANGED <<vol, node, call, args, out, result, buffers, failed>>

Start(request, next, inode, taken) ==
  /\ doing' = next
  /\ call' = request
  /\ cluster' = inode /\ offset' = request.offset /\ size' = request.size
  /\ entry' = 0 /\ current_index' = 0 /\ walked' = 0
  /\ out' = <<>> /\ result' = NoEntry
  /\ buffers' = buffers + taken
  /\ UNCHANGED <<vol, fs_root, node>>

\* A callback that was never stored is whatever kmalloc's memory held, and
\* the callbacks of a NULL node are whatever lies at address 0: vfs.c
\* returns 0 if it finds 0 there, and jumps to it if not.
Unset == /\ doing' \in {"idle", "wild"}
         /\ call' = NoCall /\ out' = <<>> /\ result' = NoEntry
         /\ UNCHANGED <<vol, fs_root, node, args, buffers, failed>>

\* readdir is the only one that checks the buffer it gets from the heap.
vfs_readdir(index) ==
  /\ doing = "idle"
  /\ IF fs_root.kind = "dir"
     THEN LET request == [NoCall EXCEPT !.op = "readdir", !.index = index]
          IN \/ Start(request, "scan", fs_root.inode, 1) /\ failed' = FALSE
             \/ Start(request, "idle", fs_root.inode, 0) /\ failed' = TRUE
     ELSE Unset

vfs_finddir(name) ==
  /\ doing = "idle"
  /\ IF fs_root.kind = "dir"
     THEN /\ Start([NoCall EXCEPT !.op = "finddir", !.name = name], "scan", fs_root.inode, 1)
          /\ failed' = FALSE
     ELSE Unset

vfs_read(from, n) ==
  /\ doing = "idle" /\ node # NoNode
  /\ IF node.kind = "file"
     THEN /\ Start([NoCall EXCEPT !.op = "read", !.offset = from, !.size = n],
                   "skip", node.inode, 0)
          /\ failed' = FALSE
     ELSE Unset

Done(freed) == /\ doing' = "idle"
               /\ buffers' = buffers - freed
               /\ UNCHANGED <<vol, fs_root, call, args, out>>
-----------------------------------------------------------------------------
(* fat32_readdir and fat32_finddir *)

Skipped(e) == e.name[1] = DELETED \/ e.attr \cap LONG_NAME # {}

\* "NAME    EXT" becomes NAME.EXT, eight characters and three in the code.
NameOf(e) ==
  LET used(s) == SelectSeq(s, LAMBDA ch : ch # SPACE)
      base == SubSeq(e.name, 1, Len(e.name) - 1)
      ext == SubSeq(e.name, Len(e.name), Len(e.name))
  IN used(base) \o (IF ext[1] = SPACE THEN <<>> ELSE <<DOT>> \o used(ext))

IsEnd(e) == e.name[1] = END

Nodes(e) == [kind |-> IF "directory" \in e.attr THEN "dir" ELSE "file",
             inode |-> e.first, length |-> e.file_size]

Give(e) == /\ result' = e
           /\ node' = IF call.op = "finddir" THEN Nodes(e) ELSE node
           /\ Done(1)
           /\ UNCHANGED failed

GiveNothing == /\ result' = NoEntry
               /\ node' = IF call.op = "finddir" THEN NoNode ELSE node
               /\ Done(1)

\* readdir frees its buffer here and once more after the loop; kfree
\* ignores the second call.
ScanFails_Leak == /\ failed' = TRUE /\ result' = NoEntry /\ UNCHANGED node
                  /\ Done(0)
ScanFails == failed' = TRUE /\ GiveNothing

Wanted_OneBased(e) == IF call.op = "finddir" THEN NameOf(e) = call.name
                      ELSE current_index + 1 = call.index
Wanted(e) == IF call.op = "finddir" THEN NameOf(e) = call.name
             ELSE current_index = call.index

\* Only readdir counts the entries it has seen.
Counted == IF call.op = "readdir" THEN current_index + 1 ELSE current_index

\* The loop goes on with the entry after this one.
Following_Kept(index) == IF index = current_index THEN entry ELSE entry + 1
Following(index) == entry + 1

GoOn(index) ==
  /\ entry' = Following(index)
  /\ current_index' = index
  /\ UNCHANGED <<vol, fs_root, node, doing, call, cluster, offset, size, walked, out,
                 result, buffers, failed>>

\* One cluster of the directory is read.
Scan ==
  /\ doing = "scan"
  /\ \/ cluster >= EOC /\ GiveNothing /\ UNCHANGED failed
     \/ cluster < EOC /\ ScanFails
     \/ /\ cluster < EOC
        /\ doing' = "entries"
        /\ UNCHANGED <<vol, fs_root, node, call, args, out, result, buffers, failed>>

\* One entry of it is looked at.
ScanEntry ==
  /\ doing = "entries" /\ entry < dir_entries_per_cluster
  /\ LET e == vol.entries[cluster][entry + 1]
     IN \/ IsEnd(e) /\ GiveNothing /\ UNCHANGED failed
        \/ ~ IsEnd(e) /\ Skipped(e) /\ GoOn(current_index)
        \/ ~ IsEnd(e) /\ ~ Skipped(e) /\ Wanted(e) /\ Give(e)
        \/ ~ IsEnd(e) /\ ~ Skipped(e) /\ ~ Wanted(e) /\ GoOn(Counted)

ScanNext ==
  /\ doing = "entries" /\ entry = dir_entries_per_cluster
  /\ doing' = "scan"
  /\ \E ok \in BOOLEAN : cluster' = get_next_cluster(cluster, ok) /\ failed' = (failed \/ ~ ok)
  /\ entry' = 0 /\ walked' = walked + 1
  /\ UNCHANGED <<vol, fs_root, node, call, offset, size, current_index, out, result, buffers>>
-----------------------------------------------------------------------------
(* fat32_read *)

\* Skip clusters to reach the offset; nothing is allocated yet.
Skip ==
  /\ doing = "skip" /\ offset >= cluster_size
  /\ \E ok \in BOOLEAN :
       LET next == get_next_cluster(cluster, ok)
       IN /\ failed' = (failed \/ ~ ok)
          /\ IF next >= EOC
             THEN Done(0)
             ELSE /\ cluster' = next
                  /\ offset' = offset - cluster_size
                  /\ UNCHANGED <<vol, fs_root, doing, call, size, entry, current_index, walked, out, buffers>>
  /\ UNCHANGED <<node, result>>

Allocate ==
  /\ doing = "skip" /\ offset < cluster_size
  /\ doing' = "copy"
  /\ buffers' = buffers + 1
  /\ UNCHANGED <<vol, fs_root, node, call, args, out, result, failed>>

chunk_size == IF cluster_size - offset > size THEN size ELSE cluster_size - offset
Chunk == [k \in 1..chunk_size |-> Byte(cluster, offset + k)]

OffsetNext_Kept == offset
OffsetNext == 0

\* The chunk that completes the request needs no other cluster.
CopyNext ==
  IF size - chunk_size > 0
  THEN \E ok \in BOOLEAN :
         LET next == get_next_cluster(cluster, ok)
         IN /\ cluster' = next
            /\ failed' = (failed \/ ~ ok)
            /\ IF next >= EOC
               THEN doing' = "idle" /\ buffers' = buffers - 1
               ELSE UNCHANGED <<doing, buffers>>
  ELSE UNCHANGED <<cluster, failed, doing, buffers>>

Copy ==
  /\ doing = "copy" /\ size > 0
  /\ \/ failed' = TRUE /\ Done(1)       \* read_cluster fails
     \/ /\ out' = out \o Chunk
        /\ size' = size - chunk_size
        /\ offset' = OffsetNext
        /\ CopyNext
        /\ UNCHANGED <<vol, fs_root, call, entry, current_index, walked>>
  /\ UNCHANGED <<node, result>>

CopyEnds == /\ doing = "copy" /\ size = 0
            /\ Done(1)
            /\ UNCHANGED <<node, result, failed>>

Step == Scan \/ ScanEntry \/ ScanNext \/ Skip \/ Allocate \/ Copy \/ CopyEnds

FatNext == \/ fat32_init
           \/ \E index \in 0..MAX_INDEX : vfs_readdir(index)
           \/ \E name \in Names : vfs_finddir(name)
           \/ \E from \in 0..MAX_OFFSET, n \in 0..MAX_SIZE : vfs_read(from, n)
           \/ Step

FatSpec == FatInit /\ [][FatNext]_fat_vars /\ WF_fat_vars(Step)
-----------------------------------------------------------------------------
\* The n-th cluster of a chain, counted from 0; EOC after its end.
NthCluster(fat, first, n) ==
  LET at[k \in 0..n] == IF k = 0 THEN first
                        ELSE IF at[k - 1] >= EOC THEN EOC ELSE fat[at[k - 1]]
  IN at[n]
ClusterAt(first, n) == NthCluster(vol.fat, first, n)
ClusterOf(first, p) == ClusterAt(first, p \div cluster_size)
FileByte(first, p) == Byte(ClusterOf(first, p), (p % cluster_size) + 1)

Returned(op) == doing = "idle" /\ call.op = op

(* A read delivers consecutive bytes of the file's chain, the first of     *)
(* them at the offset asked for, across cluster boundaries, and never more *)
(* than asked for.  If no disk read failed, a short count means that the   *)
(* chain ends where the read did.                                          *)
ReadsChainBytes ==
  Returned("read") /\ node.inode >= 2 =>
    /\ Len(out) <= call.size
    /\ \A k \in DOMAIN out : LET p == call.offset + k - 1
                            IN ClusterOf(node.inode, p) < EOC /\ out[k] = FileByte(node.inode, p)
    /\ ~ failed /\ Len(out) < call.size => ClusterOf(node.inode, call.offset + Len(out)) >= EOC

\* The directory as one list of entries, counted from 0 over all clusters,
\* and the place in it where the walk is or has stopped.
EntryAt(p) == vol.entries[ClusterAt(root_cluster, p \div dir_entries_per_cluster)]
                         [(p % dir_entries_per_cluster) + 1]
Place == walked * dir_entries_per_cluster + entry
(* What a FAT directory shows: an entry that is neither deleted nor a      *)
(* piece of a long name, which has all four bits of ATTR_LONG_NAME.        *)
Visible(e) == e.name[1] # DELETED /\ ~ LONG_NAME \subseteq e.attr
Listed == {p \in 0 .. Place - 1 : Visible(EntryAt(p))}
Exhausted == ClusterAt(root_cluster, walked) >= EOC \/ IsEnd(EntryAt(Place))
Found == ~ Exhausted /\ Visible(EntryAt(Place)) /\ result = EntryAt(Place)

ReaddirLists == \/ Cardinality(Listed) = call.index /\ Found
                \/ Cardinality(Listed) <= call.index /\ Exhausted /\ result = NoEntry
FinddirFinds == /\ \A p \in Listed : NameOf(EntryAt(p)) # call.name
                /\ \/ Found /\ NameOf(result) = call.name
                   \/ Exhausted /\ result = NoEntry

(* Only long names are passed over, as the comment "Skip LFN for now" at   *)
(* fat32.c:141 says.  Listing index after index shows every visible entry  *)
(* once, in the order of the directory and counting across clusters, and   *)
(* then nothing; looking up a name finds the first visible entry under it, *)
(* or nothing if none is.  After a disk error they show nothing or the     *)
(* right entry.  The code passes over an entry with any of the four bits,  *)
(* so a read-only, hidden or system file is neither listed nor found.      *)
SkipsOnlyLongNames ==
  /\ Returned("readdir") => (failed /\ result = NoEntry) \/ ReaddirLists
  /\ Returned("finddir") => (failed /\ result = NoEntry) \/ FinddirFinds
  /\ Returned("readdir") \/ Returned("finddir") =>
       \A p \in 0 .. Place - 1 : ~ IsEnd(EntryAt(p))

AllOrNone(e) == e.attr \cap LONG_NAME \in {{}, LONG_NAME}
Unmarked == /\ \A p \in 0 .. Place - 1 : AllOrNone(EntryAt(p))
            /\ ~ Exhausted => AllOrNone(EntryAt(Place))

(* The two copies of the directory walk in fat32.c agree, and show what a  *)
(* FAT directory shows, if none of the entries they looked at is a         *)
(* read-only, hidden or system file or the label of the volume.            *)
WalksAgree == doing = "idle" /\ Unmarked => SkipsOnlyLongNames

(* Every way out of readdir, finddir and read gives the cluster buffer     *)
(* back, the error paths and the early return of read included.            *)
BuffersReleased == doing = "idle" => buffers = 0

(* On a volume without cycles every call returns.                          *)
CallReturns == (doing \in {"scan", "entries", "skip", "copy"}) ~> (doing = "idle")
=============================================================================
