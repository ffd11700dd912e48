---------------------------- MODULE Fat32_proofs ----------------------------
(***************************************************************************)
(* Proofs about module Fat32, for volumes, directories and clusters of any *)
(* size, chains with cycles included, and any arguments of the calls.      *)
(***************************************************************************)
EXTENDS Fat32, FiniteSetTheorems, TLAPS

LEMMA Division ==
  ASSUME NEW n \in Nat, NEW d \in Nat \ {0}
  PROVE  /\ n \div d \in Nat /\ n % d \in 0 .. d - 1
         /\ n = (n \div d) * d + (n % d)
<1>1. n \div d \in Nat
  OBVIOUS
<1>2. n % d \in 0 .. d - 1
  OBVIOUS
<1>3. n = (n \div d) * d + (n % d)
  OBVIOUS
<1> QED
  BY Zenon, <1>1, <1>2, <1>3

\* Rows of d: the row of a, and the rows before it.
LEMMA Rows ==
  ASSUME NEW q \in Nat, NEW p \in Nat, NEW d \in Nat \ {0}
  PROVE  q < p => q * d + d <= p * d
<1>1. ASSUME q < p PROVE q * d + d <= p * d
  <2>1. (q + 1) * d <= p * d
    BY <1>1
  <2>2. (q + 1) * d = q * d + d
    OBVIOUS
  <2> QED
    BY Zenon, <2>1, <2>2
<1> QED
  BY Zenon, <1>1

\* The page and the place in it determine the address.
LEMMA OneRow ==
  ASSUME NEW v \in Nat, NEW d \in Nat \ {0}, NEW k \in 0 .. d - 1,
         NEW q \in Nat, NEW r \in 0 .. d - 1, v * d + k = q * d + r
  PROVE  v = q /\ k = r
<1>1. v * d \in Nat /\ q * d \in Nat
  OBVIOUS
<1>2. ~ (v < q)
  BY <1>1, Rows
<1>3. ~ (q < v)
  BY <1>1, Rows
<1>4. v = q
  BY <1>2, <1>3
<1> QED
  BY <1>1, <1>4
-----------------------------------------------------------------------------
(* Chains of clusters *)

LEMMA Induct ==
  ASSUME NEW S, 0 \in S, \A n \in Nat : n \in S => n + 1 \in S
  PROVE  Nat \subseteq S
<1> DEFINE T == Nat \ S
           R == {nn \in Nat \X Nat : nn[1] < nn[2]}
<1> SUFFICES ASSUME T # {} PROVE FALSE
  BY Zenon
<1>1. IsWellFoundedOn(R, Nat)
  BY Zenon, NatLessThanWellFounded DEF OpToRel
<1> HIDE DEF R
<1>2. PICK b \in T : \A c \in T : ~ (<<c, b>> \in R)
  BY Zenon, <1>1, WFMin
<1>3. b # 0 /\ b - 1 \in Nat /\ <<b - 1, b>> \in R
  BY DEF R
<1>4. b - 1 \in S
  BY Zenon, <1>2, <1>3
<1> QED
  BY <1>3, <1>4

After(fat, c) == IF c >= EOC THEN EOC ELSE fat[c]
Follows(f, fat, first, n) ==
  f = [k \in 0..n |-> IF k = 0 THEN first ELSE After(fat, f[k - 1])]
Steps(f, fat, first, n) ==
  f[0] = first /\ \A k \in 0..n : k # 0 => f[k] = After(fat, f[k - 1])

LEMMA FollowsSteps ==
  ASSUME NEW f, NEW fat, NEW first, NEW n \in Nat, Follows(f, fat, first, n)
  PROVE  Steps(f, fat, first, n)
<1>1. 0 \in 0..n
  OBVIOUS
<1>2. \A k \in 0..n : f[k] = IF k = 0 THEN first ELSE After(fat, f[k - 1])
  BY Zenon DEF Follows
<1> QED
  BY Zenon, <1>1, <1>2 DEF Steps

LEMMA ChainExists ==
  ASSUME NEW fat, NEW first, NEW n \in Nat
  PROVE  \E f : Follows(f, fat, first, n)
<1> DEFINE S == {m \in Nat : \E f : Follows(f, fat, first, m)}
<1>1. 0 \in S
  <2> DEFINE f0 == [k \in 0..0 |-> first]
  <2>1. \A k \in 0..0 : k = 0
    OBVIOUS
  <2>2. f0 = [k \in 0..0 |-> IF k = 0 THEN first ELSE After(fat, f0[k - 1])]
    BY Zenon, <2>1
  <2> QED
    BY Zenon, <2>2 DEF Follows
<1>2. ASSUME NEW m \in Nat, m \in S PROVE m + 1 \in S
  <2>1. PICK f : Follows(f, fat, first, m)
    BY Zenon, <1>2
  <2>2. Steps(f, fat, first, m)
    BY Zenon, <2>1, FollowsSteps
  <2> DEFINE h == [k \in 0..m + 1 |-> IF k = m + 1 THEN After(fat, f[m]) ELSE f[k]]
  <2>3. ASSUME NEW k \in 0..m + 1
        PROVE  h[k] = IF k = 0 THEN first ELSE After(fat, h[k - 1])
    <3>1. CASE k = 0
      <4>1. 0 \in 0..m + 1 /\ 0 # m + 1
        OBVIOUS
      <4> QED
        BY Zenon, <2>2, <3>1, <4>1 DEF Steps
    <3>2. CASE k # 0 /\ k # m + 1
      <4>1. k \in 0..m /\ k - 1 \in 0..m + 1 /\ k - 1 # m + 1
        BY <3>2
      <4>2. h[k] = f[k] /\ h[k - 1] = f[k - 1]
        BY Zenon, <3>2, <4>1
      <4> QED
        BY Zenon, <2>2, <3>2, <4>1, <4>2 DEF Steps
    <3>3. CASE k = m + 1
      <4>1. k - 1 = m /\ m \in 0..m + 1 /\ m # m + 1 /\ k # 0
        BY <3>3
      <4> QED
        BY Zenon, <3>3, <4>1
    <3> QED
      BY Zenon, <3>1, <3>2, <3>3
  <2>4. h = [k \in 0..m + 1 |-> h[k]]
    BY Zenon
  <2> HIDE DEF h
  <2>5. h = [k \in 0..m + 1 |-> IF k = 0 THEN first ELSE After(fat, h[k - 1])]
    BY Zenon, <2>3, <2>4
  <2>6. Follows(h, fat, first, m + 1)
    BY Zenon, <2>5 DEF Follows
  <2> QED
    BY <2>6
<1> HIDE DEF S
<1>3. Nat \subseteq S
  BY Zenon, <1>1, <1>2, Induct
<1> QED
  BY Zenon, <1>3 DEF S

LEMMA NthFollows ==
  ASSUME NEW fat, NEW first, NEW n \in Nat
  PROVE  \E f : Steps(f, fat, first, n) /\ NthCluster(fat, first, n) = f[n]
<1> DEFINE f == CHOOSE f : Follows(f, fat, first, n)
<1>1. Follows(f, fat, first, n)
  BY Zenon, ChainExists
<1>2. NthCluster(fat, first, n) = f[n]
  BY Zenon DEF NthCluster, Follows, After
<1> QED
  BY Zenon, <1>1, <1>2, FollowsSteps

Walks(fat, first, n) ==
  /\ NthCluster(fat, first, 0) = first
  /\ NthCluster(fat, first, n + 1) = After(fat, NthCluster(fat, first, n))

LEMMA NthSteps ==
  ASSUME NEW fat, NEW first, NEW n \in Nat
  PROVE  Walks(fat, first, n)
<1>1. NthCluster(fat, first, 0) = first
  <2>1. PICK f : Steps(f, fat, first, 0) /\ NthCluster(fat, first, 0) = f[0]
    BY Zenon, NthFollows, 0 \in Nat
  <2> QED
    BY Zenon, <2>1 DEF Steps
<1>2. PICK f : Steps(f, fat, first, n) /\ NthCluster(fat, first, n) = f[n]
  BY Zenon, NthFollows
<1>3. n + 1 \in Nat
  OBVIOUS
<1>4. PICK h : Steps(h, fat, first, n + 1) /\ NthCluster(fat, first, n + 1) = h[n + 1]
  BY Zenon, <1>3, NthFollows
<1> DEFINE S == {k \in Nat : k \in 0..n => f[k] = h[k]}
<1>5. 0 \in S
  BY Zenon, <1>2, <1>4, 0 \in Nat DEF Steps
<1>6. ASSUME NEW k \in Nat, k \in S PROVE k + 1 \in S
  <2> SUFFICES ASSUME k + 1 \in 0..n PROVE f[k + 1] = h[k + 1]
    BY <1>6
  <2>1. k \in 0..n /\ k + 1 \in 0..n + 1 /\ (k + 1) - 1 = k /\ k + 1 # 0
    OBVIOUS
  <2>2. f[k] = h[k]
    BY Zenon, <1>6, <2>1
  <2>3. f[k + 1] = After(fat, f[(k + 1) - 1]) /\ h[k + 1] = After(fat, h[(k + 1) - 1])
    BY Zenon, <1>2, <1>4, <2>1 DEF Steps
  <2> QED
    BY Zenon, <2>1, <2>2, <2>3
<1> HIDE DEF S
<1>7. f[n] = h[n]
  <2>1. n \in S
    BY Zenon, <1>5, <1>6, Induct
  <2>2. n \in 0..n
    OBVIOUS
  <2> QED
    BY Zenon, <2>1, <2>2 DEF S
<1>8. h[n + 1] = After(fat, h[n])
  <2>1. n + 1 \in 0..n + 1 /\ n + 1 # 0 /\ (n + 1) - 1 = n
    OBVIOUS
  <2>2. h[n + 1] = After(fat, h[(n + 1) - 1])
    BY Zenon, <1>4, <2>1 DEF Steps
  <2> QED
    BY Zenon, <2>1, <2>2
<1> QED
  BY Zenon, <1>1, <1>2, <1>4, <1>7, <1>8 DEF Walks

LEMMA EndStays ==
  ASSUME NEW fat, NEW first, NEW n \in Nat, NthCluster(fat, first, n) >= EOC,
         NEW m \in Nat, n <= m
  PROVE  NthCluster(fat, first, m) >= EOC
<1> DEFINE S == {k \in Nat : NthCluster(fat, first, n + k) >= EOC}
<1>1. 0 \in S
  <2>1. n + 0 = n
    OBVIOUS
  <2> QED
    BY Zenon, <2>1, 0 \in Nat
<1>2. ASSUME NEW k \in Nat, k \in S PROVE k + 1 \in S
  <2>1. n + k \in Nat /\ n + (k + 1) = (n + k) + 1 /\ k + 1 \in Nat
    OBVIOUS
  <2>2. NthCluster(fat, first, (n + k) + 1) = After(fat, NthCluster(fat, first, n + k))
    BY ZenonT(30), <2>1, NthSteps DEF Walks
  <2>3. EOC >= EOC
    BY Fat32Assumption DEF EOC
  <2>4. NthCluster(fat, first, (n + k) + 1) >= EOC
    BY Zenon, <1>2, <2>2, <2>3 DEF After
  <2> QED
    BY Zenon, <2>1, <2>4
<1> HIDE DEF S
<1>3. m - n \in S
  <2>1. m - n \in Nat
    OBVIOUS
  <2> QED
    BY Zenon, <1>1, <1>2, <2>1, Induct
<1>4. n + (m - n) = m
  OBVIOUS
<1> QED
  BY Zenon, <1>3, <1>4 DEF S
-----------------------------------------------------------------------------
(* The file system: the invariant *)

Clusters == {0} \cup 2..EOC

FatTyped ==
  /\ vol \in Volumes
  /\ fs_root.kind = "dir" => fs_root.inode = root_cluster
  /\ node.inode \in {0} \cup 2..LAST
  /\ cluster \in Clusters
  /\ offset \in Nat /\ size \in Nat
  /\ entry \in Nat /\ current_index \in Nat /\ walked \in Nat
  /\ call.index \in Nat /\ call.offset \in Nat /\ call.size \in Nat
  /\ out \in Seq(Clusters \X Nat)
  /\ failed \in BOOLEAN

(* Who holds a cluster buffer.                                             *)
Held == \/ doing \in {"boot", "idle", "wild", "skip"} /\ buffers = 0
        \/ doing \in {"scan", "entries", "copy"} /\ buffers = 1
Booting == doing = "boot" => call = NoCall

(* The bytes delivered so far, and where in the chain the read is.         *)
Copied ==
  \A k \in 1..Len(out) : /\ ClusterOf(node.inode, call.offset + k - 1) < EOC
                         /\ out[k] = FileByte(node.inode, call.offset + k - 1)
Positioned(n) == /\ cluster = ClusterAt(node.inode, n) /\ cluster < EOC
                 /\ call.offset + Len(out) = n * cluster_size + offset
Delivered ==
  /\ Len(out) <= call.size
  /\ Copied
  /\ ~ failed /\ Len(out) < call.size => ClusterOf(node.inode, call.offset + Len(out)) >= EOC
ReadInv ==
  /\ doing = "skip" => /\ call.op = "read" /\ ~ failed
                       /\ out = <<>> /\ size = call.size
                       /\ \E n \in Nat : Positioned(n)
  /\ doing = "copy" => /\ call.op = "read" /\ ~ failed
                       /\ Len(out) + size = call.size /\ Copied
                       /\ size > 0 => offset < cluster_size /\ \E n \in Nat : Positioned(n)
  /\ Returned("read") => Delivered

(* The walks in terms of the entries the code keeps, those it does not     *)
(* skip.                                                                   *)
Kept == {p \in 0 .. Place - 1 : ~ Skipped(EntryAt(p))}
KeptHere == ~ Exhausted /\ ~ Skipped(EntryAt(Place)) /\ result = EntryAt(Place)
ReaddirKeeps == \/ Cardinality(Kept) = call.index /\ KeptHere
                \/ Cardinality(Kept) <= call.index /\ Exhausted /\ result = NoEntry
FinddirKeeps == /\ \A p \in Kept : NameOf(EntryAt(p)) # call.name
                /\ \/ KeptHere /\ NameOf(result) = call.name
                   \/ Exhausted /\ result = NoEntry
WalksKeep ==
  /\ Returned("readdir") => (failed /\ result = NoEntry) \/ ReaddirKeeps
  /\ Returned("finddir") => (failed /\ result = NoEntry) \/ FinddirKeeps
  /\ Returned("readdir") \/ Returned("finddir") =>
       \A p \in 0 .. Place - 1 : ~ IsEnd(EntryAt(p))

(* What the walk of a directory has passed: no end mark, and no entry that *)
(* was asked for.                                                          *)
Passed ==
  /\ \A p \in 0 .. Place - 1 : ~ IsEnd(EntryAt(p))
  /\ call.op = "readdir" => /\ current_index = Cardinality(Kept)
                            /\ current_index <= call.index
  /\ call.op = "finddir" => \A p \in Kept : NameOf(EntryAt(p)) # call.name
WalkInv ==
  /\ doing \in {"scan", "entries"} =>
       /\ call.op \in {"readdir", "finddir"}
       /\ cluster \in DOMAIN vol.entries \cup {EOC}
       /\ failed => doing = "scan" /\ cluster = EOC
       /\ ~ failed => cluster = ClusterAt(root_cluster, walked)
       /\ doing = "scan" => entry = 0
       /\ doing = "entries" => cluster # EOC /\ entry <= dir_entries_per_cluster
       /\ Passed
  /\ WalksKeep

FatInv == FatTyped /\ Held /\ Booting /\ ReadInv /\ WalkInv
-----------------------------------------------------------------------------
LEMMA FatSizes == /\ cluster_size \in Nat \ {0} /\ dir_entries_per_cluster \in Nat \ {0}
                  /\ LAST \in Nat /\ root_cluster \in 2..LAST
                  /\ MAX_INDEX \in Nat /\ MAX_OFFSET \in Nat /\ MAX_SIZE \in Nat
  BY Zenon, Fat32Assumption

LEMMA EocIsAbove == EOC \in Nat /\ \A c \in 2..LAST : c \in Nat /\ c < EOC /\ c # EOC /\ c \in 0..LAST
  BY FatSizes DEF EOC

LEMMA VolumeType ==
  ASSUME vol \in Volumes
  PROVE  /\ \A c \in 0..LAST : vol.fat[c] \in Clusters
         /\ root_cluster \in DOMAIN vol.entries
         /\ \A c \in DOMAIN vol.entries :
              /\ c \in 2..LAST
              /\ vol.fat[c] \in DOMAIN vol.entries \cup {EOC}
              /\ \A k \in 1..dir_entries_per_cluster : vol.entries[c][k] \in DirEntry
<1>1. /\ vol.fat \in [0..LAST -> {0} \cup 2..EOC]
      /\ root_cluster \in DOMAIN vol.entries
      /\ \A c \in DOMAIN vol.entries :
           /\ c \in 2..LAST /\ vol.fat[c] \in DOMAIN vol.entries \cup {EOC}
           /\ vol.entries[c] \in [1..dir_entries_per_cluster -> DirEntry]
  BY Zenon, Fat32Assumption
<1>2. \A c \in 0..LAST : vol.fat[c] \in Clusters
  BY Zenon, <1>1 DEF Clusters
<1> QED
  BY Zenon, <1>1, <1>2

LEMMA ClusterBelow == \A c \in Clusters : c \in Nat /\ (c < EOC => c \in 0..LAST) /\ (c < EOC \/ c >= EOC)
  BY FatSizes DEF Clusters, EOC

LEMMA InodeIsCluster == \A c \in {0} \cup 2..LAST : c \in Clusters /\ c < EOC
  BY FatSizes DEF Clusters, EOC

LEMMA GetsNext ==
  ASSUME vol \in Volumes, cluster \in Clusters, cluster < EOC, NEW ok \in BOOLEAN
  PROVE  get_next_cluster(cluster, ok) \in Clusters
<1>1. EOC \in Clusters
  BY FatSizes DEF Clusters, EOC
<1> QED
  BY Zenon, <1>1, VolumeType, ClusterBelow DEF get_next_cluster

LEMMA GetsFollowing ==
  ASSUME NEW first, NEW n \in Nat, cluster = ClusterAt(first, n), cluster < EOC, cluster \in Clusters
  PROVE  get_next_cluster(cluster, TRUE) = ClusterAt(first, n + 1)
<1>1. ~ (cluster >= EOC)
  BY ClusterBelow, EocIsAbove
<1>2. ClusterAt(first, n + 1) = After(vol.fat, cluster)
  BY ZenonT(30), NthSteps DEF ClusterAt, Walks
<1> QED
  BY Zenon, <1>1, <1>2 DEF After, get_next_cluster

\* The directory as functions of the volume.
EntryIn(v, p) == v.entries[NthCluster(v.fat, root_cluster, p \div dir_entries_per_cluster)]
                          [(p % dir_entries_per_cluster) + 1]
ListedIn(v, n) == {p \in 0 .. n - 1 : ~ Skipped(EntryIn(v, p))}

LEMMA Directory ==
  /\ \A p : EntryAt(p) = EntryIn(vol, p)
  /\ Kept = ListedIn(vol, Place)
<1>1. \A p : EntryAt(p) = EntryIn(vol, p)
  BY Zenon DEF EntryAt, EntryIn, ClusterAt
<1>2. Kept = ListedIn(vol, Place)
  BY Zenon, <1>1 DEF Kept, ListedIn
<1> QED
  BY Zenon, <1>1, <1>2

LEMMA Placed ==
  ASSUME vol \in Volumes, walked \in Nat, entry \in 0 .. dir_entries_per_cluster - 1
  PROVE  /\ Place \in Nat
         /\ EntryAt(Place) = vol.entries[ClusterAt(root_cluster, walked)][entry + 1]
<1> DEFINE d == dir_entries_per_cluster
<1>1. d \in Nat \ {0}
  BY Zenon, FatSizes
<1>2. walked * d \in Nat /\ Place \in Nat
  BY <1>1 DEF Place
<1>3. Place = (Place \div d) * d + (Place % d) /\ Place \div d \in Nat /\ Place % d \in 0 .. d - 1
  BY Zenon, <1>1, <1>2, Division
<1>4. Place = walked * d + entry
  BY Zenon DEF Place
<1> HIDE DEF d
<1>5. Place \div d = walked /\ Place % d = entry
  <2>1. walked * d + entry = (Place \div d) * d + (Place % d)
    BY Zenon, <1>3, <1>4
  <2>2. entry \in 0 .. d - 1
    BY Zenon DEF d
  <2> QED
    BY Zenon, <1>1, <1>3, <2>1, <2>2, OneRow
<1> QED
  BY Zenon, <1>2, <1>5 DEF EntryAt, d

LEMMA ListedFinite ==
  ASSUME NEW v, NEW n \in Nat
  PROVE  /\ IsFiniteSet(ListedIn(v, n)) /\ Cardinality(ListedIn(v, n)) \in Nat
         /\ n \notin ListedIn(v, n)
<1>1. ListedIn(v, n) \subseteq 0 .. n - 1
  BY Zenon DEF ListedIn
<1>2. IsFiniteSet(0 .. n - 1)
  BY FS_Interval
<1>3. IsFiniteSet(ListedIn(v, n))
  BY Zenon, <1>1, <1>2, FS_Subset
<1>4. n \notin 0 .. n - 1
  OBVIOUS
<1> QED
  BY Zenon, <1>1, <1>3, <1>4, FS_CardinalityType

LEMMA ListedMore ==
  ASSUME NEW v, NEW n \in Nat
  PROVE  /\ Skipped(EntryIn(v, n)) => ListedIn(v, n + 1) = ListedIn(v, n)
         /\ ~ Skipped(EntryIn(v, n)) =>
              /\ ListedIn(v, n + 1) = ListedIn(v, n) \cup {n}
              /\ Cardinality(ListedIn(v, n + 1)) = Cardinality(ListedIn(v, n)) + 1
<1>1. \A p : p \in 0 .. (n + 1) - 1 <=> p \in 0 .. n - 1 \/ p = n
  OBVIOUS
<1>2. Skipped(EntryIn(v, n)) => ListedIn(v, n + 1) = ListedIn(v, n)
  BY Zenon, <1>1 DEF ListedIn
<1>3. ~ Skipped(EntryIn(v, n)) => ListedIn(v, n + 1) = ListedIn(v, n) \cup {n}
  BY Zenon, <1>1 DEF ListedIn
<1> QED
  BY Zenon, <1>2, <1>3, ListedFinite, FS_AddElement
-----------------------------------------------------------------------------
(* The file system: the calls *)

LEMMA FatStart == FatInit => FatInv
<1> SUFFICES ASSUME FatInit PROVE FatInv
  BY Zenon
<1>1. FatTyped
  <2>1. NoNode.kind # "dir" /\ NoNode.inode = 0
    BY DEF NoNode
  <2>2. NoCall.index = 0 /\ NoCall.offset = 0 /\ NoCall.size = 0
    BY DEF NoCall
  <2>3. out \in Seq(Clusters \X Nat)
    BY DEF FatInit
  <2>4. 0 \in Nat /\ 0 \in Clusters
    BY DEF Clusters
  <2> QED
    BY Zenon, <2>1, <2>2, <2>3, <2>4 DEF FatInit, FatTyped
<1>2. Held
  BY Zenon DEF FatInit, Held
<1>3. doing = "boot"
  BY Zenon DEF FatInit
<1>4. ReadInv
  BY <1>3 DEF ReadInv, Returned
<1>5. WalkInv
  BY <1>3 DEF WalkInv, WalksKeep, Returned
<1>6. Booting
  BY Zenon DEF FatInit, Booting
<1> QED
  BY Zenon, <1>1, <1>2, <1>4, <1>5, <1>6 DEF FatInv

Walk(op) == op \in {"readdir", "finddir"}
Request(r) == r.index \in Nat /\ r.offset \in Nat /\ r.size \in Nat

LEMMA StartTyped ==
  ASSUME FatTyped, NEW r, Request(r), NEW where, NEW first \in Clusters, NEW taken,
         Start(r, where, first, taken), failed' \in BOOLEAN
  PROVE  FatTyped'
<1>1. <<>> \in Seq(Clusters \X Nat) /\ 0 \in Nat
  OBVIOUS
<1> QED
  BY Zenon, <1>1 DEF FatTyped, Start, Request

LEMMA StartWalk ==
  ASSUME FatInv, doing = "idle", NEW r, Request(r), Walk(r.op),
         fs_root.kind = "dir",
         \/ Start(r, "scan", fs_root.inode, 1) /\ failed' = FALSE
         \/ Start(r, "idle", fs_root.inode, 0) /\ failed' = TRUE
  PROVE  FatInv'
<1>1. fs_root.inode = root_cluster /\ root_cluster \in Clusters
  BY Zenon, FatSizes, InodeIsCluster DEF FatInv, FatTyped
<1>2. FatTyped'
  BY Zenon, <1>1, StartTyped DEF FatInv
<1>3. buffers = 0
  BY DEF FatInv, Held
<1>4. Held'
  <2>1. buffers + 1 = 1 /\ buffers + 0 = 0
    BY <1>3
  <2> QED
    BY Zenon, <2>1 DEF Start, Held
<1>5. call' = r /\ r.op # "read" /\ (doing' = "scan" \/ (doing' = "idle" /\ failed' = TRUE))
  <2>1. r.op # "read"
    BY DEF Walk
  <2>2. CASE Start(r, "scan", fs_root.inode, 1)
    BY Zenon, <2>1, <2>2 DEF Start
  <2>3. CASE Start(r, "idle", fs_root.inode, 0) /\ failed' = TRUE
    BY Zenon, <2>1, <2>3 DEF Start
  <2> QED
    BY Zenon, <2>2, <2>3
<1>6. ReadInv'
  BY <1>5 DEF ReadInv, Returned
<1>7. vol' = vol /\ walked' = 0 /\ entry' = 0 /\ current_index' = 0 /\ result' = NoEntry
      /\ cluster' = root_cluster
  BY Zenon, <1>1 DEF Start
<1>8. Place' = 0
  BY <1>7, FatSizes DEF Place
<1>9. Kept' = {} /\ 0 .. Place' - 1 = {}
  <2>1. 0 .. Place' - 1 = {}
    BY <1>8
  <2> QED
    BY Zenon, <2>1 DEF Kept
<1>10. Passed'
  <2>1. Cardinality({}) = 0 /\ 0 <= call'.index
    BY <1>2, FS_EmptySet DEF FatTyped
  <2> QED
    BY Zenon, <1>7, <1>9, <2>1 DEF Passed
<1>11. WalksKeep'
  BY <1>5, <1>7, <1>9 DEF WalksKeep, Returned
<1>12. doing' = "scan" => /\ cluster' \in DOMAIN vol'.entries \cup {EOC}
                          /\ cluster' = ClusterAt(root_cluster, walked)'
  <2>1. vol \in Volumes /\ 0 \in Nat
    BY Zenon DEF FatInv, FatTyped
  <2>2. root_cluster \in DOMAIN vol.entries
    BY Zenon, <2>1, VolumeType
  <2>3. ClusterAt(root_cluster, walked)' = root_cluster
    BY Zenon, <1>7, <2>1, NthSteps DEF ClusterAt, Walks
  <2> QED
    BY Zenon, <1>7, <2>2, <2>3
<1>13. doing' = "scan" => failed' = FALSE
  BY <1>5 DEF Start
<1>14. WalkInv'
  <2>1. doing' # "entries"
    BY <1>5
  <2>2. call'.op \in {"readdir", "finddir"}
    BY Zenon, <1>5 DEF Walk
  <2> QED
    BY <1>5, <1>7, <1>10, <1>11, <1>12, <1>13, <2>1, <2>2 DEF WalkInv
<1>15. Booting'
  BY <1>5 DEF Booting
<1> QED
  BY Zenon, <1>2, <1>4, <1>6, <1>14, <1>15 DEF FatInv

LEMMA StartRead ==
  ASSUME FatInv, doing = "idle", NEW r, Request(r), r.op = "read",
         Start(r, "skip", node.inode, 0), failed' = FALSE
  PROVE  FatInv'
<1>1. node.inode \in Clusters /\ node.inode < EOC
  BY Zenon, InodeIsCluster DEF FatInv, FatTyped
<1>2. FatTyped'
  BY Zenon, <1>1, StartTyped DEF FatInv
<1>3. Held'
  <2>1. buffers = 0
    BY DEF FatInv, Held
  <2>2. buffers + 0 = 0
    BY <2>1
  <2> QED
    BY Zenon, <2>2 DEF Start, Held
<1>4. /\ doing' = "skip" /\ call' = r /\ out' = <<>> /\ size' = r.size /\ node' = node
      /\ cluster' = node.inode /\ offset' = r.offset
  BY Zenon DEF Start
<1>5. Positioned(0)'
  <2>1. ClusterAt(node.inode, 0)' = node.inode
    BY Zenon, <1>4, NthSteps, 0 \in Nat DEF ClusterAt, Walks
  <2>2. Len(<<>>) = 0
    OBVIOUS
  <2>3. r.offset + 0 = 0 * cluster_size + r.offset
    BY FatSizes DEF Request
  <2> QED
    BY Zenon, <1>1, <1>4, <2>1, <2>2, <2>3 DEF Positioned
<1>6. ReadInv'
  <2>1. \E n \in Nat : Positioned(n)'
    BY Zenon, <1>5, 0 \in Nat
  <2>2. doing' # "copy" /\ doing' # "idle" /\ failed' = FALSE
    BY <1>4
  <2> QED
    BY Zenon, <1>4, <2>1, <2>2 DEF ReadInv, Returned
<1>7. WalkInv'
  BY <1>4 DEF WalkInv, WalksKeep, Returned
<1>8. Booting'
  BY <1>4 DEF Booting
<1> QED
  BY Zenon, <1>2, <1>3, <1>6, <1>7, <1>8 DEF FatInv

LEMMA UnsetStep ==
  ASSUME FatInv, doing = "idle", Unset
  PROVE  FatInv'
<1>1. call' = NoCall /\ NoCall.op = "none" /\ Request(NoCall)
  BY DEF Unset, NoCall, Request
<1>2. FatTyped'
  <2>1. <<>> \in Seq(Clusters \X Nat)
    OBVIOUS
  <2> QED
    BY Zenon, <1>1, <2>1 DEF FatInv, FatTyped, Unset, args, Request
<1>3. Held'
  <2>1. buffers = 0
    BY DEF FatInv, Held
  <2> QED
    BY <2>1 DEF Unset, Held
<1>4. doing' \in {"idle", "wild"}
  BY Zenon DEF Unset
<1>5. ReadInv' /\ WalkInv'
  BY <1>1, <1>4 DEF ReadInv, WalkInv, WalksKeep, Returned
<1>6. Booting'
  BY <1>4 DEF Booting
<1> QED
  BY Zenon, <1>2, <1>3, <1>5, <1>6 DEF FatInv

LEMMA CallStep ==
  ASSUME FatInv,
         \/ fat32_init
         \/ \E index \in 0..MAX_INDEX : vfs_readdir(index)
         \/ \E name \in Names : vfs_finddir(name)
         \/ \E from \in 0..MAX_OFFSET, n \in 0..MAX_SIZE : vfs_read(from, n)
  PROVE  FatInv'
<1>1. CASE fat32_init
  <2>1. fs_root'.kind = "dir" => fs_root'.inode = root_cluster
    BY <1>1 DEF fat32_init, NoNode
  <2>2. FatTyped'
    BY Zenon, <1>1, <2>1 DEF fat32_init, FatInv, FatTyped, args
  <2>3. doing = "boot" /\ doing' = "idle" /\ buffers' = buffers /\ call' = NoCall
    BY Zenon, <1>1 DEF fat32_init, FatInv, Booting
  <2>4. Held' /\ Booting'
    BY <2>3 DEF FatInv, Held, Booting
  <2>5. NoCall.op = "none"
    BY DEF NoCall
  <2>6. ReadInv' /\ WalkInv'
    BY <2>3, <2>5 DEF ReadInv, WalkInv, WalksKeep, Returned
  <2> QED
    BY Zenon, <2>2, <2>4, <2>6 DEF FatInv
<1>2. ASSUME NEW index \in 0..MAX_INDEX, vfs_readdir(index) PROVE FatInv'
  <2> DEFINE r == [NoCall EXCEPT !.op = "readdir", !.index = index]
  <2>1. r.op = "readdir" /\ Request(r)
    BY FatSizes DEF NoCall, Request
  <2> HIDE DEF r
  <2>2. Walk(r.op)
    BY <2>1 DEF Walk
  <2>3. doing = "idle" /\ (\/ Unset
                           \/ fs_root.kind = "dir" /\ Start(r, "scan", fs_root.inode, 1) /\ failed' = FALSE
                           \/ fs_root.kind = "dir" /\ Start(r, "idle", fs_root.inode, 0) /\ failed' = TRUE)
    BY Zenon, <1>2 DEF vfs_readdir, r
  <2> QED
    BY Zenon, <2>1, <2>2, <2>3, StartWalk, UnsetStep
<1>3. ASSUME NEW name \in Names, vfs_finddir(name) PROVE FatInv'
  <2> DEFINE r == [NoCall EXCEPT !.op = "finddir", !.name = name]
  <2>1. r.op = "finddir" /\ Request(r)
    BY FatSizes DEF NoCall, Request
  <2> HIDE DEF r
  <2>2. Walk(r.op)
    BY <2>1 DEF Walk
  <2>3. doing = "idle" /\ (\/ Unset
                           \/ fs_root.kind = "dir" /\ Start(r, "scan", fs_root.inode, 1) /\ failed' = FALSE)
    BY Zenon, <1>3 DEF vfs_finddir, r
  <2> QED
    BY Zenon, <2>1, <2>2, <2>3, StartWalk, UnsetStep
<1>4. ASSUME NEW from \in 0..MAX_OFFSET, NEW n \in 0..MAX_SIZE, vfs_read(from, n) PROVE FatInv'
  <2> DEFINE r == [NoCall EXCEPT !.op = "read", !.offset = from, !.size = n]
  <2>1. r.op = "read" /\ Request(r)
    BY FatSizes DEF NoCall, Request
  <2> HIDE DEF r
  <2>2. doing = "idle"
    BY Zenon, <1>4 DEF vfs_read
  <2>3. Unset \/ (Start(r, "skip", node.inode, 0) /\ failed' = FALSE)
    <3>1. CASE node.kind = "file"
      BY Zenon, <1>4, <3>1 DEF vfs_read, r
    <3>2. CASE node.kind # "file"
      BY Zenon, <1>4, <3>2 DEF vfs_read
    <3> QED
      BY Zenon, <3>1, <3>2
  <2> QED
    BY Zenon, <2>1, <2>2, <2>3, StartRead, UnsetStep
<1> QED
  BY Zenon, <1>1, <1>2, <1>3, <1>4
-----------------------------------------------------------------------------
(* The file system: the walk *)

LEMMA Frozen ==
  ASSUME vol' = vol, walked' = walked, entry' = entry
  PROVE  /\ Place' = Place /\ Kept' = Kept /\ (Exhausted' <=> Exhausted)
         /\ \A p : EntryAt(p)' = EntryAt(p)
<1>1. Place' = Place
  BY Zenon DEF Place
<1>2. \A p : EntryAt(p)' = EntryAt(p)
  BY Zenon, Directory DEF EntryAt, EntryIn, ClusterAt
<1>3. Kept' = Kept
  BY Zenon, <1>1, <1>2 DEF Kept
<1>4. ClusterAt(root_cluster, walked)' = ClusterAt(root_cluster, walked)
  BY Zenon DEF ClusterAt
<1>5. Exhausted' <=> Exhausted
  BY Zenon, <1>1, <1>2, <1>4 DEF Exhausted
<1> QED
  BY Zenon, <1>1, <1>2, <1>3, <1>5

FinderStops ==
  \/ failed' = TRUE /\ result' = NoEntry
  \/ Exhausted /\ result' = NoEntry
  \/ /\ ~ Exhausted /\ ~ Skipped(EntryAt(Place)) /\ Wanted(EntryAt(Place))
     /\ result' = EntryAt(Place)

LEMMA WalkEnds ==
  ASSUME FatInv, doing \in {"scan", "entries"}, Done(1),
         node'.inode \in {0} \cup 2..LAST, failed' \in BOOLEAN, FinderStops
  PROVE  FatInv'
<1>1. FatTyped'
  BY Zenon DEF FatInv, FatTyped, Done, args
<1>2. Held' /\ Booting' /\ doing' = "idle"
  <2>1. buffers = 1
    BY DEF FatInv, Held
  <2>2. buffers - 1 = 0
    BY <2>1
  <2>3. Held' /\ doing' = "idle"
    BY Zenon, <2>2 DEF Done, Held
  <2>4. Booting'
    BY <2>3 DEF Booting
  <2> QED
    BY Zenon, <2>3, <2>4
<1>3. call' = call /\ Walk(call.op) /\ Passed
  BY Zenon DEF Done, FatInv, WalkInv, Walk
<1>4. ReadInv'
  BY <1>2, <1>3 DEF ReadInv, Returned, Walk
<1>5. /\ Place' = Place /\ Kept' = Kept /\ (Exhausted' <=> Exhausted)
      /\ \A p : EntryAt(p)' = EntryAt(p)
  BY Zenon, Frozen DEF Done, args
<1>6. \A p \in 0 .. Place' - 1 : ~ IsEnd(EntryAt(p)')
  BY Zenon, <1>3, <1>5 DEF Passed
<1>7. ASSUME call.op = "readdir", ~ (failed' = TRUE /\ result' = NoEntry) PROVE ReaddirKeeps'
  <2>1. current_index = Cardinality(Kept) /\ Cardinality(Kept) <= call.index
    BY Zenon, <1>3, <1>7 DEF Passed
  <2>2. call.op # "finddir"
    BY <1>7
  <2>3. CASE Exhausted /\ result' = NoEntry
    BY Zenon, <1>3, <1>5, <2>1, <2>3 DEF ReaddirKeeps
  <2>4. CASE /\ ~ Exhausted /\ ~ Skipped(EntryAt(Place)) /\ Wanted(EntryAt(Place))
             /\ result' = EntryAt(Place)
    <3>1. current_index = call.index
      BY Zenon, <2>2, <2>4 DEF Wanted
    <3>2. EntryAt(Place)' = EntryAt(Place)
      BY Zenon, <1>5
    <3>3. KeptHere'
      BY Zenon, <1>5, <2>4, <3>2 DEF KeptHere
    <3> QED
      BY Zenon, <1>3, <1>5, <2>1, <3>1, <3>3 DEF ReaddirKeeps
  <2> QED
    BY Zenon, <1>7, <2>3, <2>4 DEF FinderStops
<1>8. ASSUME call.op = "finddir", ~ (failed' = TRUE /\ result' = NoEntry) PROVE FinddirKeeps'
  <2>1. \A p \in Kept' : NameOf(EntryAt(p)') # call'.name
    BY Zenon, <1>3, <1>5, <1>8 DEF Passed
  <2>2. CASE Exhausted /\ result' = NoEntry
    BY Zenon, <1>5, <2>1, <2>2 DEF FinddirKeeps
  <2>3. CASE /\ ~ Exhausted /\ ~ Skipped(EntryAt(Place)) /\ Wanted(EntryAt(Place))
             /\ result' = EntryAt(Place)
    <3>1. NameOf(EntryAt(Place)) = call.name
      BY Zenon, <1>8, <2>3 DEF Wanted
    <3>2. EntryAt(Place)' = EntryAt(Place)
      BY Zenon, <1>5
    <3>3. KeptHere'
      BY Zenon, <1>5, <2>3, <3>2 DEF KeptHere
    <3>4. NameOf(result') = call'.name
      BY Zenon, <1>3, <2>3, <3>1
    <3> QED
      BY Zenon, <2>1, <3>3, <3>4 DEF FinddirKeeps
  <2> QED
    BY Zenon, <1>8, <2>2, <2>3 DEF FinderStops
<1>9. WalksKeep'
  BY Zenon, <1>2, <1>3, <1>6, <1>7, <1>8 DEF WalksKeep, Returned
<1>10. WalkInv'
  BY <1>2, <1>9 DEF WalkInv
<1> QED
  BY Zenon, <1>1, <1>2, <1>4, <1>10 DEF FatInv

LEMMA ScanStep ==
  ASSUME FatInv, Scan
  PROVE  FatInv'
<1>1. doing = "scan" /\ failed \in BOOLEAN /\ node.inode \in {0} \cup 2..LAST
  BY Zenon DEF Scan, FatInv, FatTyped
<1>2. GiveNothing => /\ Done(1) /\ result' = NoEntry
                     /\ node'.inode \in {0} \cup 2..LAST
  <2>1. NoNode.inode = 0 /\ 0 \in {0} \cup 2..LAST
    BY DEF NoNode
  <2> QED
    BY Zenon, <1>1, <2>1 DEF GiveNothing
<1>3. CASE cluster >= EOC /\ GiveNothing /\ UNCHANGED failed
  <2>1. failed' = TRUE \/ Exhausted
    BY Zenon, <1>1, <1>3 DEF FatInv, WalkInv, Exhausted
  <2>2. FinderStops
    BY Zenon, <1>2, <1>3, <2>1 DEF FinderStops
  <2> QED
    BY Zenon, <1>1, <1>2, <1>3, <2>2, WalkEnds
<1>4. CASE ScanFails
  <2>1. FinderStops
    BY Zenon, <1>2, <1>4 DEF ScanFails, FinderStops
  <2> QED
    BY Zenon, <1>1, <1>2, <1>4, <2>1, WalkEnds DEF ScanFails
<1>5. CASE /\ cluster < EOC
           /\ doing' = "entries"
           /\ UNCHANGED <<vol, fs_root, node, call, args, out, result, buffers, failed>>
  <2>1. FatTyped'
    BY Zenon, <1>5 DEF FatInv, FatTyped, args
  <2>2. Held' /\ Booting' /\ ReadInv'
    BY <1>1, <1>5 DEF FatInv, Held, Booting, ReadInv, Returned
  <2>3. /\ Place' = Place /\ Kept' = Kept /\ \A p : EntryAt(p)' = EntryAt(p)
    BY Zenon, <1>5, Frozen DEF args
  <2>4. Passed'
    BY Zenon, <1>1, <1>5, <2>3 DEF FatInv, WalkInv, Passed, args
  <2>5. cluster # EOC /\ cluster' = cluster /\ entry' = entry /\ entry = 0 /\ failed' = failed
        /\ walked' = walked /\ vol' = vol /\ call' = call /\ failed = FALSE
    BY <1>1, <1>5, EocIsAbove DEF FatInv, WalkInv, args
  <2>6. 0 <= dir_entries_per_cluster
    BY FatSizes
  <2>7. ClusterAt(root_cluster, walked)' = ClusterAt(root_cluster, walked)
    BY Zenon, <2>5 DEF ClusterAt
  <2>8. doing' # "scan" /\ doing' # "idle"
    BY <1>5
  <2>9. WalksKeep'
    BY Zenon, <2>8 DEF WalksKeep, Returned
  <2>10. WalkInv'
    BY Zenon, <1>1, <2>4, <2>5, <2>6, <2>7, <2>8, <2>9 DEF FatInv, WalkInv
  <2> QED
    BY Zenon, <2>1, <2>2, <2>10 DEF FatInv
<1> QED
  BY Zenon, <1>3, <1>4, <1>5 DEF Scan

LEMMA EntryStep ==
  ASSUME FatInv, ScanEntry
  PROVE  FatInv'
<1> DEFINE e == vol.entries[cluster][entry + 1]
<1>1. /\ doing = "entries" /\ entry \in 0 .. dir_entries_per_cluster - 1
      /\ failed = FALSE /\ cluster \in DOMAIN vol.entries
      /\ cluster = ClusterAt(root_cluster, walked)
  <2>1. doing = "entries" /\ entry < dir_entries_per_cluster /\ entry \in Nat
    BY Zenon DEF ScanEntry, FatInv, FatTyped
  <2>2. entry \in 0 .. dir_entries_per_cluster - 1
    BY <2>1, FatSizes
  <2>3. doing # "scan" /\ failed \in BOOLEAN
    BY <2>1 DEF FatInv, FatTyped
  <2>4. failed = FALSE
    BY Zenon, <2>1, <2>3 DEF FatInv, WalkInv
  <2> QED
    BY Zenon, <2>1, <2>2, <2>4 DEF FatInv, WalkInv
<1>2. vol \in Volumes /\ walked \in Nat /\ cluster < EOC /\ cluster \in Nat
  BY Zenon, <1>1, VolumeType, EocIsAbove DEF FatInv, FatTyped
<1>3. Place \in Nat /\ EntryAt(Place) = e
  BY Zenon, <1>1, <1>2, Placed
<1>4. e \in DirEntry
  <2>1. entry + 1 \in 1..dir_entries_per_cluster
    BY <1>1, FatSizes
  <2> QED
    BY Zenon, <1>1, <1>2, <2>1, VolumeType
<1>5. Exhausted <=> IsEnd(e)
  <2>1. ~ (cluster >= EOC)
    BY <1>2, EocIsAbove
  <2> QED
    BY Zenon, <1>1, <1>3, <2>1 DEF Exhausted
<1> HIDE DEF e
<1>6. CASE IsEnd(e) /\ GiveNothing /\ UNCHANGED failed
  <2>1. NoNode.inode = 0 /\ 0 \in {0} \cup 2..LAST
    BY DEF NoNode
  <2>2. node'.inode \in {0} \cup 2..LAST /\ failed' \in BOOLEAN
    BY Zenon, <1>6, <2>1 DEF GiveNothing, FatInv, FatTyped
  <2>3. FinderStops
    BY Zenon, <1>5, <1>6 DEF FinderStops, GiveNothing
  <2> QED
    BY Zenon, <1>1, <1>6, <2>2, <2>3, WalkEnds DEF GiveNothing
<1>7. CASE ~ IsEnd(e) /\ ~ Skipped(e) /\ Wanted(e) /\ Give(e)
  <2>1. Nodes(e).inode \in {0} \cup 2..LAST
    BY <1>4 DEF Nodes, DirEntry
  <2>2. node'.inode \in {0} \cup 2..LAST /\ failed' \in BOOLEAN
    BY Zenon, <1>7, <2>1 DEF Give, FatInv, FatTyped
  <2>3. FinderStops
    BY Zenon, <1>3, <1>5, <1>7 DEF FinderStops, Give
  <2> QED
    BY Zenon, <1>1, <1>7, <2>2, <2>3, WalkEnds DEF Give
<1>8. ASSUME NEW index, GoOn(index), ~ IsEnd(e),
             \/ Skipped(e) /\ index = current_index
             \/ ~ Skipped(e) /\ ~ Wanted(e) /\ index = Counted
      PROVE  FatInv'
  <2>1. /\ entry' = entry + 1 /\ current_index' = index /\ doing' = doing /\ walked' = walked
        /\ vol' = vol /\ cluster' = cluster /\ call' = call /\ failed' = failed
    BY Zenon, <1>8 DEF GoOn, Following
  <2>2. index \in Nat /\ entry + 1 \in Nat
    <3>1. current_index \in Nat /\ current_index + 1 \in Nat
      BY DEF FatInv, FatTyped
    <3>2. entry + 1 \in Nat
      BY <1>1
    <3> QED
      BY Zenon, <1>8, <3>1, <3>2 DEF Counted
  <2>3. FatTyped'
    BY Zenon, <1>8, <2>1, <2>2 DEF FatInv, FatTyped, GoOn
  <2>4. Held' /\ Booting' /\ ReadInv'
    BY <1>1, <1>8, <2>1 DEF FatInv, Held, Booting, ReadInv, Returned, GoOn
  <2>5. Place' = Place + 1
    <3>1. walked * dir_entries_per_cluster \in Nat
      BY <1>2, FatSizes
    <3> QED
      BY <1>1, <2>1, <3>1 DEF Place
  <2>6. \A p : EntryAt(p)' = EntryAt(p) /\ EntryAt(p) = EntryIn(vol, p)
    BY Zenon, <2>1, Directory DEF EntryAt, EntryIn, ClusterAt
  <2>7. Kept = ListedIn(vol, Place) /\ Kept' = ListedIn(vol, Place + 1)
    <3>1. Kept' = ListedIn(vol', Place')
      BY Zenon, <2>6, <2>1 DEF Kept, ListedIn
    <3> QED
      BY Zenon, <2>1, <2>5, <3>1, Directory
  <2>8. EntryIn(vol, Place) = e
    BY Zenon, <1>3, <2>6
  <2>9. Passed
    BY Zenon, <1>1 DEF FatInv, WalkInv
  <2>10. ASSUME NEW p \in 0 .. Place' - 1 PROVE ~ IsEnd(EntryAt(p)')
    <3>1. p \in 0 .. Place - 1 \/ p = Place
      BY <1>3, <2>5
    <3> QED
      BY Zenon, <1>3, <1>8, <2>6, <2>9, <3>1 DEF Passed
  <2>11. ASSUME call.op = "readdir"
         PROVE  current_index' = Cardinality(Kept') /\ current_index' <= call'.index
    <3>1. /\ current_index = Cardinality(Kept) /\ current_index <= call.index
          /\ current_index \in Nat /\ call.index \in Nat /\ call.op # "finddir"
      BY <2>9, <2>11 DEF Passed, FatInv, FatTyped
    <3>2. CASE Skipped(e)
      <4>1. Kept' = Kept
        BY ZenonT(30), <1>3, <2>7, <2>8, <3>2, ListedMore
      <4>2. index = current_index
        BY Zenon, <1>8, <3>2
      <4> QED
        BY Zenon, <2>1, <3>1, <4>1, <4>2
    <3>3. CASE ~ Skipped(e)
      <4>1. Cardinality(Kept') = Cardinality(Kept) + 1
        BY Zenon, <1>3, <2>7, <2>8, <3>3, ListedMore
      <4>2. index = current_index + 1 /\ current_index # call.index
        BY Zenon, <1>8, <2>11, <3>1, <3>3 DEF Counted, Wanted
      <4>3. current_index + 1 <= call.index
        BY <3>1, <4>2
      <4> QED
        BY Zenon, <2>1, <3>1, <4>1, <4>2, <4>3
    <3> QED
      BY Zenon, <3>2, <3>3
  <2>12. ASSUME call.op = "finddir", NEW p \in Kept' PROVE NameOf(EntryAt(p)') # call'.name
    <3>1. ASSUME p \in Kept PROVE NameOf(EntryAt(p)') # call'.name
      BY Zenon, <2>1, <2>6, <2>9, <2>12, <3>1 DEF Passed
    <3>2. CASE Skipped(e)
      BY ZenonT(30), <1>3, <2>7, <2>8, <2>12, <3>1, <3>2, ListedMore
    <3>3. CASE ~ Skipped(e)
      <4>1. p \in Kept \/ p = Place
        <5>1. ListedIn(vol, Place + 1) = ListedIn(vol, Place) \cup {Place}
          BY ZenonT(30), <1>3, <2>8, <3>3, ListedMore
        <5>2. p \in ListedIn(vol, Place + 1)
          BY Zenon, <2>7, <2>12
        <5>3. p \in ListedIn(vol, Place) \/ p = Place
          BY Zenon, <5>1, <5>2
        <5> QED
          BY Zenon, <2>7, <5>3
      <4>2. NameOf(e) # call.name
        BY Zenon, <1>8, <2>12, <3>3 DEF Wanted
      <4> QED
        BY Zenon, <1>3, <2>1, <2>6, <3>1, <4>1, <4>2
    <3> QED
      BY Zenon, <3>2, <3>3
  <2>13. Passed'
    BY Zenon, <2>1, <2>10, <2>11, <2>12 DEF Passed
  <2>14. entry' <= dir_entries_per_cluster
    BY <1>1, <2>1, FatSizes
  <2>15. ClusterAt(root_cluster, walked)' = ClusterAt(root_cluster, walked)
    BY Zenon, <2>1 DEF ClusterAt
  <2>16. doing' # "scan" /\ doing' # "idle" /\ failed' = FALSE
    BY <1>1, <2>1
  <2>17. WalksKeep'
    BY Zenon, <2>16 DEF WalksKeep, Returned
  <2>18. WalkInv'
    BY Zenon, <1>1, <2>1, <2>13, <2>14, <2>15, <2>16, <2>17 DEF FatInv, WalkInv
  <2> QED
    BY Zenon, <2>3, <2>4, <2>18 DEF FatInv
<1> QED
  BY Zenon, <1>6, <1>7, <1>8 DEF ScanEntry, e

LEMMA NextClusterStep ==
  ASSUME FatInv, ScanNext
  PROVE  FatInv'
<1>1. /\ doing = "entries" /\ doing' = "scan" /\ entry = dir_entries_per_cluster
      /\ entry' = 0 /\ walked' = walked + 1
      /\ UNCHANGED <<vol, fs_root, node, call, offset, size, current_index, out, result, buffers>>
  BY Zenon DEF ScanNext
<1>2. PICK ok \in BOOLEAN : cluster' = get_next_cluster(cluster, ok) /\ failed' = (failed \/ ~ ok)
  BY Zenon DEF ScanNext
<1>3. /\ failed = FALSE /\ cluster \in DOMAIN vol.entries
      /\ cluster = ClusterAt(root_cluster, walked) /\ Passed /\ Walk(call.op)
  <2>1. doing # "scan" /\ failed \in BOOLEAN
    BY <1>1 DEF FatInv, FatTyped
  <2>2. failed = FALSE
    BY Zenon, <1>1, <2>1 DEF FatInv, WalkInv
  <2> QED
    BY Zenon, <1>1, <2>2 DEF FatInv, WalkInv, Walk
<1>4. vol \in Volumes /\ walked \in Nat /\ cluster < EOC /\ cluster \in Clusters
  BY Zenon, <1>3, VolumeType, EocIsAbove DEF FatInv, FatTyped
<1>5. cluster' \in Clusters /\ walked + 1 \in Nat /\ 0 \in Nat
  <2>1. cluster' \in Clusters
    BY Zenon, <1>2, <1>4, GetsNext
  <2> QED
    BY <1>4, <2>1
<1>6. FatTyped'
  <2>1. failed' \in BOOLEAN
    BY Zenon, <1>2
  <2> QED
    BY Zenon, <1>1, <1>5, <2>1 DEF FatInv, FatTyped
<1>7. Held' /\ Booting' /\ ReadInv'
  BY <1>1 DEF FatInv, Held, Booting, ReadInv, Returned
<1>8. Place' = Place
  <2>1. walked * dir_entries_per_cluster \in Nat
        /\ (walked + 1) * dir_entries_per_cluster = walked * dir_entries_per_cluster + dir_entries_per_cluster
    BY <1>4, FatSizes
  <2>2. Place' = (walked + 1) * dir_entries_per_cluster + 0
    BY Zenon, <1>1 DEF Place
  <2>3. Place = walked * dir_entries_per_cluster + dir_entries_per_cluster
    BY Zenon, <1>1 DEF Place
  <2> QED
    BY <2>1, <2>2, <2>3, FatSizes
<1>9. \A p : EntryAt(p)' = EntryAt(p)
  BY Zenon, <1>1 DEF EntryAt, ClusterAt
<1>10. Kept' = Kept
  BY Zenon, <1>8, <1>9 DEF Kept
<1>11. Passed'
  BY Zenon, <1>1, <1>3, <1>8, <1>9, <1>10 DEF Passed
<1>12. cluster' \in DOMAIN vol'.entries \cup {EOC}
  <2>1. vol.fat[cluster] \in DOMAIN vol.entries \cup {EOC}
    BY Zenon, <1>3, <1>4, VolumeType
  <2> QED
    BY Zenon, <1>1, <1>2, <2>1 DEF get_next_cluster
<1>13. failed' => cluster' = EOC
  BY Zenon, <1>2, <1>3 DEF get_next_cluster
<1>14. ~ failed' => cluster' = ClusterAt(root_cluster, walked)'
  <2> SUFFICES ASSUME ~ failed' PROVE cluster' = ClusterAt(root_cluster, walked)'
    BY Zenon
  <2>1. ok = TRUE
    BY Zenon, <1>2
  <2>2. get_next_cluster(cluster, TRUE) = ClusterAt(root_cluster, walked + 1)
    BY Zenon, <1>3, <1>4, GetsFollowing
  <2>3. ClusterAt(root_cluster, walked)' = ClusterAt(root_cluster, walked + 1)
    BY Zenon, <1>1 DEF ClusterAt
  <2> QED
    BY Zenon, <1>2, <2>1, <2>2, <2>3
<1>15. doing' # "entries" /\ doing' # "idle"
  BY <1>1
<1>16. WalksKeep'
  BY Zenon, <1>15 DEF WalksKeep, Returned
<1>17. WalkInv'
  BY Zenon, <1>1, <1>3, <1>11, <1>12, <1>13, <1>14, <1>15, <1>16 DEF WalkInv, Walk
<1> QED
  BY Zenon, <1>6, <1>7, <1>17 DEF FatInv
-----------------------------------------------------------------------------
(* The file system: reading *)

LEMMA RowBefore ==
  ASSUME NEW p \in Nat, NEW d \in Nat \ {0}, NEW n \in Nat, n * d <= p
  PROVE  p \div d \in Nat /\ n <= p \div d
<1>1. p \div d \in Nat /\ p % d \in 0 .. d - 1 /\ p = (p \div d) * d + (p % d)
  BY Zenon, Division
<1>2. p \div d < n => (p \div d) * d + d <= n * d
  BY Zenon, <1>1, Rows
<1>3. (p \div d) * d \in Nat /\ n * d \in Nat
  BY <1>1
<1> DEFINE q == p \div d
           a == q * d
           b == n * d
           c == p % d
<1>4. /\ q \in Nat /\ a \in Nat /\ b \in Nat /\ c \in 0 .. d - 1 /\ p = a + c /\ b <= p
      /\ (q < n => a + d <= b)
  BY Zenon, <1>1, <1>2, <1>3
<1> HIDE DEF q, a, b, c
<1>5. ~ (q < n)
  BY <1>4
<1>6. n <= q
  BY <1>4, <1>5
<1> QED
  BY Zenon, <1>1, <1>6 DEF q

InRow(p, n, d, k) == p = n * d + k

LEMMA RowOf ==
  ASSUME NEW n \in Nat, NEW d \in Nat \ {0}, NEW k \in 0 .. d - 1, NEW p \in Nat, InRow(p, n, d, k)
  PROVE  p \div d = n /\ p % d = k
<1>1. p \div d \in Nat /\ p % d \in 0 .. d - 1 /\ p = (p \div d) * d + (p % d)
  BY Zenon, Division
<1> DEFINE q == p \div d
           s == p % d
<1>2. q \in Nat /\ s \in 0 .. d - 1 /\ n * d + k = q * d + s
  BY Zenon, <1>1 DEF InRow
<1> HIDE DEF q, s
<1>3. n = q /\ k = s
  BY <1>2, OneRow
<1> QED
  BY Zenon, <1>3 DEF q, s

LEMMA SkipStep ==
  ASSUME FatInv, Skip
  PROVE  FatInv'
<1>1. /\ doing = "skip" /\ offset >= cluster_size /\ node' = node /\ result' = result
  BY Zenon DEF Skip
<1>2. PICK ok \in BOOLEAN :
        LET next == get_next_cluster(cluster, ok)
        IN /\ failed' = (failed \/ ~ ok)
           /\ IF next >= EOC
              THEN Done(0)
              ELSE /\ cluster' = next
                   /\ offset' = offset - cluster_size
                   /\ UNCHANGED <<vol, fs_root, doing, call, size, entry, current_index, walked,
                                  out, buffers>>
  BY Zenon DEF Skip
<1>3. /\ call.op = "read" /\ failed = FALSE /\ out = <<>> /\ size = call.size
      /\ \E n \in Nat : Positioned(n)
  BY Zenon, <1>1 DEF FatInv, ReadInv, FatTyped
<1>4. PICK n \in Nat : Positioned(n)
  BY Zenon, <1>3
<1>5. /\ vol \in Volumes /\ cluster \in Clusters /\ cluster < EOC /\ buffers = 0
      /\ offset \in Nat /\ call.offset \in Nat /\ call.size \in Nat
  BY <1>1, <1>4 DEF FatInv, FatTyped, Held, Positioned
<1> DEFINE next == get_next_cluster(cluster, ok)
<1>6. next \in Clusters
  BY Zenon, <1>5, GetsNext
<1>7. ok => next = ClusterAt(node.inode, n + 1)
  BY Zenon, <1>4, <1>5, GetsFollowing DEF Positioned
<1>8. failed' = ~ ok
  BY Zenon, <1>2, <1>3
<1>9. call.offset = n * cluster_size + offset /\ n * cluster_size \in Nat /\ n + 1 \in Nat
      /\ (n + 1) * cluster_size = n * cluster_size + cluster_size
  <2>1. call.offset + Len(out) = n * cluster_size + offset /\ Len(out) = 0
    BY <1>3, <1>4 DEF Positioned
  <2>2. n * cluster_size \in Nat /\ (n + 1) * cluster_size = n * cluster_size + cluster_size
    BY FatSizes
  <2> QED
    BY <1>5, <2>1, <2>2
<1> HIDE DEF next
<1>10. CASE next >= EOC
  <2>1. Done(0)
    BY Zenon, <1>2, <1>10 DEF next
  <2>2. FatTyped'
    BY Zenon, <1>1, <1>8, <2>1 DEF FatInv, FatTyped, Done, args
  <2>3. doing' = "idle" /\ buffers' = 0 /\ call' = call /\ out' = out /\ vol' = vol
    BY <1>5, <2>1 DEF Done
  <2>4. Held' /\ Booting'
    BY <2>3 DEF Held, Booting
  <2>5. Len(out') = 0
    BY <1>3, <2>3
  <2>6. ASSUME ~ failed' PROVE ClusterOf(node.inode, call.offset + Len(out))' >= EOC
    <3>1. NthCluster(vol.fat, node.inode, n + 1) >= EOC
      BY Zenon, <1>7, <1>8, <1>10, <2>6 DEF ClusterAt
    <3>2. (n + 1) * cluster_size <= call.offset
      BY <1>1, <1>5, <1>9, FatSizes
    <3>3. call.offset \div cluster_size \in Nat /\ n + 1 <= call.offset \div cluster_size
      BY Zenon, <1>5, <1>9, <3>2, FatSizes, RowBefore
    <3>4. NthCluster(vol.fat, node.inode, call.offset \div cluster_size) >= EOC
      BY Zenon, <1>9, <3>1, <3>3, EndStays
    <3>5. call'.offset + Len(out') = call.offset
      BY <1>5, <2>3, <2>5
    <3> QED
      BY Zenon, <1>1, <2>3, <3>4, <3>5 DEF ClusterOf, ClusterAt
  <2>7. Delivered'
    <3>1. Len(out') <= call'.size /\ 1..Len(out') = {}
      BY <1>5, <2>3, <2>5
    <3> QED
      BY Zenon, <2>6, <3>1 DEF Delivered, Copied
  <2>8. doing' # "skip" /\ doing' # "copy" /\ doing' # "scan" /\ doing' # "entries"
    BY <2>3
  <2>9. ReadInv'
    BY Zenon, <2>7, <2>8 DEF ReadInv
  <2>10. call'.op # "readdir" /\ call'.op # "finddir"
    BY <1>3, <2>3
  <2>11. WalkInv'
    BY <2>8, <2>10 DEF WalkInv, WalksKeep, Returned
  <2> QED
    BY Zenon, <2>2, <2>4, <2>9, <2>11 DEF FatInv
<1>11. CASE ~ (next >= EOC)
  <2>1. /\ cluster' = next /\ offset' = offset - cluster_size
        /\ UNCHANGED <<vol, fs_root, doing, call, size, entry, current_index, walked, out, buffers>>
    BY Zenon, <1>2, <1>11 DEF next
  <2>2. next < EOC
    BY Zenon, <1>6, <1>11, ClusterBelow
  <2>3. ok
    <3>1. EOC >= EOC
      BY EocIsAbove
    <3> QED
      BY Zenon, <1>11, <3>1 DEF next, get_next_cluster
  <2>4. offset - cluster_size \in Nat
    BY <1>1, <1>5, FatSizes
  <2>5. FatTyped'
    BY Zenon, <1>1, <1>6, <1>8, <2>1, <2>4 DEF FatInv, FatTyped
  <2>6. Held' /\ Booting'
    BY <1>1, <1>5, <2>1 DEF Held, Booting
  <2>7. Positioned(n + 1)'
    <3>1. ClusterAt(node.inode, n + 1)' = ClusterAt(node.inode, n + 1)
      BY Zenon, <1>1, <2>1 DEF ClusterAt
    <3>2. Len(out') = 0 /\ call'.offset = call.offset
      BY <1>3, <2>1
    <3>3. call.offset + 0 = (n + 1) * cluster_size + (offset - cluster_size)
      BY <1>5, <1>9, FatSizes
    <3> QED
      BY Zenon, <1>7, <2>1, <2>2, <2>3, <3>1, <3>2, <3>3 DEF Positioned
  <2>8. ReadInv'
    <3>1. doing' # "copy" /\ doing' # "idle" /\ failed' = FALSE
      BY ZenonT(30), <1>1, <1>8, <2>1, <2>3
    <3>2. \E m \in Nat : Positioned(m)'
      BY Zenon, <1>9, <2>7
    <3> QED
      BY Zenon, <1>3, <2>1, <3>1, <3>2 DEF ReadInv, Returned
  <2>9. WalkInv'
    BY <1>1, <2>1 DEF WalkInv, WalksKeep, Returned
  <2> QED
    BY Zenon, <2>5, <2>6, <2>8, <2>9 DEF FatInv
<1> QED
  BY Zenon, <1>10, <1>11

LEMMA AllocateStep ==
  ASSUME FatInv, Allocate
  PROVE  FatInv'
<1>1. /\ doing = "skip" /\ offset < cluster_size /\ doing' = "copy" /\ buffers' = buffers + 1
      /\ UNCHANGED <<vol, fs_root, node, call, args, out, result, failed>>
  BY Zenon DEF Allocate
<1>2. FatTyped'
  BY Zenon, <1>1 DEF FatInv, FatTyped, args
<1>3. Held' /\ Booting'
  BY <1>1 DEF FatInv, Held, Booting
<1>4. /\ call.op = "read" /\ failed = FALSE /\ out = <<>> /\ size = call.size
      /\ \E n \in Nat : Positioned(n)
  BY Zenon, <1>1 DEF FatInv, ReadInv, FatTyped
<1>5. PICK n \in Nat : Positioned(n)
  BY Zenon, <1>4
<1>6. Positioned(n)'
  BY Zenon, <1>1, <1>5 DEF Positioned, ClusterAt, args
<1>7. Len(out') + size' = call'.size /\ 1..Len(out') = {}
  BY <1>1, <1>4 DEF args, FatInv, FatTyped
<1>8. Copied'
  BY Zenon, <1>7 DEF Copied
<1>9. ReadInv'
  <2>1. doing' # "skip" /\ doing' # "idle"
    BY <1>1
  <2>2. offset' < cluster_size /\ call'.op = "read" /\ ~ failed'
    BY <1>1, <1>4 DEF args
  <2> QED
    BY Zenon, <1>6, <1>7, <1>8, <2>1, <2>2 DEF ReadInv, Returned
<1>10. WalkInv'
  BY <1>1 DEF WalkInv, WalksKeep, Returned
<1> QED
  BY Zenon, <1>2, <1>3, <1>9, <1>10 DEF FatInv

\* A read gives back what it has copied.
LEMMA ReadEnds ==
  ASSUME FatInv, doing = "copy", Done(1), node' = node, result' = result, failed' \in BOOLEAN,
         failed' \/ size = 0
  PROVE  FatInv'
<1>1. FatTyped'
  BY Zenon DEF FatInv, FatTyped, Done, args
<1>2. doing' = "idle" /\ buffers' = 0 /\ call' = call /\ out' = out /\ vol' = vol
  BY DEF FatInv, Held, Done
<1>3. Held' /\ Booting'
  BY <1>2 DEF Held, Booting
<1>4. call.op = "read" /\ Len(out) + size = call.size /\ Copied
  BY Zenon DEF FatInv, ReadInv
<1>5. Len(out) \in Nat /\ size \in Nat /\ call.size \in Nat
  BY DEF FatInv, FatTyped
<1>6. Len(out) <= call.size /\ (size = 0 => ~ (Len(out) < call.size))
  BY <1>4, <1>5
<1>7. Copied'
  BY Zenon, <1>2, <1>4 DEF Copied, ClusterOf, ClusterAt, FileByte
<1>8. Delivered'
  BY Zenon, <1>2, <1>6, <1>7 DEF Delivered
<1>9. doing' # "skip" /\ doing' # "copy" /\ doing' # "scan" /\ doing' # "entries"
  BY <1>2
<1>10. ReadInv'
  BY Zenon, <1>8, <1>9 DEF ReadInv
<1>11. call'.op # "readdir" /\ call'.op # "finddir"
  BY <1>2, <1>4
<1>12. WalkInv'
  BY <1>9, <1>11 DEF WalkInv, WalksKeep, Returned
<1> QED
  BY Zenon, <1>1, <1>3, <1>10, <1>12 DEF FatInv

\* The chunk lies within the cluster and within what is still asked for.
LEMMA ChunkSize ==
  ASSUME FatInv, doing = "copy", size > 0
  PROVE  /\ chunk_size \in Nat \ {0} /\ offset + chunk_size <= cluster_size
         /\ size - chunk_size \in Nat
         /\ size - chunk_size > 0 => offset + chunk_size = cluster_size
         /\ Chunk \in Seq(Clusters \X Nat) /\ Len(Chunk) = chunk_size
         /\ \A k \in 1..chunk_size : Chunk[k] = Byte(cluster, offset + k)
<1>1. /\ offset \in Nat /\ size \in Nat /\ cluster \in Clusters /\ offset < cluster_size
  BY Zenon DEF FatInv, FatTyped, ReadInv
<1>2. /\ chunk_size \in Nat \ {0} /\ offset + chunk_size <= cluster_size
      /\ size - chunk_size \in Nat
      /\ size - chunk_size > 0 => offset + chunk_size = cluster_size
  BY <1>1, FatSizes DEF chunk_size
<1>3. \A k \in 1..chunk_size : Byte(cluster, offset + k) \in Clusters \X Nat
  BY <1>1, <1>2 DEF Byte
<1>4. Chunk \in Seq(Clusters \X Nat) /\ Len(Chunk) = chunk_size
  <2> DEFINE n == chunk_size
             B(k) == Byte(cluster, offset + k)
  <2>1. n \in Nat /\ \A k \in 1..n : B(k) \in Clusters \X Nat
    BY Zenon, <1>2, <1>3
  <2>2. Chunk = [k \in 1..n |-> B(k)]
    BY Zenon DEF Chunk
  <2> HIDE DEF n, B
  <2>3. Chunk \in Seq(Clusters \X Nat) /\ Len(Chunk) = n
    BY <2>1, <2>2
  <2> QED
    BY Zenon, <2>3 DEF n
<1>5. \A k \in 1..chunk_size : Chunk[k] = Byte(cluster, offset + k)
  BY Zenon DEF Chunk
<1> QED
  BY Zenon, <1>2, <1>4, <1>5

Joined(a, b, c) == /\ Len(a) \in Nat /\ Len(c) = Len(a) + Len(b)
                   /\ \A k \in 1..Len(a) : c[k] = a[k]
                   /\ \A k \in 1..Len(b) : c[Len(a) + k] = b[k]

LEMMA Appended ==
  ASSUME NEW S, NEW a \in Seq(S), NEW b \in Seq(S)
  PROVE  Joined(a, b, a \o b)
  BY DEF Joined

At(start, len, n, d, o) == start + len = n * d + o

Room(o, c, d) == o + c <= d
InChunk(start, len, n, d, o, c, k) == /\ k - len \in 1..c /\ k = len + (k - len)
                                      /\ (start + k - 1) \div d = n
                                      /\ ((start + k - 1) % d) + 1 = o + (k - len)

\* Byte m of the chunk is byte r of the file's cluster n.
LEMMA ByteRow ==
  ASSUME NEW start \in Nat, NEW len \in Nat, NEW n \in Nat, NEW d \in Nat \ {0}, NEW o \in Nat,
         At(start, len, n, d, o), NEW c \in Nat, Room(o, c, d),
         NEW k \in 1 .. len + c, k \notin 1..len
  PROVE  InChunk(start, len, n, d, o, c, k)
<1> DEFINE p == start + k - 1
           r == (o + (k - len)) - 1
<1>1. k - len \in 1..c /\ k = len + (k - len)
  OBVIOUS
<1>2. r \in 0 .. d - 1 /\ r + 1 = o + (k - len)
  BY <1>1 DEF Room
<1>3. p \in Nat /\ InRow(p, n, d, r)
  <2>1. n * d \in Nat
    OBVIOUS
  <2> DEFINE w == n * d
  <2>2. w \in Nat /\ start + len = w + o
    BY <2>1 DEF At
  <2> HIDE DEF w
  <2>3. p \in Nat /\ p = w + r
    BY <1>1, <2>2
  <2> QED
    BY Zenon, <2>3 DEF w, InRow
<1> HIDE DEF p, r
<1>4. p \div d = n /\ p % d = r
  <2>1. r \in 0 .. d - 1
    BY Zenon, <1>2
  <2> QED
    BY <2>1, <1>3, RowOf
<1>5. (p % d) + 1 = o + (k - len)
  BY Zenon, <1>2, <1>4
<1> QED
  BY Zenon, <1>1, <1>4, <1>5 DEF p, InChunk

LEMMA CopiesMore ==
  ASSUME FatInv, doing = "copy", size > 0, out' = out \o Chunk,
         vol' = vol, node' = node, call' = call, NEW n \in Nat, Positioned(n)
  PROVE  Copied' /\ Len(out') = Len(out) + chunk_size
<1>1. /\ chunk_size \in Nat \ {0} /\ offset + chunk_size <= cluster_size
      /\ Chunk \in Seq(Clusters \X Nat) /\ Len(Chunk) = chunk_size
      /\ \A k \in 1..chunk_size : Chunk[k] = Byte(cluster, offset + k)
  BY Zenon, ChunkSize
<1>2. /\ out \in Seq(Clusters \X Nat) /\ Copied /\ offset \in Nat /\ call.offset \in Nat
      /\ cluster = ClusterAt(node.inode, n) /\ cluster < EOC
      /\ call.offset + Len(out) = n * cluster_size + offset
  BY Zenon DEF FatInv, FatTyped, ReadInv, Positioned
<1>3. /\ Len(out) \in Nat /\ Len(out') = Len(out) + chunk_size
      /\ \A k \in 1..Len(out) : out'[k] = out[k]
      /\ \A k \in 1..chunk_size : out'[Len(out) + k] = Chunk[k]
  <2> DEFINE o == out
             b == Chunk
  <2>1. o \in Seq(Clusters \X Nat) /\ b \in Seq(Clusters \X Nat)
    BY Zenon, <1>1, <1>2
  <2> HIDE DEF o, b
  <2>2. Joined(o, b, o \o b)
    BY Zenon, <2>1, Appended
  <2> QED
    BY Zenon, <1>1, <2>2 DEF Joined, o, b
<1>4. /\ \A p : ClusterOf(node.inode, p)' = ClusterOf(node.inode, p)
      /\ \A p : FileByte(node.inode, p)' = FileByte(node.inode, p)
  BY Zenon DEF ClusterOf, ClusterAt, FileByte
<1>5. ASSUME NEW k \in 1..Len(out')
      PROVE  /\ ClusterOf(node.inode, call.offset + k - 1) < EOC
             /\ out'[k] = FileByte(node.inode, call.offset + k - 1)
  <2>1. CASE k \in 1..Len(out)
    BY Zenon, <1>2, <1>3, <2>1 DEF Copied
  <2>2. CASE k \notin 1..Len(out)
    <3> DEFINE m == k - Len(out)
               p == call.offset + k - 1
    <3>1. k \in 1 .. Len(out) + chunk_size
      BY Zenon, <1>3, <1>5
    <3>2. /\ m \in 1..chunk_size /\ k = Len(out) + m
          /\ p \div cluster_size = n /\ (p % cluster_size) + 1 = offset + m
      <4>1. chunk_size \in Nat
        BY <1>1
      <4>2. At(call.offset, Len(out), n, cluster_size, offset)
        BY Zenon, <1>2 DEF At
      <4>3. Room(offset, chunk_size, cluster_size)
        BY Zenon, <1>1 DEF Room
      <4>4. /\ Len(out) \in Nat /\ offset \in Nat /\ call.offset \in Nat
            /\ cluster_size \in Nat \ {0}
        BY Zenon, <1>2, <1>3, FatSizes
      <4>5. InChunk(call.offset, Len(out), n, cluster_size, offset, chunk_size, k)
        BY Zenon, <2>2, <3>1, <4>1, <4>2, <4>3, <4>4, ByteRow
      <4> QED
        BY Zenon, <4>5 DEF InChunk
    <3> HIDE DEF m, p
    <3>3. ClusterOf(node.inode, p) = cluster
      BY Zenon, <1>2, <3>2 DEF ClusterOf
    <3>4. FileByte(node.inode, p) = Byte(cluster, offset + m)
      BY Zenon, <3>2, <3>3 DEF FileByte
    <3>5. out'[k] = Byte(cluster, offset + m)
      BY Zenon, <1>1, <1>3, <3>2
    <3> QED
      BY Zenon, <1>2, <3>3, <3>4, <3>5 DEF p
  <2> QED
    BY Zenon, <2>1, <2>2
<1> QED
  BY Zenon, <1>3, <1>4, <1>5 DEF Copied

Filled(o, c, d) == o + c = d

LEMMA NextRow ==
  ASSUME NEW start \in Nat, NEW len \in Nat, NEW n \in Nat, NEW d \in Nat \ {0}, NEW o \in Nat,
         At(start, len, n, d, o), NEW c \in Nat \ {0}, Filled(o, c, d)
  PROVE  At(start, len + c, n + 1, d, 0) /\ n + 1 \in Nat
<1>1. n * d \in Nat /\ (n + 1) * d = n * d + d
  OBVIOUS
<1> DEFINE w == n * d
<1>2. w \in Nat /\ start + len = w + o /\ (n + 1) * d = w + d
  BY <1>1 DEF At
<1> DEFINE v == (n + 1) * d
<1>3. v = w + d
  BY <1>2
<1> HIDE DEF w, v
<1>4. start + (len + c) = v + 0
  BY <1>2, <1>3 DEF Filled
<1> QED
  BY <1>4 DEF v, At

LEMMA CopyStep ==
  ASSUME FatInv, Copy
  PROVE  FatInv'
<1>1. doing = "copy" /\ size > 0 /\ node' = node /\ result' = result
  BY Zenon DEF Copy
<1>2. CASE failed' = TRUE /\ Done(1)
  BY Zenon, <1>1, <1>2, ReadEnds
<1>3. CASE /\ out' = out \o Chunk /\ size' = size - chunk_size /\ offset' = OffsetNext /\ CopyNext
           /\ UNCHANGED <<vol, fs_root, call, entry, current_index, walked>>
  <2>1. /\ call.op = "read" /\ failed = FALSE /\ buffers = 1 /\ offset < cluster_size
        /\ Len(out) + size = call.size /\ \E n \in Nat : Positioned(n)
    BY <1>1 DEF FatInv, ReadInv, FatTyped, Held
  <2>2. PICK n \in Nat : Positioned(n)
    BY Zenon, <2>1
  <2>3. /\ chunk_size \in Nat \ {0} /\ offset + chunk_size <= cluster_size
        /\ size - chunk_size \in Nat
        /\ size - chunk_size > 0 => offset + chunk_size = cluster_size
        /\ Chunk \in Seq(Clusters \X Nat) /\ Len(Chunk) = chunk_size
    BY Zenon, <1>1, ChunkSize
  <2>4. Copied' /\ Len(out') = Len(out) + chunk_size
    BY Zenon, <1>1, <1>3, <2>2, CopiesMore
  <2>5. /\ vol \in Volumes /\ cluster \in Clusters /\ cluster < EOC /\ offset \in Nat /\ size \in Nat
        /\ call.offset \in Nat /\ call.size \in Nat /\ out \in Seq(Clusters \X Nat)
        /\ Len(out) \in Nat
    BY <2>2 DEF FatInv, FatTyped, Positioned
  <2>6. out' \in Seq(Clusters \X Nat) /\ offset' = 0
    BY <1>3, <2>3, <2>5 DEF OffsetNext
  <2>7. ASSUME cluster' \in Clusters, failed' \in BOOLEAN PROVE FatTyped'
    BY Zenon, <1>1, <1>3, <2>3, <2>6, <2>7, 0 \in Nat DEF FatInv, FatTyped
  <2>8. Len(out') + size' = call'.size
    BY <1>3, <2>1, <2>3, <2>4, <2>5
  <2>9. call'.op = "read" /\ call' = call /\ vol' = vol
    BY Zenon, <1>3, <2>1
  <2>10. CASE size - chunk_size > 0
    <3>1. PICK ok \in BOOLEAN :
            LET next == get_next_cluster(cluster, ok)
            IN /\ cluster' = next
               /\ failed' = (failed \/ ~ ok)
               /\ IF next >= EOC
                  THEN doing' = "idle" /\ buffers' = buffers - 1
                  ELSE UNCHANGED <<doing, buffers>>
      BY Zenon, <1>3, <2>10 DEF CopyNext
    <3>2. cluster' \in Clusters /\ failed' = ~ ok
      BY Zenon, <2>1, <2>5, <3>1, GetsNext
    <3>3. FatTyped'
      BY Zenon, <2>7, <3>2
    <3>4. ok => cluster' = ClusterAt(node.inode, n + 1)
      BY Zenon, <2>2, <2>5, <3>1, GetsFollowing DEF Positioned
    <3>5. call.offset + Len(out') = (n + 1) * cluster_size + 0 /\ n + 1 \in Nat
      <4>1. At(call.offset, Len(out), n, cluster_size, offset)
        BY Zenon, <2>2 DEF Positioned, At
      <4>2. Filled(offset, chunk_size, cluster_size)
        BY Zenon, <2>3, <2>10 DEF Filled
      <4>3. At(call.offset, Len(out) + chunk_size, n + 1, cluster_size, 0) /\ n + 1 \in Nat
        <5>1. /\ chunk_size \in Nat \ {0} /\ call.offset \in Nat /\ Len(out) \in Nat
              /\ offset \in Nat /\ cluster_size \in Nat \ {0}
          BY Zenon, <2>3, <2>5, FatSizes
        <5> QED
          BY Zenon, <4>1, <4>2, <5>1, NextRow
      <4> QED
        BY Zenon, <2>4, <4>3 DEF At
    <3>6. ClusterAt(node.inode, n + 1)' = ClusterAt(node.inode, n + 1)
      BY Zenon, <1>1, <2>9 DEF ClusterAt
    <3>7. CASE cluster' >= EOC
      <4>1. doing' = "idle" /\ buffers' = 0
        BY <2>1, <3>1, <3>7
      <4>2. Held' /\ Booting'
        BY <4>1 DEF Held, Booting
      <4>3. ASSUME ~ failed' PROVE ClusterOf(node.inode, call.offset + Len(out))' >= EOC
        <5>1. PICK p : p = call.offset + Len(out')
          OBVIOUS
        <5>2. p \in Nat /\ p = (n + 1) * cluster_size + 0 /\ 0 \in 0 .. cluster_size - 1
          BY <2>3, <2>4, <2>5, <3>5, <5>1, FatSizes
        <5>3. p \div cluster_size = n + 1
          <6>1. InRow(p, n + 1, cluster_size, 0) /\ n + 1 \in Nat
            BY Zenon, <3>5, <5>2 DEF InRow
          <6>2. p \in Nat /\ 0 \in 0 .. cluster_size - 1 /\ cluster_size \in Nat \ {0}
            BY Zenon, <5>2, FatSizes
          <6> QED
            BY Zenon, <6>1, <6>2, RowOf
        <5>4. ClusterOf(node.inode, call.offset + Len(out))' = ClusterAt(node.inode, n + 1)
          BY Zenon, <1>1, <2>9, <5>1, <5>3, <3>6 DEF ClusterOf
        <5> QED
          BY Zenon, <3>2, <3>4, <3>7, <4>3, <5>4
      <4>4. Delivered'
        <5>1. Len(out') <= call'.size
          BY <1>3, <2>3, <2>4, <2>5, <2>8, <2>9
        <5> QED
          BY Zenon, <2>4, <4>3, <5>1 DEF Delivered
      <4>5. doing' # "skip" /\ doing' # "copy" /\ doing' # "scan" /\ doing' # "entries"
        BY <4>1
      <4>6. ReadInv'
        BY Zenon, <4>4, <4>5 DEF ReadInv
      <4>7. call'.op # "readdir" /\ call'.op # "finddir"
        BY <2>9
      <4>8. WalkInv'
        BY <4>5, <4>7 DEF WalkInv, WalksKeep, Returned
      <4> QED
        BY Zenon, <3>3, <4>2, <4>6, <4>8 DEF FatInv
    <3>8. CASE ~ (cluster' >= EOC)
      <4>1. doing' = "copy" /\ buffers' = 1
        BY <1>1, <2>1, <3>1, <3>8
      <4>2. Held' /\ Booting'
        BY <4>1 DEF Held, Booting
      <4>3. ok
        <5>1. EOC >= EOC
          BY EocIsAbove
        <5> QED
          BY Zenon, <3>1, <3>8, <5>1 DEF get_next_cluster
      <4>4. cluster' < EOC
        BY Zenon, <3>2, <3>8, ClusterBelow
      <4>5. Positioned(n + 1)'
        BY Zenon, <2>6, <2>9, <3>4, <3>5, <3>6, <4>3, <4>4 DEF Positioned
      <4>6. ReadInv'
        <5>1. doing' # "skip" /\ doing' # "idle" /\ failed' = FALSE /\ offset' < cluster_size
          <6>1. 0 < cluster_size
            BY FatSizes
          <6>2. failed' = FALSE
            BY Zenon, <3>2, <4>3
          <6> QED
            BY <2>6, <4>1, <6>1, <6>2
        <5> QED
          BY ZenonT(30), <2>4, <2>8, <2>9, <3>5, <4>5, <5>1 DEF ReadInv, Returned
      <4>7. WalkInv'
        BY <4>1 DEF WalkInv, WalksKeep, Returned
      <4> QED
        BY Zenon, <3>3, <4>2, <4>6, <4>7 DEF FatInv
    <3> QED
      BY Zenon, <3>7, <3>8
  <2>11. CASE ~ (size - chunk_size > 0)
    <3>1. UNCHANGED <<cluster, failed, doing, buffers>>
      BY Zenon, <1>3, <2>11 DEF CopyNext
    <3>2. FatTyped'
      BY Zenon, <2>1, <2>5, <2>7, <3>1
    <3>3. doing' = "copy" /\ buffers' = 1 /\ failed' = FALSE /\ ~ (size' > 0)
      BY <1>1, <1>3, <2>1, <2>11, <3>1
    <3>4. Held' /\ Booting'
      BY <3>3 DEF Held, Booting
    <3>5. ReadInv'
      <4>1. doing' # "skip" /\ doing' # "idle"
        BY <3>3
      <4> QED
        BY Zenon, <2>4, <2>8, <2>9, <3>3, <4>1 DEF ReadInv, Returned
    <3>6. WalkInv'
      BY <3>3 DEF WalkInv, WalksKeep, Returned
    <3> QED
      BY Zenon, <3>2, <3>4, <3>5, <3>6 DEF FatInv
  <2> QED
    BY Zenon, <2>10, <2>11
<1> QED
  BY Zenon, <1>2, <1>3 DEF Copy

LEMMA CopyEndsStep ==
  ASSUME FatInv, CopyEnds
  PROVE  FatInv'
<1>1. doing = "copy" /\ size = 0 /\ Done(1) /\ node' = node /\ result' = result /\ failed' = failed
  BY Zenon DEF CopyEnds
<1>2. failed' \in BOOLEAN
  BY Zenon, <1>1 DEF FatInv, FatTyped
<1> QED
  BY Zenon, <1>1, <1>2, ReadEnds

LEMMA FatStutters ==
  ASSUME FatInv, UNCHANGED fat_vars
  PROVE  FatInv'
<1>1. /\ vol' = vol /\ fs_root' = fs_root /\ node' = node /\ doing' = doing /\ call' = call
      /\ cluster' = cluster /\ offset' = offset /\ size' = size
      /\ entry' = entry /\ current_index' = current_index /\ walked' = walked
      /\ out' = out /\ result' = result /\ buffers' = buffers /\ failed' = failed
  BY Zenon DEF fat_vars, args
<1>2. FatTyped'
  BY Zenon, <1>1 DEF FatInv, FatTyped
<1>3. Held' /\ Booting'
  BY Zenon, <1>1 DEF FatInv, Held, Booting
<1>4. \A op : Returned(op)' <=> Returned(op)
  BY Zenon, <1>1 DEF Returned
<1>5. /\ \A f, n : ClusterAt(f, n)' = ClusterAt(f, n)
      /\ \A f, n : ClusterOf(f, n)' = ClusterOf(f, n)
      /\ \A f, n : FileByte(f, n)' = FileByte(f, n)
  BY Zenon, <1>1 DEF ClusterAt, ClusterOf, FileByte
<1>6. ReadInv'
  <2>1. /\ Copied' <=> Copied
        /\ \A n : Positioned(n)' <=> Positioned(n)
    BY Zenon, <1>1, <1>5 DEF Copied, Positioned
  <2>2. Delivered' <=> Delivered
    BY Zenon, <1>1, <1>5, <2>1 DEF Delivered
  <2> QED
    BY Zenon, <1>1, <1>4, <2>1, <2>2 DEF FatInv, ReadInv
<1>7. WalkInv'
  <2>1. /\ Place' = Place /\ Kept' = Kept /\ (Exhausted' <=> Exhausted)
        /\ \A p : EntryAt(p)' = EntryAt(p)
    BY Zenon, <1>1, Frozen
  <2>2. Passed' <=> Passed
    BY Zenon, <1>1, <2>1 DEF Passed
  <2>3. (ReaddirKeeps' <=> ReaddirKeeps) /\ (FinddirKeeps' <=> FinddirKeeps)
    BY Zenon, <1>1, <2>1 DEF ReaddirKeeps, FinddirKeeps, KeptHere
  <2>4. WalksKeep' <=> WalksKeep
    BY Zenon, <1>1, <1>4, <2>1, <2>3 DEF WalksKeep
  <2> QED
    BY Zenon, <1>1, <1>5, <2>2, <2>4 DEF FatInv, WalkInv
<1> QED
  BY Zenon, <1>2, <1>3, <1>6, <1>7 DEF FatInv

LEMMA FatStep ==
  ASSUME FatInv, [FatNext]_fat_vars
  PROVE  FatInv'
<1>1. CASE Step
  BY Zenon, <1>1, ScanStep, EntryStep, NextClusterStep, SkipStep, AllocateStep, CopyStep,
     CopyEndsStep DEF Step
<1>2. CASE UNCHANGED fat_vars
  BY Zenon, <1>2, FatStutters
<1> QED
  BY Zenon, <1>1, <1>2, CallStep DEF FatNext

LEMMA FatInvariant == FatSpec => []FatInv
  BY FatStart, FatStep, PTL DEF FatSpec

(* Every way out of fat32_readdir, fat32_finddir and fat32_read gives the  *)
(* cluster buffer back, whatever the volume holds and whichever disk       *)
(* access fails.                                                           *)
THEOREM BuffersAlwaysReleased == FatSpec => []BuffersReleased
<1>1. FatInv => BuffersReleased
  BY DEF FatInv, Held, BuffersReleased
<1> QED
  BY <1>1, FatInvariant, PTL

(* On every volume, cyclic chains included, fat32_read delivers the bytes  *)
(* of the file's cluster chain from the offset asked for, in order and     *)
(* across cluster boundaries; without a disk error it stops early only     *)
(* where the chain ends.                                                   *)
THEOREM ReadsAlwaysFollowChain == FatSpec => []ReadsChainBytes
<1>1. FatInv => ReadsChainBytes
  <2> SUFFICES ASSUME FatInv, Returned("read") PROVE ReadsChainBytes
    BY Zenon DEF ReadsChainBytes
  <2>1. Delivered
    BY Zenon DEF FatInv, ReadInv
  <2>2. DOMAIN out = 1..Len(out)
    BY DEF FatInv, FatTyped
  <2> QED
    BY Zenon, <2>1, <2>2 DEF Delivered, Copied, ReadsChainBytes
<1> QED
  BY <1>1, FatInvariant, PTL

\* Among entries with all four bits or none, the code keeps the visible ones.
LEMMA KeepsVisible == \A e : AllOrNone(e) => (Visible(e) <=> ~ Skipped(e))
<1> SUFFICES ASSUME NEW e, AllOrNone(e) PROVE Visible(e) <=> ~ Skipped(e)
  OBVIOUS
<1>1. LONG_NAME # {}
  BY Zenon DEF LONG_NAME
<1>2. LONG_NAME \subseteq e.attr <=> e.attr \cap LONG_NAME # {}
  BY Zenon, <1>1 DEF AllOrNone
<1> QED
  BY Zenon, <1>2 DEF Visible, Skipped

(* Where no entry that was looked at is read-only, hidden, a system file   *)
(* or the volume's label, the two copies of the walk agree and show what   *)
(* the directory holds: fat32_readdir gives the entry whose number among   *)
(* the visible ones is the index, and fat32_finddir the first visible      *)
(* entry with the name; either gives nothing only past the last visible    *)
(* entry or after a disk error.                                            *)
THEOREM WalksAlwaysAgree == FatSpec => []WalksAgree
<1>1. ASSUME FatInv, Unmarked PROVE SkipsOnlyLongNames
  <2>1. WalksKeep
    BY Zenon, <1>1 DEF FatInv, WalkInv
  <2>2. \A p \in 0 .. Place - 1 : Visible(EntryAt(p)) <=> ~ Skipped(EntryAt(p))
    BY Zenon, <1>1, KeepsVisible DEF Unmarked
  <2>3. Listed = Kept
    BY Zenon, <2>2 DEF Listed, Kept
  <2>4. Found <=> KeptHere
    BY Zenon, <1>1, KeepsVisible DEF Unmarked, Found, KeptHere
  <2>5. (ReaddirKeeps => ReaddirLists) /\ (FinddirKeeps => FinddirFinds)
    BY Zenon, <2>3, <2>4 DEF ReaddirKeeps, ReaddirLists, FinddirKeeps, FinddirFinds
  <2> QED
    BY Zenon, <2>1, <2>5 DEF WalksKeep, SkipsOnlyLongNames
<1>2. FatInv => WalksAgree
  BY Zenon, <1>1 DEF WalksAgree
<1> QED
  BY <1>2, FatInvariant, PTL
=============================================================================
