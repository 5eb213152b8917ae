--------------------------- MODULE DownloadsProofs ---------------------------
(* For any number of calls, any lengths and any number of threads: the       *)
(* blocks of a file tile it, and when all calls are through and none has     *)
(* failed, the file lacks nothing but what answers left out or got wrong.    *)
EXTENDS Downloads, SequenceTheorems, TLAPS

----------------------------------------------------------------------------
(* Arithmetic. *)

\* Multiplication is monotonic.
LEMMA MulMono ==
    ASSUME NEW a \in Nat, NEW b \in Nat, NEW c \in Nat, a <= b
    PROVE  a * c <= b * c
OBVIOUS

\* The product goes on by its second factor.
LEMMA MulNext ==
    ASSUME NEW a \in Nat, NEW b \in Nat
    PROVE  a * b \in Nat /\ (a + 1) * b = a * b + b
OBVIOUS

\* A quotient, and what it leaves.
LEMMA DivNat ==
    ASSUME NEW a \in Nat, NEW b \in Nat \ {0}
    PROVE  /\ a \div b \in Nat
           /\ (a \div b) * b <= a
           /\ a < (a \div b) * b + b
OBVIOUS

----------------------------------------------------------------------------
(* The blocks of a file. *)

Units(b) == b.first..b.last

\* Where each block that DownloadFileMultiThreading makes starts and ends.
LEMMA BlocksShape ==
    ASSUME NEW len \in Nat \ {0}, NEW size \in Nat \ {0},
           NEW k \in DOMAIN Blocks(len, size)
    PROVE  /\ k \in Nat
           /\ Blocks(len, size)[k] \in [first : Nat, last : Nat, at : {"new"}, fd : {0}]
           /\ Blocks(len, size)[k].first = k * size
           /\ k * size <= Blocks(len, size)[k].last
           /\ Blocks(len, size)[k].last < len
           /\ Blocks(len, size)[k].last < k * size + size
           /\ k # (len - 1) \div size => Blocks(len, size)[k].last = k * size + size - 1
           /\ k = (len - 1) \div size => Blocks(len, size)[k].last = len - 1
<1> DEFINE n == (len - 1) \div size
<1>1. len - 1 \in Nat /\ size \in Nat
  OBVIOUS
<1>2. n \in Nat /\ n * size <= len - 1 /\ len - 1 < n * size + size
  BY <1>1, DivNat
<1>3. k \in 0..n
  BY DEF Blocks
<1>4. k \in Nat /\ k * size \in Nat /\ (k + 1) * size = k * size + size
  BY <1>1, <1>2, <1>3, MulNext
<1>5. Blocks(len, size)[k] = Block(k * size, IF k = n THEN len - 1 ELSE (k + 1) * size - 1)
  BY <1>3 DEF Blocks
<1>6. CASE k = n
  <2>1. Blocks(len, size)[k] = [first |-> k * size, last |-> len - 1, at |-> "new", fd |-> 0]
    BY <1>5, <1>6 DEF Block
  <2>2. k * size <= len - 1 /\ len - 1 < k * size + size
    BY <1>2, <1>6
  <2> HIDE DEF n
  <2> QED
    BY <1>1, <1>4, <1>6, <2>1, <2>2 DEF n
<1>7. CASE k # n
  <2>1. Blocks(len, size)[k] = [first |-> k * size, last |-> k * size + size - 1, at |-> "new", fd |-> 0]
    BY <1>4, <1>5, <1>7 DEF Block
  <2>2. k + 1 \in Nat /\ k + 1 <= n
    BY <1>2, <1>3, <1>7
  <2>3. (k + 1) * size <= n * size
    BY <1>1, <1>2, <2>2, MulMono
  <2>4. k * size + size <= len - 1
    BY <1>1, <1>2, <1>4, <2>3
  <2> HIDE DEF n
  <2> QED
    BY <1>1, <1>4, <1>7, <2>1, <2>4 DEF n
<1> QED
  BY <1>6, <1>7

\* The blocks that DownloadFileMultiThreading makes cover the file: no unit is
\* left out, and none is fetched by two threads, whatever its length and the
\* number of threads, as long as a block has a unit at all.
THEOREM BlocksTile ==
    ASSUME NEW len \in Nat \ {0}, NEW size \in Nat \ {0}
    PROVE  /\ UNION {Units(Blocks(len, size)[k]) : k \in DOMAIN Blocks(len, size)} = 0..len - 1
           /\ \A j, k \in DOMAIN Blocks(len, size) :
                 j # k => Units(Blocks(len, size)[j]) \cap Units(Blocks(len, size)[k]) = {}
<1> DEFINE n == (len - 1) \div size
           D == DOMAIN Blocks(len, size)
           B(k) == Blocks(len, size)[k]
<1>1. len - 1 \in Nat /\ size \in Nat
  OBVIOUS
<1>2. n \in Nat /\ n * size <= len - 1 /\ len - 1 < n * size + size
  BY <1>1, DivNat
<1>3. D = 0..n
  BY DEF Blocks
<1>4. ASSUME NEW k \in D, NEW u \in Units(B(k))
      PROVE  u \in 0..len - 1 /\ k * size \in Nat /\ k * size <= u /\ u < k * size + size
  <2>1. /\ k \in Nat /\ B(k).first = k * size /\ B(k).last \in Nat
        /\ B(k).last < len /\ B(k).last < k * size + size
    BY <1>4, BlocksShape
  <2>2. k * size \in Nat
    BY <1>1, <2>1, MulNext
  <2> QED
    BY <1>1, <1>4, <2>1, <2>2 DEF Units
<1>5. ASSUME NEW u \in 0..len - 1
      PROVE  \E k \in D : u \in Units(B(k))
  <2> DEFINE k == u \div size
  <2>1. u \in Nat /\ u <= len - 1
    BY <1>1
  <2>2. k \in Nat /\ k * size <= u /\ u < k * size + size
    BY <2>1, DivNat
  <2>3. k <= n
    <3>1. SUFFICES ASSUME n + 1 <= k PROVE FALSE
      BY <1>2, <2>2
    <3>2. (n + 1) * size <= k * size
      BY <1>1, <1>2, <2>2, <3>1, MulMono
    <3>3. (n + 1) * size = n * size + size /\ n * size \in Nat /\ k * size \in Nat
      BY <1>1, <1>2, <2>2, MulNext
    <3> QED
      BY <1>1, <1>2, <2>1, <2>2, <3>2, <3>3
  <2>4. k \in D
    BY <1>2, <1>3, <2>2, <2>3
  <2>5. /\ B(k).first = k * size /\ B(k).last \in Nat
        /\ k # n => B(k).last = k * size + size - 1
        /\ k = n => B(k).last = len - 1
    <3> HIDE DEF k
    <3> QED
      BY <2>4, BlocksShape
  <2>6. k * size \in Nat
    BY <1>1, <2>2, MulNext
  <2>7. u \in Units(B(k))
    <3>1. B(k).first = k * size /\ B(k).last \in Int /\ u <= B(k).last
      <4> HIDE DEF k, n, B
      <4> QED
        BY <1>1, <2>1, <2>2, <2>5, <2>6
    <3> QED
      BY <2>1, <2>2, <2>6, <3>1 DEF Units
  <2> QED
    BY <2>4, <2>7
<1>6. ASSUME NEW j \in D, NEW k \in D, j < k
      PROVE  Units(B(j)) \cap Units(B(k)) = {}
  <2>1. j \in Nat /\ k \in Nat /\ j + 1 <= k
    BY <1>2, <1>3, <1>6
  <2>2. (j + 1) * size <= k * size /\ (j + 1) * size = j * size + size /\ j * size \in Nat
    BY <1>1, <2>1, MulMono, MulNext
  <2>3. SUFFICES ASSUME NEW u \in Units(B(j)), u \in Units(B(k)) PROVE FALSE
    OBVIOUS
  <2>4. u < j * size + size /\ k * size <= u /\ u \in Int /\ k * size \in Nat
    BY <1>4, <2>3
  <2> QED
    BY <1>1, <2>2, <2>4
<1>7. UNION {Units(B(k)) : k \in D} = 0..len - 1
  BY <1>4, <1>5
<1>8. ASSUME NEW j \in D, NEW k \in D, j # k
      PROVE  Units(B(j)) \cap Units(B(k)) = {}
  <2>1. j \in Nat /\ k \in Nat
    BY <1>2, <1>3
  <2>2. CASE j < k
    BY <1>6, <2>2
  <2>3. CASE k < j
    <3>1. Units(B(k)) \cap Units(B(j)) = {}
      BY <1>6, <2>3
    <3> QED
      BY <3>1
  <2> QED
    BY <1>8, <2>1, <2>2, <2>3
<1> QED
  BY <1>7, <1>8

----------------------------------------------------------------------------
(* The invariant: types, and what a call's place says of its file, of the    *)
(* unit it writes next and of its answer.                                    *)

BlockRecords == [first : Nat, last : Nat, at : {"new", "open", "ended"}, fd : Nat]
BlockLists == UNION {[D -> BlockRecords] : D \in SUBSET Nat}

WorldTyped ==
    length \in Nat \ {0} /\ stated \in BOOLEAN /\ ranges \in BOOLEAN /\ request \in [Calls -> Requests]

FilesTyped ==
    /\ inode \in Seq(SUBSET Whole) /\ missed \in [Paths -> SUBSET Whole]
    /\ file \in [Paths -> 0..Len(inode)]
    /\ file["local"] = 0 \/ file["local"] # file["cache"]

CallsTyped ==
    /\ at \in [Calls -> Labels]
    /\ fd \in [Calls -> 0..Len(inode)]
    /\ pos \in [Calls -> 0..length]
    /\ lastErr \in [Calls -> BOOLEAN]
    /\ answer \in [Calls -> {"none", "failed", "ok", "found"}]

BlockSound(b) ==
    /\ b.fd \in 0..Len(inode)
    /\ b.last < length
    /\ b.at # "ended" => b.first <= b.last
    /\ b.at = "open" => b.fd # 0

BlocksTyped ==
    /\ block \in [Calls -> BlockLists]
    /\ \A c \in Calls : \A k \in DOMAIN block[c] : BlockSound(block[c][k])

Placed(c) ==
    /\ at[c] \in {"request", "copy", "fill"} => fd[c] # 0
    /\ at[c] \in {"idle", "remove", "open", "probe", "stream"} => pos[c] = 0
    /\ at[c] = "probe" => request[c].threads >= 2
    /\ answer[c] # "none" => at[c] = "ended"
    /\ request[c].kind = "get_image" =>
          at[c] \in {"idle", "ask", "copy", "ended"} /\ (fd[c] # 0 => fd[c] = file["local"])
    /\ at[c] \in {"save", "fill"} /\ ~lastErr[c] => pos[c]..length - 1 \subseteq missed["cache"]

AllPlaced == \A c \in Calls : Placed(c)

DInv == WorldTyped /\ FilesTyped /\ CallsTyped /\ BlocksTyped /\ AllPlaced

\* A list of blocks has records for its numbers.
LEMMA ListTyped ==
    ASSUME BlocksTyped, NEW c \in Calls
    PROVE  \E D \in SUBSET Nat : block[c] \in [D -> BlockRecords]
BY DEF BlocksTyped, BlockLists

\* So each block is one, with what BlocksTyped says of it.
LEMMA BlockTyped ==
    ASSUME BlocksTyped, NEW c \in Calls, NEW k \in DOMAIN block[c]
    PROVE  block[c][k] \in BlockRecords /\ BlockSound(block[c][k])
<1>1. PICK D \in SUBSET Nat : block[c] \in [D -> BlockRecords]
  BY ListTyped
<1> QED
  BY <1>1 DEF BlocksTyped

\* DInv holds of more than TypeOK asks for.
LEMMA DInvTypes == ASSUME DInv PROVE TypeOK
<1>1. ASSUME NEW c \in Calls, NEW k \in DOMAIN block[c]
      PROVE  /\ block[c][k].at \in {"new", "open", "ended"}
             /\ block[c][k].fd \in 0..Len(inode)
             /\ 0 <= block[c][k].first /\ block[c][k].last < length
  BY BlockTyped DEF DInv, BlockSound, BlockRecords
<1> QED
  BY <1>1 DEF DInv, TypeOK, WorldTyped, FilesTyped, CallsTyped

----------------------------------------------------------------------------
(* Opening and writing. *)

\* What opening a file by its name does to files and inodes.
LEMMA Opening ==
    ASSUME FilesTyped, NEW p \in Paths, Open(p)
    PROVE  /\ inode' \in Seq(SUBSET Whole)
           /\ Len(inode) \in Nat /\ Len(inode') \in Nat /\ Len(inode) <= Len(inode')
           /\ \A i \in 1..Len(inode) : inode'[i] = inode[i]
           /\ file' \in [Paths -> 0..Len(inode')]
           /\ Opened(p) \in 1..Len(inode') /\ file'[p] = Opened(p)
           /\ \A q \in Paths \ {p} : file'[q] = file[q]
           /\ file[p] # 0 => file'[p] = file[p]
           /\ file'["local"] = 0 \/ file'["local"] # file'["cache"]
<1>1. Len(inode) \in Nat
  BY LenProperties DEF FilesTyped
<1>2. CASE file[p] # 0
  BY <1>1, <1>2 DEF FilesTyped, Open, Opened
<1>3. CASE file[p] = 0
  <2>1. inode' = Append(inode, {}) /\ file' = [file EXCEPT ![p] = Len(inode) + 1]
    BY <1>3 DEF Open, Opened
  <2>2. /\ inode' \in Seq(SUBSET Whole) /\ Len(inode') = Len(inode) + 1
        /\ \A i \in 1..Len(inode) : inode'[i] = inode[i]
    BY <2>1, AppendProperties DEF FilesTyped
  <2>3. \A q \in Paths : file[q] \in 0..Len(inode)
    BY DEF FilesTyped
  <2>4. file' \in [Paths -> 0..Len(inode')] /\ file'[p] = Len(inode) + 1
        /\ \A q \in Paths \ {p} : file'[q] = file[q]
    BY <1>1, <2>1, <2>2 DEF FilesTyped
  <2>5. file'["local"] = 0 \/ file'["local"] # file'["cache"]
    BY <1>1, <2>3, <2>4 DEF FilesTyped, Paths
  <2> QED
    BY <1>1, <1>3, <2>2, <2>4, <2>5 DEF Opened
<1> QED
  BY <1>2, <1>3

\* The same, of opening it with O_TRUNC.
LEMMA Truncating ==
    ASSUME FilesTyped, NEW p \in Paths, OpenTruncated(p)
    PROVE  /\ inode' \in Seq(SUBSET Whole)
           /\ Len(inode) \in Nat /\ Len(inode') \in Nat /\ Len(inode) <= Len(inode')
           /\ \A i \in 1..Len(inode) : i # file[p] => inode'[i] = inode[i]
           /\ file' \in [Paths -> 0..Len(inode')]
           /\ Opened(p) \in 1..Len(inode') /\ file'[p] = Opened(p)
           /\ \A q \in Paths \ {p} : file'[q] = file[q]
           /\ file[p] # 0 => file'[p] = file[p]
           /\ file'["local"] = 0 \/ file'["local"] # file'["cache"]
<1>1. CASE file[p] = 0
  <2>1. Open(p)
    BY <1>1 DEF OpenTruncated
  <2> QED
    BY <2>1, Opening
<1>2. CASE file[p] # 0
  <2>1. Len(inode) \in Nat /\ file[p] \in 1..Len(inode)
    BY <1>2, LenProperties DEF FilesTyped
  <2>2. file' = file /\ inode' = [inode EXCEPT ![file[p]] = {}]
    BY <1>2 DEF OpenTruncated
  <2>3. /\ inode' \in Seq(SUBSET Whole) /\ Len(inode') = Len(inode)
        /\ \A i \in 1..Len(inode) : i # file[p] => inode'[i] = inode[i]
    BY <2>1, <2>2, ExceptSeq DEF FilesTyped
  <2> QED
    BY <1>2, <2>1, <2>2, <2>3 DEF FilesTyped, Opened
<1> QED
  BY <1>1, <1>2

\* What answers may leave out or get wrong in a step.
Misses == missed' = missed \/ \E p \in Paths, units \in SUBSET Whole : Miss(p, units)

\* What has been missed stays missed.
LEMMA Missing ==
    ASSUME FilesTyped, Misses
    PROVE  /\ missed' \in [Paths -> SUBSET Whole]
           /\ \A p \in Paths : missed[p] \subseteq missed'[p]
<1>1. CASE missed' = missed
  BY <1>1 DEF FilesTyped
<1>2. CASE \E p \in Paths, units \in SUBSET Whole : Miss(p, units)
  <2>1. PICK p \in Paths, units \in SUBSET Whole : missed' = [missed EXCEPT ![p] = @ \cup units]
    BY <1>2 DEF Miss
  <2>2. missed[p] \cup units \in SUBSET Whole
    BY DEF FilesTyped
  <2> QED
    BY <2>1, <2>2 DEF FilesTyped
<1> QED
  BY <1>1, <1>2 DEF Misses

\* What is missed in a step is in missed after it.
LEMMA Missed ==
    ASSUME FilesTyped, NEW p \in Paths, NEW units \in SUBSET Whole, Miss(p, units)
    PROVE  Misses /\ units \subseteq missed'[p]
<1>1. missed' = [missed EXCEPT ![p] = @ \cup units]
  BY DEF Miss
<1> QED
  BY <1>1 DEF Misses, FilesTyped

\* What becomes of the units that a file receives: they are in it or missed,
\* as are those that were in it, and no other file changes.
LEMMA Receiving ==
    ASSUME FilesTyped, NEW p \in Paths, NEW i \in 1..Len(inode), NEW units \in SUBSET Whole,
           Receive(p, i, units)
    PROVE  /\ inode' \in Seq(SUBSET Whole)
           /\ Len(inode) \in Nat /\ Len(inode') = Len(inode)
           /\ Misses
           /\ \A j \in 1..Len(inode) \ {i} : inode'[j] = inode[j]
           /\ inode[i] \cup units \subseteq inode'[i] \cup missed'[p]
<1>1. Len(inode) \in Nat /\ inode[i] \in SUBSET Whole
  BY LenProperties, ElementOfSeq DEF FilesTyped
<1>2. CASE Write(i, units) /\ UNCHANGED missed
  <2>1. inode' = [inode EXCEPT ![i] = inode[i] \cup units] /\ inode[i] \cup units \in SUBSET Whole
    BY <1>1, <1>2 DEF Write
  <2>2. /\ inode' \in Seq(SUBSET Whole) /\ Len(inode') = Len(inode)
        /\ \A j \in 1..Len(inode) : inode'[j] = IF j = i THEN inode[i] \cup units ELSE inode[j]
    BY <2>1, ExceptSeq DEF FilesTyped
  <2> QED
    BY <1>1, <1>2, <2>2 DEF Misses
<1>3. CASE Miss(p, units) /\ inode' = [inode EXCEPT ![i] = @ \ units]
  <2>1. inode' = [inode EXCEPT ![i] = inode[i] \ units] /\ inode[i] \ units \in SUBSET Whole
    BY <1>1, <1>3
  <2>2. /\ inode' \in Seq(SUBSET Whole) /\ Len(inode') = Len(inode)
        /\ \A j \in 1..Len(inode) : inode'[j] = IF j = i THEN inode[i] \ units ELSE inode[j]
    BY <2>1, ExceptSeq DEF FilesTyped
  <2>3. Misses /\ units \subseteq missed'[p]
    BY <1>3, Missed
  <2> QED
    BY <1>1, <2>2, <2>3
<1> QED
  BY <1>2, <1>3 DEF Receive

----------------------------------------------------------------------------
(* The lists of blocks. *)

\* Blocks keep their types when files are added.
LEMMA BlocksKept ==
    ASSUME BlocksTyped, Len(inode) \in Nat, Len(inode') \in Nat, Len(inode) <= Len(inode'),
           UNCHANGED <<length, block>>
    PROVE  BlocksTyped'
<1>1. ASSUME NEW c \in Calls, NEW k \in DOMAIN block[c]
      PROVE  BlockSound(block[c][k])'
  <2>1. block[c][k] \in BlockRecords /\ BlockSound(block[c][k])
    BY BlockTyped
  <2> QED
    BY <2>1 DEF BlockSound, BlockRecords
<1> QED
  BY <1>1 DEF BlocksTyped

\* A block of a list is replaced.
LEMMA BlockReplaced ==
    ASSUME BlocksTyped, NEW c \in Calls, NEW k \in DOMAIN block[c], NEW b \in BlockRecords,
           block' = [block EXCEPT ![c][k] = b]
    PROVE  /\ block' \in [Calls -> BlockLists]
           /\ DOMAIN block'[c] = DOMAIN block[c] /\ block'[c][k] = b
           /\ \A j \in DOMAIN block[c] \ {k} : block'[c][j] = block[c][j]
           /\ \A d \in Calls \ {c} : block'[d] = block[d]
<1>1. PICK D \in SUBSET Nat : block[c] \in [D -> BlockRecords]
  BY ListTyped
<1> DEFINE e == [block[c] EXCEPT ![k] = b]
<1>2. e \in [D -> BlockRecords] /\ e[k] = b /\ \A j \in D \ {k} : e[j] = block[c][j]
  BY <1>1
<1>3. e \in BlockLists
  BY <1>2 DEF BlockLists
<1>4. block' = [block EXCEPT ![c] = e]
  OBVIOUS
<1> HIDE DEF e
<1>5. block' \in [Calls -> BlockLists] /\ block'[c] = e /\ \A d \in Calls \ {c} : block'[d] = block[d]
  BY <1>3, <1>4 DEF BlocksTyped
<1> QED
  BY <1>1, <1>2, <1>5

\* BlocksTyped holds on when the new block is sound.
LEMMA BlockStep ==
    ASSUME BlocksTyped, NEW c \in Calls, NEW k \in DOMAIN block[c], NEW b \in BlockRecords,
           block' = [block EXCEPT ![c][k] = b], length' = length,
           Len(inode) \in Nat, Len(inode') \in Nat, Len(inode) <= Len(inode'), BlockSound(b)'
    PROVE  BlocksTyped'
<1>1. /\ block' \in [Calls -> BlockLists]
      /\ DOMAIN block'[c] = DOMAIN block[c] /\ block'[c][k] = b
      /\ \A j \in DOMAIN block[c] \ {k} : block'[c][j] = block[c][j]
      /\ \A d \in Calls \ {c} : block'[d] = block[d]
  BY BlockReplaced
<1>2. ASSUME NEW d \in Calls, NEW j \in DOMAIN block[d]
      PROVE  BlockSound(block[d][j])'
  <2>1. block[d][j] \in BlockRecords /\ BlockSound(block[d][j])
    BY BlockTyped
  <2>2. CASE d = c /\ j = k
    BY <1>1, <2>2 DEF BlockSound
  <2>3. CASE ~(d = c /\ j = k)
    <3>1. block'[d][j] = block[d][j]
      BY <1>1, <2>3
    <3> QED
      BY <2>1, <3>1 DEF BlockSound, BlockRecords
  <2> QED
    BY <2>2, <2>3
<1>3. \A d \in Calls : DOMAIN block'[d] = DOMAIN block[d]
  BY <1>1
<1> QED
  BY <1>1, <1>2, <1>3 DEF BlocksTyped

\* What each step on a block makes of it.
OpenedOf(b) == [b EXCEPT !.at = "open", !.fd = Opened("cache")]
BrokenOf(b) == [b EXCEPT !.at = "ended"]

\* downloadBlock's four steps replace one block.
LEMMA BlockSteps ==
    ASSUME NEW c \in Calls, NEW k \in DOMAIN block[c]
    PROVE  /\ OpenBlock(c, k) => block' = [block EXCEPT ![c][k] = OpenedOf(block[c][k])]
           /\ ReadBlock(c, k) => block' = [block EXCEPT ![c][k] = AfterUnit(block[c][k])]
           /\ EndBlock(c, k) => block' = [block EXCEPT ![c][k] = BrokenOf(block[c][k])]
           /\ BreakBlock(c, k) => block' = [block EXCEPT ![c][k] = BrokenOf(block[c][k])]
<1>1. OpenBlock(c, k) => block' = [block EXCEPT ![c][k] = OpenedOf(block[c][k])]
  BY DEF OpenBlock, OpenedOf
<1>2. ReadBlock(c, k) => block' = [block EXCEPT ![c][k] = AfterUnit(block[c][k])]
  BY DEF ReadBlock
<1>3. EndBlock(c, k) => block' = [block EXCEPT ![c][k] = BrokenOf(block[c][k])]
  BY DEF EndBlock, BrokenOf
<1>4. BreakBlock(c, k) => block' = [block EXCEPT ![c][k] = BrokenOf(block[c][k])]
  BY DEF BreakBlock, BrokenOf
<1> QED
  BY <1>1, <1>2, <1>3, <1>4

\* The fields of the blocks that they put there.
LEMMA BlockFields ==
    ASSUME NEW b \in BlockRecords, Opened("cache") \in Nat
    PROVE  /\ OpenedOf(b) \in BlockRecords
           /\ OpenedOf(b).first = b.first /\ OpenedOf(b).last = b.last
           /\ OpenedOf(b).at = "open" /\ OpenedOf(b).fd = Opened("cache")
           /\ AfterUnit(b) \in BlockRecords
           /\ AfterUnit(b).first = b.first + 1 /\ AfterUnit(b).last = b.last /\ AfterUnit(b).fd = b.fd
           /\ AfterUnit(b).at = IF b.first = b.last THEN "ended" ELSE "open"
           /\ BrokenOf(b) \in BlockRecords
           /\ BrokenOf(b).first = b.first /\ BrokenOf(b).last = b.last
           /\ BrokenOf(b).at = "ended" /\ BrokenOf(b).fd = b.fd
<1>1. /\ OpenedOf(b) \in BlockRecords
      /\ OpenedOf(b).first = b.first /\ OpenedOf(b).last = b.last
      /\ OpenedOf(b).at = "open" /\ OpenedOf(b).fd = Opened("cache")
  BY DEF BlockRecords, OpenedOf
<1>2. /\ AfterUnit(b) \in BlockRecords
      /\ AfterUnit(b).first = b.first + 1 /\ AfterUnit(b).last = b.last /\ AfterUnit(b).fd = b.fd
      /\ AfterUnit(b).at = IF b.first = b.last THEN "ended" ELSE "open"
  <2> DEFINE x == b.first + 1
             y == IF b.first = b.last THEN "ended" ELSE "open"
  <2>1. x \in Nat /\ y \in {"ended", "open"}
    BY DEF BlockRecords
  <2>2. AfterUnit(b) = [b EXCEPT !.first = x, !.at = y]
    BY DEF AfterUnit
  <2>3. AfterUnit(b).first = x /\ AfterUnit(b).last = b.last /\ AfterUnit(b).fd = b.fd /\ AfterUnit(b).at = y
    <3> HIDE DEF x, y
    <3> QED
      BY <2>2 DEF BlockRecords
  <2>4. AfterUnit(b) \in BlockRecords
    <3> HIDE DEF x, y
    <3> QED
      BY <2>1, <2>2 DEF BlockRecords
  <2> QED
    BY <2>3, <2>4
<1>3. /\ BrokenOf(b) \in BlockRecords
      /\ BrokenOf(b).first = b.first /\ BrokenOf(b).last = b.last
      /\ BrokenOf(b).at = "ended" /\ BrokenOf(b).fd = b.fd
  BY DEF BlockRecords, BrokenOf
<1> QED
  BY <1>1, <1>2, <1>3

----------------------------------------------------------------------------
(* Every step keeps DInv. *)

Answers == {"none", "failed", "ok", "found"}

\* Where a call goes on, and how it ends.
LEMMA Turning ==
    ASSUME CallsTyped, NEW c \in Calls, NEW l \in Labels, NEW how \in Answers \ {"none"},
           Goto(c, l) \/ End(c, how)
    PROVE  /\ at' \in [Calls -> Labels] /\ answer' \in [Calls -> Answers]
           /\ \A d \in Calls \ {c} : at'[d] = at[d] /\ answer'[d] = answer[d]
           /\ Goto(c, l) => at'[c] = l /\ answer'[c] = answer[c]
           /\ End(c, how) => at'[c] = "ended" /\ answer'[c] = how
<1>1. CASE Goto(c, l)
  <2>1. at' = [at EXCEPT ![c] = l] /\ answer' = answer
    BY <1>1 DEF Goto
  <2>2. End(c, how) => l = "ended" /\ answer[c] = how
    BY <2>1 DEF End, CallsTyped, Answers
  <2> QED
    BY <2>1, <2>2 DEF CallsTyped, Answers
<1>2. CASE End(c, how)
  <2>1. at' = [at EXCEPT ![c] = "ended"] /\ answer' = [answer EXCEPT ![c] = how]
    BY <1>2 DEF End
  <2>2. Goto(c, l) => l = "ended" /\ answer'[c] = answer[c]
    BY <2>1 DEF Goto, CallsTyped, Answers
  <2> QED
    BY <2>1, <2>2 DEF CallsTyped, Answers, Labels
<1> QED
  BY <1>1, <1>2

\* No step takes the file of get_image from its name.
LocalStays == file["local"] # 0 => file'["local"] = file["local"]

\* A step of one call keeps DInv, if it keeps the files, the blocks and its own place.
LEMMA Framed ==
    ASSUME DInv, NEW c \in Calls, UNCHANGED world,
           FilesTyped', BlocksTyped', Placed(c)', Misses, LocalStays,
           Len(inode) \in Nat, Len(inode') \in Nat, Len(inode) <= Len(inode'),
           fd'[c] \in 0..Len(inode'), pos'[c] \in 0..length,
           \/ fd' = fd \/ \E f : fd' = [fd EXCEPT ![c] = f],
           \/ pos' = pos \/ \E q : pos' = [pos EXCEPT ![c] = q],
           \/ lastErr' = lastErr \/ lastErr' = [lastErr EXCEPT ![c] = TRUE],
           at' \in [Calls -> Labels], answer' \in [Calls -> Answers],
           \A d \in Calls \ {c} : at'[d] = at[d] /\ answer'[d] = answer[d]
    PROVE  DInv'
<1>1. WorldTyped'
  BY DEF world, DInv, WorldTyped
<1>2. /\ length' = length /\ request' = request
      /\ missed["cache"] \subseteq missed'["cache"]
  BY Missing DEF world, DInv, Paths
<1>3. fd' \in [Calls -> 0..Len(inode')] /\ \A d \in Calls \ {c} : fd'[d] = fd[d]
  <2>1. fd \in [Calls -> 0..Len(inode')]
    BY DEF DInv, CallsTyped
  <2> QED
    BY <2>1
<1>4. pos' \in [Calls -> 0..length] /\ \A d \in Calls \ {c} : pos'[d] = pos[d]
  BY DEF DInv, CallsTyped
<1>5. lastErr' \in [Calls -> BOOLEAN] /\ \A d \in Calls \ {c} : lastErr'[d] = lastErr[d]
  BY DEF DInv, CallsTyped
<1>6. CallsTyped'
  BY <1>2, <1>3, <1>4, <1>5 DEF CallsTyped, Answers
<1>7. ASSUME NEW d \in Calls PROVE Placed(d)'
  <2>1. CASE d = c
    BY <2>1
  <2>2. CASE d # c
    <3>1. at'[d] = at[d] /\ answer'[d] = answer[d] /\ fd'[d] = fd[d] /\ pos'[d] = pos[d]
      BY <1>3, <1>4, <2>2
    <3>2. Placed(d) /\ lastErr'[d] = lastErr[d]
      BY <1>5, <2>2 DEF DInv, AllPlaced
    <3>3. at[d] \in {"save", "fill"} /\ ~lastErr[d] => pos[d]..length - 1 \subseteq missed'["cache"]
      BY <1>2, <3>2 DEF Placed
    <3> QED
      BY <1>2, <3>1, <3>2, <3>3 DEF Placed, LocalStays
  <2> QED
    BY <2>1, <2>2
<1> QED
  BY <1>1, <1>6, <1>7 DEF DInv, AllPlaced

\* Steps that leave the files alone.
LEMMA Untouched ==
    ASSUME DInv, UNCHANGED <<world, file, inode>>, Misses
    PROVE  /\ FilesTyped' /\ LocalStays
           /\ Len(inode) \in Nat /\ Len(inode') \in Nat /\ Len(inode) <= Len(inode')
           /\ block' = block => BlocksTyped'
<1>1. Len(inode) \in Nat
  BY LenProperties DEF DInv, FilesTyped
<1>2. FilesTyped' /\ LocalStays
  <2>1. missed' \in [Paths -> SUBSET Whole]
    BY Missing DEF DInv
  <2> QED
    BY <2>1 DEF DInv, FilesTyped, Whole, world, LocalStays
<1>3. block' = block => BlocksTyped'
  BY <1>1, BlocksKept DEF DInv, world
<1> QED
  BY <1>1, <1>2, <1>3

\* Steps that change only where a call is, and its answer.
LEMMA Turned ==
    ASSUME DInv, NEW c \in Calls, UNCHANGED <<world, file, inode, fd, pos, block, lastErr>>, Misses,
           NEW l \in Labels \ {"save", "fill"}, NEW how \in Answers \ {"none"},
           \/ /\ Goto(c, l)
              /\ answer[c] = "none"
              /\ l \in {"request", "copy"} => fd[c] # 0
              /\ l \in {"idle", "remove", "open", "probe", "stream"} => pos[c] = 0
              /\ l = "probe" => request[c].threads >= 2
              /\ request[c].kind = "get_image" => l \in {"idle", "ask", "copy", "ended"}
           \/ End(c, how)
    PROVE  DInv'
<1>1. Goto(c, l) \/ End(c, how)
  OBVIOUS
<1>2. /\ at' \in [Calls -> Labels] /\ answer' \in [Calls -> Answers]
      /\ \A d \in Calls \ {c} : at'[d] = at[d] /\ answer'[d] = answer[d]
      /\ Goto(c, l) => at'[c] = l /\ answer'[c] = answer[c]
      /\ End(c, how) => at'[c] = "ended" /\ answer'[c] = how
  BY <1>1, Turning DEF DInv
<1>3. Placed(c)'
  <2>1. Placed(c)
    BY DEF DInv, AllPlaced
  <2>2. CASE End(c, how)
    BY <1>2, <2>1, <2>2 DEF Placed, world
  <2>3. CASE Goto(c, l) /\ ~End(c, how)
    BY <1>2, <2>1, <2>3 DEF Placed, world
  <2> QED
    BY <1>1, <2>2, <2>3
<1>4. /\ FilesTyped' /\ BlocksTyped' /\ LocalStays
      /\ Len(inode) \in Nat /\ Len(inode') \in Nat /\ Len(inode) <= Len(inode')
  BY Untouched
<1>5. fd'[c] \in 0..Len(inode') /\ pos'[c] \in 0..length
  BY DEF DInv, CallsTyped
<1> QED
  BY <1>2, <1>3, <1>4, <1>5, Framed

\* Steps that open a file and go on.
LEMMA OpenedTurn ==
    ASSUME DInv, NEW c \in Calls, NEW p \in Paths, Open(p) \/ OpenTruncated(p),
           UNCHANGED <<world, missed, block, lastErr>>, fd' = [fd EXCEPT ![c] = Opened(p)], pos' = pos,
           NEW l \in {"request", "copy", "fill"}, Goto(c, l), answer[c] = "none",
           l = "fill" => at[c] = "save",
           request[c].kind = "get_image" => l = "copy" /\ p = "local"
    PROVE  DInv'
<1>1. /\ inode' \in Seq(SUBSET Whole)
      /\ Len(inode) \in Nat /\ Len(inode') \in Nat /\ Len(inode) <= Len(inode')
      /\ file' \in [Paths -> 0..Len(inode')]
      /\ Opened(p) \in 1..Len(inode') /\ file'[p] = Opened(p)
      /\ \A q \in Paths \ {p} : file'[q] = file[q]
      /\ file[p] # 0 => file'[p] = file[p]
      /\ file'["local"] = 0 \/ file'["local"] # file'["cache"]
  BY Opening, Truncating DEF DInv
<1>2. FilesTyped' /\ LocalStays /\ Misses
  BY <1>1 DEF DInv, FilesTyped, Whole, world, LocalStays, Misses, Paths
<1>3. BlocksTyped'
  BY <1>1, BlocksKept DEF DInv, world
<1>4. l \in Labels /\ "ok" \in Answers \ {"none"}
  BY DEF Labels, Answers
<1>5. /\ at' \in [Calls -> Labels] /\ answer' \in [Calls -> Answers]
      /\ \A d \in Calls \ {c} : at'[d] = at[d] /\ answer'[d] = answer[d]
      /\ at'[c] = l /\ answer'[c] = "none"
  BY <1>4, Turning DEF DInv
<1>6. fd'[c] = Opened(p) /\ fd'[c] \in 0..Len(inode') /\ fd'[c] # 0 /\ pos'[c] \in 0..length
  BY <1>1 DEF DInv, CallsTyped
<1>7. Placed(c)'
  <2>1. Placed(c) /\ fd'[c] = file'[p]
    BY <1>1, <1>6 DEF DInv, AllPlaced
  <2> QED
    BY <1>5, <1>6, <2>1 DEF Placed, world
<1> QED
  BY <1>1, <1>2, <1>3, <1>5, <1>6, <1>7, Framed

\* Steps that write what they have into the file they hold.
LEMMA WrittenTurn ==
    ASSUME DInv, NEW c \in Calls, UNCHANGED <<world, file, fd, block, lastErr>>,
           fd[c] # 0, NEW units \in SUBSET Whole, NEW p \in Paths, Receive(p, fd[c], units),
           at[c] \in {"copy", "fill"},
           \/ /\ at[c] = "copy" /\ at' = at /\ answer' = answer
              /\ pos' = [pos EXCEPT ![c] = @ + 1] /\ pos[c] < length
           \/ pos' = pos /\ \E how \in Answers \ {"none"} : End(c, how)
    PROVE  DInv'
<1>1. fd[c] \in 1..Len(inode) /\ fd \in [Calls -> 0..Len(inode)] /\ pos[c] \in 0..length /\ length \in Nat
  <2>1. Len(inode) \in Nat
    BY LenProperties DEF DInv, FilesTyped
  <2> QED
    BY <2>1 DEF DInv, CallsTyped, WorldTyped
<1>2. inode' \in Seq(SUBSET Whole) /\ Len(inode) \in Nat /\ Len(inode') = Len(inode) /\ Misses
  BY <1>1, Receiving DEF DInv
<1>3. FilesTyped' /\ LocalStays
  <2>1. missed' \in [Paths -> SUBSET Whole]
    BY <1>2, Missing DEF DInv
  <2> QED
    BY <1>2, <2>1 DEF DInv, FilesTyped, Whole, world, LocalStays
<1>4. BlocksTyped'
  BY <1>2, BlocksKept DEF DInv, world
<1>5. fd'[c] \in 0..Len(inode') /\ pos'[c] \in 0..length
  <2>1. pos \in [Calls -> 0..length]
    BY DEF DInv, CallsTyped
  <2> QED
    BY <1>1, <1>2, <2>1
<1>6. Placed(c)
  BY DEF DInv, AllPlaced
<1>7. /\ at' \in [Calls -> Labels] /\ answer' \in [Calls -> Answers]
      /\ \A d \in Calls \ {c} : at'[d] = at[d] /\ answer'[d] = answer[d]
      /\ Placed(c)'
  <2>1. CASE at[c] = "copy" /\ at' = at /\ answer' = answer
    BY <1>6, <2>1 DEF DInv, CallsTyped, Answers, Placed, world
  <2>2. CASE \E how \in Answers \ {"none"} : End(c, how)
    <3>1. PICK how \in Answers \ {"none"} : End(c, how)
      BY <2>2
    <3>2. /\ at' \in [Calls -> Labels] /\ answer' \in [Calls -> Answers]
          /\ \A d \in Calls \ {c} : at'[d] = at[d] /\ answer'[d] = answer[d]
          /\ at'[c] = "ended"
      <4>1. "ended" \in Labels
        BY DEF Labels
      <4> QED
        BY <3>1, <4>1, Turning DEF DInv
    <3> QED
      BY <1>6, <3>2 DEF Placed, world
  <2> QED
    BY <2>1, <2>2
<1>8. pos' = pos \/ \E q : pos' = [pos EXCEPT ![c] = q]
  OBVIOUS
<1> QED
  BY <1>2, <1>3, <1>4, <1>5, <1>7, <1>8, Framed

\* The list that initOrDownload makes.
LEMMA BlocksMade ==
    ASSUME DInv, NEW c \in Calls, NEW size \in Nat \ {0},
           block' = [block EXCEPT ![c] = Blocks(length, size)], length' = length, inode' = inode
    PROVE  BlocksTyped'
<1>1. length \in Nat \ {0} /\ Len(inode) \in Nat
  BY LenProperties DEF DInv, WorldTyped, FilesTyped
<1>2. ASSUME NEW k \in DOMAIN Blocks(length, size)
      PROVE  /\ k \in Nat /\ Blocks(length, size)[k] \in BlockRecords
             /\ BlockSound(Blocks(length, size)[k])'
  <2>1. PICK b \in [first : Nat, last : Nat, at : {"new"}, fd : {0}] :
           /\ k \in Nat /\ b = Blocks(length, size)[k]
           /\ b.first = k * size /\ k * size <= b.last /\ b.last < length
    BY <1>1, BlocksShape
  <2>2. b.first <= b.last /\ b.fd = 0 /\ b.at = "new"
    BY <2>1
  <2>3. b \in BlockRecords
    BY <2>1 DEF BlockRecords
  <2>4. BlockSound(b)'
    BY <1>1, <2>1, <2>2 DEF BlockSound
  <2> QED
    BY <2>1, <2>3, <2>4
<1>3. Blocks(length, size) \in [DOMAIN Blocks(length, size) -> BlockRecords]
  BY <1>2 DEF Blocks
<1>4. DOMAIN Blocks(length, size) \in SUBSET Nat
  BY <1>2
<1> DEFINE list == Blocks(length, size)
<1> HIDE DEF list
<1>5. list \in BlockLists
  BY <1>3, <1>4 DEF BlockLists, list
<1>6. block' \in [Calls -> BlockLists] /\ block'[c] = list /\ \A d \in Calls \ {c} : block'[d] = block[d]
  BY <1>5 DEF DInv, BlocksTyped, list
<1>7. ASSUME NEW d \in Calls, NEW k \in DOMAIN block'[d]
      PROVE  BlockSound(block[d][k])'
  <2>1. CASE d = c
    BY <1>2, <1>6, <2>1 DEF list
  <2>2. CASE d # c
    <3>1. block'[d] = block[d]
      BY <1>6, <2>2
    <3>2. BlockSound(block[d][k])
      BY <3>1, BlockTyped DEF DInv
    <3> QED
      BY <3>1, <3>2 DEF BlockSound
  <2> QED
    BY <2>1, <2>2
<1> QED
  BY <1>6, <1>7 DEF BlocksTyped

\* The threads of a call.
LEMMA BlockStepKeeps ==
    ASSUME DInv, NEW c \in Calls, downloadBlock(c)
    PROVE  DInv'
<1>1. PICK k \in DOMAIN block[c] : OpenBlock(c, k) \/ ReadBlock(c, k) \/ EndBlock(c, k) \/ BreakBlock(c, k)
  BY DEF downloadBlock
<1> DEFINE b == block[c][k]
<1>2. b \in BlockRecords /\ BlockSound(b)
  BY BlockTyped DEF DInv
<1>3. Len(inode) \in Nat /\ length \in Nat /\ length' = length
  BY LenProperties DEF DInv, FilesTyped, WorldTyped, downloadBlock, world
<1>4. Opened("cache") \in Nat
  BY <1>3 DEF Opened, DInv, FilesTyped, Paths
<1>5. /\ FilesTyped' /\ Len(inode') \in Nat /\ Len(inode) <= Len(inode') /\ BlocksTyped'
      /\ Misses /\ LocalStays
  <2>1. CASE OpenBlock(c, k)
    <3>1. "cache" \in Paths /\ Open("cache") /\ b.at = "new" /\ missed' = missed
      BY <2>1 DEF OpenBlock, Paths
    <3>2. /\ inode' \in Seq(SUBSET Whole)
          /\ Len(inode') \in Nat /\ Len(inode) <= Len(inode')
          /\ file' \in [Paths -> 0..Len(inode')]
          /\ Opened("cache") \in 1..Len(inode')
          /\ \A q \in Paths \ {"cache"} : file'[q] = file[q]
          /\ file'["local"] = 0 \/ file'["local"] # file'["cache"]
      BY <3>1, Opening DEF DInv
    <3>3. FilesTyped' /\ Misses /\ LocalStays
      BY <1>3, <3>1, <3>2 DEF DInv, FilesTyped, Whole, Misses, LocalStays, Paths
    <3>4. block' = [block EXCEPT ![c][k] = OpenedOf(b)]
      BY <2>1, BlockSteps
    <3>5. /\ OpenedOf(b) \in BlockRecords
          /\ OpenedOf(b).first = b.first /\ OpenedOf(b).last = b.last
          /\ OpenedOf(b).at = "open" /\ OpenedOf(b).fd = Opened("cache")
      BY <1>2, <1>4, BlockFields
    <3> QED
      <4>1. PICK x \in BlockRecords : x = OpenedOf(b)
        BY <3>5
      <4>2. x.first = b.first /\ x.last = b.last /\ x.at = "open" /\ x.fd = Opened("cache")
        BY <3>5, <4>1
      <4>3. b.first <= b.last /\ b.last < length
        BY <1>2, <3>1 DEF BlockSound
      <4>4. BlockSound(x)'
        BY <1>3, <3>2, <4>2, <4>3 DEF BlockSound
      <4>5. BlocksTyped
        BY DEF DInv
      <4>6. BlocksTyped'
        BY <1>3, <3>2, <3>4, <4>1, <4>4, <4>5, BlockStep
      <4> QED
        BY <3>2, <3>3, <4>6
  <2>2. CASE ReadBlock(c, k)
    <3>1. b.at = "open" /\ Receive("cache", b.fd, {b.first}) /\ file' = file /\ "cache" \in Paths
      BY <2>2 DEF ReadBlock, Paths
    <3>2. b.first \in Nat /\ b.last \in Nat /\ b.first <= b.last /\ b.last < length /\ b.fd \in 1..Len(inode)
      BY <1>2, <1>3, <3>1 DEF BlockSound, BlockRecords
    <3>3. {b.first} \in SUBSET Whole
      BY <1>3, <3>2 DEF Whole
    <3>4. inode' \in Seq(SUBSET Whole) /\ Len(inode') = Len(inode) /\ Misses
      BY <3>1, <3>2, <3>3, Receiving DEF DInv
    <3>5. FilesTyped' /\ LocalStays
      <4>1. missed' \in [Paths -> SUBSET Whole]
        BY <3>4, Missing DEF DInv
      <4> QED
        BY <1>3, <3>1, <3>4, <4>1 DEF DInv, FilesTyped, Whole, LocalStays
    <3>6. block' = [block EXCEPT ![c][k] = AfterUnit(b)]
      BY <2>2, BlockSteps
    <3>7. /\ AfterUnit(b) \in BlockRecords
          /\ AfterUnit(b).first = b.first + 1 /\ AfterUnit(b).last = b.last /\ AfterUnit(b).fd = b.fd
          /\ AfterUnit(b).at = IF b.first = b.last THEN "ended" ELSE "open"
      BY <1>2, <1>4, BlockFields
    <3>8. PICK x \in BlockRecords : x = AfterUnit(b)
      BY <3>7
    <3>9. BlockSound(x)'
      <4>1. x.first = b.first + 1 /\ x.last = b.last /\ x.fd = b.fd /\ (x.at = "ended" \/ b.first # b.last)
        BY <3>7, <3>8
      <4> HIDE DEF b
      <4> QED
        BY <1>3, <3>2, <3>4, <4>1 DEF BlockSound
    <3>10. BlocksTyped
      BY DEF DInv
    <3>11. BlocksTyped'
      <4>1. block' = [block EXCEPT ![c][k] = x] /\ length' = length
        BY <1>3, <3>6, <3>8
      <4>2. Len(inode) \in Nat /\ Len(inode') \in Nat /\ Len(inode) <= Len(inode')
        BY <1>3, <3>4
      <4> QED
        BY <3>9, <3>10, <4>1, <4>2, BlockStep
    <3> QED
      BY <1>3, <3>4, <3>5, <3>11
  <2>3. CASE EndBlock(c, k) \/ BreakBlock(c, k)
    <3>1. UNCHANGED <<world, file, inode>> /\ b.at = "open" /\ Misses
      <4>1. CASE BreakBlock(c, k)
        BY <4>1 DEF BreakBlock, downloadBlock, Misses
      <4>2. CASE EndBlock(c, k)
        <5>1. b.at = "open" /\ Miss("cache", b.first..b.last) /\ UNCHANGED <<world, file, inode>>
          BY <4>2 DEF EndBlock, downloadBlock
        <5>2. b.first \in Nat /\ b.last \in Nat /\ b.last < length
          BY <1>2 DEF BlockSound, BlockRecords
        <5>3. b.first..b.last \in SUBSET Whole /\ "cache" \in Paths
          BY <1>3, <5>2 DEF Whole, Paths
        <5> QED
          BY <5>1, <5>3, Missed DEF DInv
      <4> QED
        BY <2>3, <4>1, <4>2
    <3>2. FilesTyped' /\ LocalStays /\ Len(inode') = Len(inode)
      BY <3>1, Untouched
    <3>3. block' = [block EXCEPT ![c][k] = BrokenOf(b)]
      BY <2>3, BlockSteps
    <3>4. /\ BrokenOf(b) \in BlockRecords
          /\ BrokenOf(b).first = b.first /\ BrokenOf(b).last = b.last
          /\ BrokenOf(b).at = "ended" /\ BrokenOf(b).fd = b.fd
      BY <1>2, <1>4, BlockFields
    <3>5. PICK x \in BlockRecords : x = BrokenOf(b)
      BY <3>4
    <3>6. BlockSound(x)'
      <4>1. x.last = b.last /\ x.fd = b.fd /\ x.at = "ended"
        BY <3>4, <3>5
      <4>2. b.last < length /\ b.fd \in 0..Len(inode)
        BY <1>2 DEF BlockSound
      <4> HIDE DEF b
      <4> QED
        BY <1>3, <3>1, <4>1, <4>2 DEF BlockSound
    <3>7. BlocksTyped
      BY DEF DInv
    <3>8. BlocksTyped'
      <4>1. block' = [block EXCEPT ![c][k] = x] /\ length' = length
        BY <1>3, <3>3, <3>5
      <4>2. Len(inode) \in Nat /\ Len(inode') \in Nat /\ Len(inode) <= Len(inode')
        BY <1>3, <3>1
      <4> QED
        BY <3>6, <3>7, <4>1, <4>2, BlockStep
    <3> QED
      BY <1>3, <3>1, <3>2, <3>8
  <2> QED
    BY <1>1, <2>1, <2>2, <2>3
<1>6. UNCHANGED <<world, at, fd, pos, answer>>
  BY DEF downloadBlock
<1>7. lastErr' = lastErr \/ lastErr' = [lastErr EXCEPT ![c] = TRUE]
  BY <1>1 DEF OpenBlock, ReadBlock, EndBlock, BreakBlock
<1>8. fd'[c] \in 0..Len(inode') /\ pos'[c] \in 0..length
  BY <1>3, <1>5, <1>6 DEF DInv, CallsTyped
<1>9. at' \in [Calls -> Labels] /\ answer' \in [Calls -> Answers]
  BY <1>6 DEF DInv, CallsTyped, Answers
<1>10. Placed(c)'
  <2>1. Placed(c) /\ at[c] = "blocks"
    BY DEF DInv, AllPlaced, downloadBlock
  <2> QED
    BY <1>6, <2>1 DEF Placed, world
<1> QED
  BY <1>3, <1>5, <1>6, <1>7, <1>8, <1>9, <1>10, Framed

\* Any step of any call keeps DInv.
LEMMA StepKeeps ==
    ASSUME DInv, NEW c \in Calls, Step(c)
    PROVE  DInv'
<1>1. Placed(c) /\ request[c] \in Requests /\ request[c].kind \in Kinds
  BY DEF DInv, AllPlaced, WorldTyped, Requests
<1>2. /\ answer[c] \in Answers /\ pos[c] \in 0..length /\ length \in Nat \ {0}
      /\ fd[c] \in 0..Len(inode) /\ Len(inode) \in Nat
  BY LenProperties DEF DInv, CallsTyped, FilesTyped, WorldTyped, Answers
<1>3. Path(c) \in Paths /\ "cache" \in Paths /\ "local" \in Paths
  BY DEF Path, Paths
<1>4. {"failed", "ok", "found"} = Answers \ {"none"}
  BY DEF Answers
<1>5. at[c] # "ended" => answer[c] = "none"
  BY <1>1 DEF Placed
<1>6. CASE Begin(c)
  <2>1. pos[c] = 0 /\ answer[c] = "none" /\ Misses /\ UNCHANGED <<world, file, inode, fd, pos, block, lastErr>>
    BY <1>1, <1>5, <1>6 DEF Begin, Placed, Misses
  <2>2. CASE file[Path(c)] = 0
    <3>1. Goto(c, First(c))
      BY <1>6, <2>2 DEF Begin
    <3>2. /\ First(c) \in {"fetch", "ask", "open", "probe"}
          /\ First(c) = "probe" => request[c].threads >= 2
          /\ request[c].kind = "get_image" => First(c) = "ask"
      BY <1>1 DEF First, Requests
    <3> QED
      BY <1>4, <2>1, <3>1, <3>2, Turned DEF Labels
  <2>3. CASE file[Path(c)] # 0 /\ UsesFound(c)
    BY <1>4, <1>6, <2>1, <2>3, Turned DEF Begin, Labels
  <2>4. CASE file[Path(c)] # 0 /\ ~UsesFound(c)
    <3>1. PICK l \in {"fetch", "remove"} : Goto(c, l)
      BY <1>6, <2>4 DEF Begin
    <3>2. request[c].kind # "get_image"
      BY <2>4 DEF UsesFound
    <3> QED
      BY <1>4, <2>1, <3>1, <3>2, Turned DEF Labels
  <2> QED
    BY <2>2, <2>3, <2>4
<1>7. CASE RemoveOld(c)
  <2>1. pos[c] = 0 /\ answer[c] = "none" /\ request[c].kind # "get_image"
    BY <1>1, <1>5, <1>7 DEF RemoveOld, Placed
  <2>2. PICK l \in {"fetch", "open", "probe"} :
            (Goto(c, l) /\ (l = "probe" => request[c].threads >= 2)) \/ End(c, "failed")
    <3>1. First(c) \in {"fetch", "open", "probe"} /\ (First(c) = "probe" => request[c].threads >= 2)
      BY <1>1, <2>1 DEF First, Requests
    <3> QED
      BY <1>7, <3>1 DEF RemoveOld
  <2>3. file' = [file EXCEPT !["cache"] = 0] /\ UNCHANGED <<world, inode, missed, fd, pos, block, lastErr>>
    BY <1>7 DEF RemoveOld
  <2>4. FilesTyped' /\ Misses /\ LocalStays
    BY <1>2, <1>3, <2>3 DEF DInv, FilesTyped, Whole, world, Paths, Misses, LocalStays
  <2>5. BlocksTyped'
    BY <1>2, <2>3, BlocksKept DEF DInv, world
  <2>6. l \in Labels /\ "failed" \in Answers \ {"none"}
    BY <1>4 DEF Labels
  <2>7. /\ at' \in [Calls -> Labels] /\ answer' \in [Calls -> Answers]
        /\ \A d \in Calls \ {c} : at'[d] = at[d] /\ answer'[d] = answer[d]
        /\ Goto(c, l) => at'[c] = l /\ answer'[c] = "none"
        /\ End(c, "failed") => at'[c] = "ended" /\ answer'[c] = "failed"
    BY <2>1, <2>2, <2>6, Turning DEF DInv
  <2>8. Placed(c)'
    BY <1>1, <2>1, <2>2, <2>3, <2>7 DEF Placed, world
  <2> QED
    BY <1>2, <2>3, <2>4, <2>5, <2>7, <2>8, Framed
<1>8. CASE OpenFile(c)
  <2>1. answer[c] = "none" /\ request[c].kind # "get_image"
    BY <1>1, <1>5, <1>8 DEF OpenFile, Placed
  <2> QED
    BY <1>3, <1>8, <2>1, OpenedTurn DEF OpenFile
<1>9. CASE DownloadFile(c)
  <2>1. /\ answer[c] = "none" /\ fd[c] # 0 /\ Misses
        /\ UNCHANGED <<world, file, inode, fd, pos, block, lastErr>>
    BY <1>1, <1>5, <1>9 DEF DownloadFile, Placed, Misses
  <2>2. End(c, "failed") \/ Goto(c, "copy")
    BY <1>9 DEF DownloadFile
  <2>3. "copy" \in Labels
    BY DEF Labels
  <2> QED
    BY <1>4, <2>1, <2>2, <2>3, Turned
<1>10. CASE Copy(c)
  <2>1. at[c] = "copy" /\ fd[c] # 0 /\ UNCHANGED <<world, file, fd, block, lastErr>>
    BY <1>1, <1>10 DEF Copy, Placed
  <2>2. CASE /\ pos[c] < length /\ Receive(Path(c), fd[c], {pos[c]})
             /\ pos' = [pos EXCEPT ![c] = @ + 1] /\ UNCHANGED <<at, answer>>
    <3>1. {pos[c]} \in SUBSET Whole
      BY <1>2, <2>2 DEF Whole
    <3> QED
      BY <1>3, <2>1, <2>2, <3>1, WrittenTurn
  <2>3. CASE UNCHANGED <<inode, pos>> /\ Misses /\ \E how \in {"ok", "failed"} : End(c, how)
    BY <1>4, <2>1, <2>3, Turned DEF Labels
  <2>4. CASE UNCHANGED <<inode, pos>> /\ Miss(Path(c), pos[c]..length - 1) /\ End(c, "ok")
    <3>1. pos[c]..length - 1 \in SUBSET Whole
      BY <1>2 DEF Whole
    <3>2. Misses
      BY <1>3, <2>4, <3>1, Missed DEF DInv
    <3> QED
      BY <2>3, <2>4, <3>2
  <2> QED
    BY <1>10, <2>2, <2>3, <2>4 DEF Copy, Misses
<1>11. CASE initOrDownload(c)
  <2>1. /\ pos[c] = 0 /\ answer[c] = "none" /\ request[c].kind # "get_image"
        /\ UNCHANGED <<world, file, inode, fd, pos, lastErr>> /\ Misses
    BY <1>1, <1>5, <1>11 DEF initOrDownload, Placed, Misses
  <2>2. CASE block' = block /\ (End(c, "failed") \/ Goto(c, "stream") \/ Goto(c, "endless"))
    <3>1. PICK l \in {"stream", "endless"} : End(c, "failed") \/ Goto(c, l)
      BY <2>2
    <3> QED
      BY <1>4, <2>1, <2>2, <3>1, Turned DEF Labels
  <2>3. CASE /\ Goto(c, "blocks") /\ BlockSize(length, request[c].threads) > 0
             /\ block' = [block EXCEPT ![c] = Blocks(length, BlockSize(length, request[c].threads))]
    <3>1. BlockSize(length, request[c].threads) \in Nat \ {0}
      <4>1. request[c].threads \in Nat \ {0}
        BY <1>1, <1>11 DEF initOrDownload, Placed, Requests
      <4>2. length \div request[c].threads \in Nat
        BY <1>2, <4>1, DivNat
      <4> QED
        BY <2>3, <4>2, SizesAssumption DEF BlockSize
    <3>2. BlocksTyped'
      BY <2>1, <2>3, <3>1, BlocksMade DEF world
    <3>3. FilesTyped' /\ LocalStays /\ Len(inode') = Len(inode)
      BY <2>1, Untouched
    <3>4. /\ at' \in [Calls -> Labels] /\ answer' \in [Calls -> Answers]
          /\ \A d \in Calls \ {c} : at'[d] = at[d] /\ answer'[d] = answer[d]
          /\ at'[c] = "blocks" /\ answer'[c] = "none"
      <4>1. "blocks" \in Labels /\ "ok" \in Answers \ {"none"}
        BY <1>4 DEF Labels
      <4> QED
        BY <2>1, <2>3, <4>1, Turning DEF DInv
    <3>5. Placed(c)'
      BY <1>1, <2>1, <3>4 DEF Placed, world
    <3> QED
      BY <1>2, <2>1, <3>2, <3>3, <3>4, <3>5, Framed
  <2> QED
    BY <1>11, <2>2, <2>3 DEF initOrDownload
<1>12. CASE copyStream(c)
  <2>1. answer[c] = "none" /\ request[c].kind # "get_image"
    BY <1>1, <1>5, <1>12 DEF copyStream, Placed
  <2> QED
    BY <1>3, <1>12, <2>1, OpenedTurn DEF copyStream
<1>13. CASE MoreBlocks(c)
  BY <1>13 DEF MoreBlocks, vars, DInv, WorldTyped, FilesTyped, CallsTyped, BlocksTyped, BlockSound,
               AllPlaced, Placed, Whole
<1>14. CASE downloadBlock(c)
  BY <1>14, BlockStepKeeps
<1>15. CASE Wait(c)
  <2>1. Misses /\ \E how \in {"ok", "failed"} : End(c, how)
    BY <1>15 DEF Wait, Misses
  <2> QED
    BY <1>4, <1>15, <2>1, Turned DEF Labels, Wait
<1>16. CASE GetBytes(c)
  <2>1. answer[c] = "none" /\ request[c].kind # "get_image" /\ UNCHANGED <<world, file, inode, fd, block>>
    BY <1>1, <1>5, <1>16 DEF GetBytes, Placed
  <2>2. PICK n \in 0..length : /\ pos' = [pos EXCEPT ![c] = n]
                               /\ \/ Miss("cache", n..length - 1) /\ UNCHANGED lastErr
                                  \/ lastErr' = [lastErr EXCEPT ![c] = TRUE] /\ UNCHANGED missed
    <3>1. PICK n \in {0, 1, length} :
             /\ pos' = [pos EXCEPT ![c] = n]
             /\ \/ Miss("cache", n..length - 1) /\ UNCHANGED lastErr
                \/ lastErr' = [lastErr EXCEPT ![c] = TRUE] /\ UNCHANGED missed
      BY <1>16 DEF GetBytes
    <3>2. n \in 0..length
      BY <1>2, <3>1
    <3> QED
      BY <3>1, <3>2
  <2>3. Misses /\ (lastErr'[c] \/ n..length - 1 \subseteq missed'["cache"])
    <3>1. n..length - 1 \in SUBSET Whole
      BY <1>2 DEF Whole
    <3> QED
      BY <1>3, <2>2, <3>1, Missed DEF DInv, CallsTyped, Misses
  <2>4. FilesTyped' /\ LocalStays /\ BlocksTyped' /\ Len(inode') = Len(inode)
    BY <2>1, <2>3, Untouched
  <2>5. /\ at' \in [Calls -> Labels] /\ answer' \in [Calls -> Answers]
        /\ \A d \in Calls \ {c} : at'[d] = at[d] /\ answer'[d] = answer[d]
        /\ at'[c] = "save" /\ answer'[c] = "none"
    <3>1. "save" \in Labels /\ "ok" \in Answers \ {"none"} /\ Goto(c, "save")
      BY <1>4, <1>16 DEF Labels, GetBytes
    <3> QED
      BY <2>1, <3>1, Turning DEF DInv
  <2>6. pos'[c] \in 0..length /\ pos'[c] = n
    BY <2>2 DEF DInv, CallsTyped
  <2>7. Placed(c)'
    BY <2>1, <2>5, <2>6, <2>3 DEF Placed, world
  <2>8. pos' = pos \/ \E q : pos' = [pos EXCEPT ![c] = q]
    BY <2>2
  <2>9. fd'[c] \in 0..Len(inode') /\ Len(inode') \in Nat /\ Len(inode) <= Len(inode')
    BY <1>2, <2>1, <2>4
  <2>10. UNCHANGED world /\ fd' = fd /\ (lastErr' = lastErr \/ lastErr' = [lastErr EXCEPT ![c] = TRUE])
    BY <2>1, <2>2
  <2> QED
    BY <1>2, <2>4, <2>5, <2>7, <2>6, <2>8, <2>9, <2>10, <2>3, Framed
<1>17. CASE WriteFile(c)
  <2>1. answer[c] = "none" /\ request[c].kind # "get_image"
    BY <1>1, <1>5, <1>17 DEF WriteFile, Placed
  <2>2. CASE /\ OpenTruncated("cache") /\ fd' = [fd EXCEPT ![c] = Opened("cache")]
             /\ Goto(c, "fill") /\ UNCHANGED missed
    BY <1>3, <1>17, <2>1, <2>2, OpenedTurn DEF WriteFile
  <2>3. CASE /\ Miss("cache", Whole) /\ UNCHANGED <<file, inode, fd>>
             /\ End(c, IF lastErr[c] THEN "failed" ELSE "ok")
    <3>1. Misses
      BY <1>3, <2>3, Missed DEF DInv, Misses
    <3>2. \E how \in Answers \ {"none"} : End(c, how)
      BY <1>4, <2>3
    <3> QED
      BY <1>4, <1>17, <2>3, <3>1, <3>2, Turned DEF WriteFile, Labels
  <2> QED
    BY <1>17, <2>2, <2>3 DEF WriteFile
<1>18. CASE FindFile(c)
  <2>1. /\ at[c] = "fill" /\ fd[c] # 0 /\ Receive("cache", fd[c], 0..pos[c] - 1)
        /\ UNCHANGED <<world, file, fd, pos, block, lastErr>>
    BY <1>1, <1>18 DEF FindFile, Placed
  <2>2. 0..pos[c] - 1 \in SUBSET Whole
    BY <1>2 DEF Whole
  <2>3. \E how \in Answers \ {"none"} : End(c, how)
    BY <1>4, <1>18 DEF FindFile
  <2> QED
    BY <1>3, <2>1, <2>2, <2>3, WrittenTurn
<1>19. CASE CQGetImage(c)
  <2>1. answer[c] = "none" /\ Misses /\ UNCHANGED <<world, missed, pos, block, lastErr>>
    BY <1>5, <1>19 DEF CQGetImage, Misses
  <2>2. CASE End(c, "failed") /\ UNCHANGED <<file, inode, fd>>
    BY <1>4, <2>1, <2>2, Turned DEF Labels
  <2>3. CASE /\ OpenTruncated("local") /\ fd' = [fd EXCEPT ![c] = Opened("local")]
             /\ Goto(c, "copy")
    BY <1>3, <2>1, <2>3, OpenedTurn
  <2> QED
    BY <1>19, <2>2, <2>3 DEF CQGetImage
<1> QED
  BY <1>6, <1>7, <1>8, <1>9, <1>10, <1>11, <1>12, <1>13, <1>14, <1>15, <1>16, <1>17, <1>18, <1>19
  DEF Step

\* DInv holds at the start.
LEMMA Started == ASSUME Init PROVE DInv
<1>1. WorldTyped
  BY CasesAssumption DEF Init, WorldTyped
<1>2. FilesTyped
  BY EmptySeq DEF Init, FilesTyped, Paths
<1>3. inode = <<>> /\ Len(inode) = 0
  BY DEF Init
<1>4. CallsTyped
  BY <1>1, <1>3 DEF Init, CallsTyped, Labels, WorldTyped
<1>5. BlocksTyped
  <2>1. <<>> \in [{} -> BlockRecords] /\ {} \in SUBSET Nat
    OBVIOUS
  <2>2. <<>> \in BlockLists
    BY <2>1 DEF BlockLists
  <2>3. ASSUME NEW c \in Calls PROVE block[c] = <<>> /\ DOMAIN block[c] = {}
    BY <2>1 DEF Init
  <2> QED
    BY <2>2, <2>3 DEF Init, BlocksTyped
<1>6. AllPlaced
  BY DEF Init, AllPlaced, Placed
<1> QED
  BY <1>1, <1>2, <1>4, <1>5, <1>6 DEF DInv

\* DInv holds on where nothing changes.
LEMMA Standing == ASSUME DInv, UNCHANGED vars PROVE DInv'
BY DEF vars, DInv, WorldTyped, FilesTyped, CallsTyped, BlocksTyped, BlockSound, AllPlaced, Placed, Whole

\* DInv is an invariant.
LEMMA Invariant == Spec => []DInv
<1>1. Init => DInv
  BY Started
<1>2. DInv /\ [Next]_vars => DInv'
  BY StepKeeps, Standing DEF Next, Quiet
<1> QED
  BY <1>1, <1>2, PTL DEF Spec

\* Whatever the calls, the lengths and the number of threads, no call writes to
\* a file that is not there or past the length of what it fetches, and the
\* blocks of a call stay within the file.
THEOREM TypeCorrect == Spec => []TypeOK
<1>1. DInv => TypeOK
  BY DInvTypes
<1> QED
  BY <1>1, Invariant, PTL

----------------------------------------------------------------------------
(* Who will make the file whole.                                             *)

Fetchers == {c \in Calls : Path(c) = "cache"}

\* A call that is to ask for the whole file, or to write all it asked for.
Before == {"remove", "open", "probe", "stream", "fetch", "save", "endless"}

\* What a block, and a call, has still to write into the file of the name.
Left(b) == IF b.at = "new" \/ (b.at = "open" /\ b.fd = file["cache"]) THEN b.first..b.last ELSE {}
Pending(c) ==
    CASE at[c] \in Before -> Whole
      [] at[c] \in {"request", "copy"} /\ fd[c] = file["cache"] -> pos[c]..length - 1
      [] at[c] = "fill" /\ fd[c] = file["cache"] -> 0..pos[c] - 1
      [] at[c] = "blocks" -> UNION {Left(block[c][k]) : k \in DOMAIN block[c]}
      [] OTHER -> {}

\* What is in it, or was missed.
There == Content("cache") \cup missed["cache"]

\* A call that has failed, or will.
Bad(c) ==
    \/ answer[c] = "failed"
    \/ at[c] \in {"blocks", "save", "fill"} /\ lastErr[c]

Covers(c) ==
    /\ at[c] # "idle" /\ answer[c] # "found"
    /\ Whole \subseteq There \cup Pending(c)

\* If none fails, some call will have made the file, all but what is missed,
\* once one has begun.
CoverInv ==
    (\A c \in Fetchers : ~Bad(c)) =>
        \/ file["cache"] = 0 /\ \A c \in Fetchers : at[c] = "idle"
        \/ \E c \in Fetchers : Covers(c)

\* The file of the name is the same, if there was one, and has lost nothing.
Stays == There \subseteq There' /\ (file["cache"] # 0 => file'["cache"] = file["cache"])

\* Opening a file takes nothing from the file of the name.
LEMMA StaysOpen ==
    ASSUME DInv, NEW p \in Paths, Open(p), UNCHANGED missed
    PROVE  Stays
<1>1. /\ Len(inode) \in Nat
      /\ \A i \in 1..Len(inode) : inode'[i] = inode[i]
      /\ \A q \in Paths \ {p} : file'[q] = file[q]
      /\ file[p] # 0 => file'[p] = file[p]
  BY Opening DEF DInv
<1>2. "cache" \in Paths /\ file["cache"] \in 0..Len(inode)
  BY DEF Paths, DInv, FilesTyped
<1>3. file["cache"] # 0 => file'["cache"] = file["cache"]
  BY <1>1, <1>2
<1>4. CASE file["cache"] = 0
  BY <1>4 DEF Stays, There, Content
<1>5. CASE file["cache"] # 0
  <2>1. file["cache"] \in 1..Len(inode)
    BY <1>1, <1>2, <1>5
  <2>2. inode'[file["cache"]] = inode[file["cache"]]
    BY <1>1, <2>1
  <2> QED
    BY <1>3, <1>5, <2>2 DEF Stays, There, Content
<1> QED
  BY <1>4, <1>5

\* Nor does truncating that of get_image, which is another.
LEMMA StaysLocal ==
    ASSUME DInv, OpenTruncated("local"), UNCHANGED missed
    PROVE  Stays
<1>1. "local" \in Paths /\ "cache" \in Paths /\ "cache" # "local"
  BY DEF Paths
<1>2. /\ Len(inode) \in Nat
      /\ \A i \in 1..Len(inode) : i # file["local"] => inode'[i] = inode[i]
      /\ \A q \in Paths \ {"local"} : file'[q] = file[q]
  BY <1>1, Truncating DEF DInv
<1>3. file'["cache"] = file["cache"]
  BY <1>1, <1>2
<1>4. CASE file["cache"] = 0
  BY <1>3, <1>4 DEF Stays, There, Content
<1>5. CASE file["cache"] # 0
  <2>1. file["cache"] \in 1..Len(inode) /\ file["cache"] # file["local"]
    BY <1>1, <1>2, <1>5 DEF DInv, FilesTyped
  <2>2. inode'[file["cache"]] = inode[file["cache"]]
    BY <1>2, <2>1
  <2> QED
    BY <1>3, <1>5, <2>2 DEF Stays, There, Content
<1> QED
  BY <1>4, <1>5

\* Nor does writing to any file: a unit that it loses has been missed.
LEMMA StaysWrite ==
    ASSUME DInv, NEW p \in Paths, NEW i \in 1..Len(inode), NEW units \in SUBSET Whole,
           Receive(p, i, units), i = file["cache"] => p = "cache", file' = file
    PROVE  Stays /\ (i = file["cache"] => units \subseteq There')
<1>1. /\ Len(inode) \in Nat
      /\ \A j \in 1..Len(inode) \ {i} : inode'[j] = inode[j]
      /\ inode[i] \cup units \subseteq inode'[i] \cup missed'[p]
      /\ missed["cache"] \subseteq missed'["cache"]
  BY Receiving, Missing DEF DInv, Paths
<1>2. file["cache"] \in 0..Len(inode)
  BY DEF Paths, DInv, FilesTyped
<1>3. CASE file["cache"] = 0
  BY <1>1, <1>3 DEF Stays, There, Content
<1>4. CASE file["cache"] # 0
  <2>1. file["cache"] \in 1..Len(inode)
    BY <1>1, <1>2, <1>4
  <2>2. inode[file["cache"]] \subseteq inode'[file["cache"]] \cup missed'["cache"]
    BY <1>1, <2>1
  <2> QED
    BY <1>1, <1>4, <2>2 DEF Stays, There, Content
<1> QED
  BY <1>3, <1>4

\* Nor does a step that leaves files alone.
LEMMA StaysSame ==
    ASSUME DInv, UNCHANGED <<file, inode>>, Misses
    PROVE  Stays
<1>1. missed["cache"] \subseteq missed'["cache"]
  BY Missing DEF DInv, Paths
<1> QED
  BY <1>1 DEF Stays, There, Content

\* The other calls keep what they have.
LEMMA OthersKeep ==
    ASSUME DInv, NEW c \in Calls, Step(c), NEW d \in Calls \ {c}
    PROVE  /\ at'[d] = at[d] /\ answer'[d] = answer[d] /\ fd'[d] = fd[d]
           /\ pos'[d] = pos[d] /\ lastErr'[d] = lastErr[d] /\ block'[d] = block[d]
           /\ UNCHANGED world
<1>1. UNCHANGED world
  BY DEF Step, Begin, RemoveOld, OpenFile, DownloadFile, Copy, initOrDownload, copyStream, MoreBlocks, vars,
         downloadBlock, Wait, GetBytes, WriteFile, FindFile, CQGetImage, world
<1>2. at'[d] = at[d] /\ answer'[d] = answer[d]
  BY DEF DInv, CallsTyped, Goto, End, Step, Begin, RemoveOld, OpenFile, DownloadFile, Copy, initOrDownload,
         copyStream, MoreBlocks, vars, downloadBlock, Wait, GetBytes, WriteFile, FindFile, CQGetImage
<1>3. fd'[d] = fd[d] /\ pos'[d] = pos[d]
  BY DEF DInv, CallsTyped, Step, Begin, RemoveOld, OpenFile, DownloadFile, Copy, initOrDownload,
         copyStream, MoreBlocks, vars, downloadBlock, Wait, GetBytes, WriteFile, FindFile, CQGetImage
<1>4. lastErr'[d] = lastErr[d]
  BY DEF DInv, CallsTyped, Step, Begin, RemoveOld, OpenFile, DownloadFile, Copy, initOrDownload,
         copyStream, MoreBlocks, vars, downloadBlock, OpenBlock, ReadBlock, EndBlock, BreakBlock, Wait,
         GetBytes, WriteFile, FindFile, CQGetImage
<1>5. block'[d] = block[d]
  BY DEF DInv, BlocksTyped, Step, Begin, RemoveOld, OpenFile, DownloadFile, Copy, initOrDownload,
         copyStream, MoreBlocks, vars, downloadBlock, OpenBlock, ReadBlock, EndBlock, BreakBlock, Wait,
         GetBytes, WriteFile, FindFile, CQGetImage
<1> QED
  BY <1>1, <1>2, <1>3, <1>4, <1>5

\* So they cover what they did, where the file of the name stays.
LEMMA OthersCover ==
    ASSUME DInv, NEW c \in Calls, Step(c), NEW d \in Calls \ {c}, Covers(d), Stays
    PROVE  Covers(d)'
<1>1. /\ at'[d] = at[d] /\ answer'[d] = answer[d] /\ fd'[d] = fd[d]
      /\ pos'[d] = pos[d] /\ block'[d] = block[d] /\ length' = length
  BY OthersKeep DEF world
<1>2. Pending(d) \subseteq Pending(d)'
  <2>1. Placed(d)
    BY DEF DInv, AllPlaced
  <2>2. CASE at[d] \in Before
    BY <1>1, <2>2 DEF Pending, Whole
  <2>3. CASE at[d] \in {"request", "copy", "fill"} /\ fd[d] = file["cache"]
    <3>1. file'["cache"] = file["cache"]
      BY <2>1, <2>3 DEF Placed, Stays
    <3> QED
      BY <1>1, <2>3, <3>1 DEF Pending, Before
  <2>4. CASE at[d] = "blocks"
    <3>1. ASSUME NEW k \in DOMAIN block[d] PROVE Left(block[d][k]) \subseteq Left(block[d][k])'
      <4>1. BlockSound(block[d][k])
        BY DEF DInv, BlocksTyped
      <4> QED
        BY <1>1, <4>1 DEF BlockSound, Left, Stays
    <3>2. Pending(d) = UNION {Left(block[d][k]) : k \in DOMAIN block[d]}
      BY <2>4 DEF Pending, Before
    <3>3. Pending(d)' = UNION {Left(block[d][k])' : k \in DOMAIN block[d]}
      BY <1>1, <2>4 DEF Pending, Before
    <3> QED
      BY <3>1, <3>2, <3>3
  <2>5. CASE /\ at[d] \notin Before /\ at[d] # "blocks"
             /\ ~(at[d] \in {"request", "copy", "fill"} /\ fd[d] = file["cache"])
    BY <2>5 DEF Pending
  <2> QED
    BY <2>2, <2>3, <2>4, <2>5
<1>3. There \subseteq There' /\ Whole' = Whole
  BY <1>1 DEF Stays, Whole
<1> QED
  BY <1>1, <1>2, <1>3 DEF Covers

\* A call that is to fail does.
LEMMA BadStays ==
    ASSUME DInv, NEW c \in Calls, Step(c), NEW d \in Fetchers, Bad(d)
    PROVE  Bad(d)'
<1>1. CASE d # c
  BY <1>1, OthersKeep DEF Fetchers, Bad, world
<1>2. CASE d = c
  <2>1. Placed(c) /\ request[c].kind # "get_image"
    BY <1>2 DEF DInv, AllPlaced, Fetchers, Path
  <2>2. CASE answer[c] = "failed"
    <3>1. at[c] = "ended" /\ UNCHANGED vars
      <4>1. at[c] = "ended"
        BY <2>1, <2>2 DEF Placed
      <4> QED
        BY <4>1 DEF Step, Begin, RemoveOld, OpenFile, DownloadFile, Copy, initOrDownload, copyStream, MoreBlocks,
                    downloadBlock, Wait, GetBytes, WriteFile, FindFile, CQGetImage
    <3> QED
      BY <1>2, <2>2, <3>1 DEF Bad, vars
  <2>3. CASE at[c] = "blocks" /\ lastErr[c]
    <3>1. downloadBlock(c) \/ Wait(c)
      BY <2>3 DEF Step, Begin, RemoveOld, OpenFile, DownloadFile, Copy, initOrDownload, copyStream, MoreBlocks,
                  GetBytes, WriteFile, FindFile, CQGetImage
    <3>2. CASE downloadBlock(c)
      BY <1>2, <2>3, <3>2 DEF DInv, CallsTyped, Bad, downloadBlock, OpenBlock, ReadBlock, EndBlock, BreakBlock
    <3>3. CASE Wait(c)
      BY <1>2, <2>3, <3>3 DEF DInv, CallsTyped, Bad, Wait, End
    <3> QED
      BY <3>1, <3>2, <3>3
  <2>4. CASE at[c] \in {"save", "fill"} /\ lastErr[c]
    <3>1. WriteFile(c) \/ FindFile(c)
      BY <2>4 DEF Step, Begin, RemoveOld, OpenFile, DownloadFile, Copy, initOrDownload, copyStream, MoreBlocks,
                  downloadBlock, Wait, GetBytes, CQGetImage
    <3>2. CASE WriteFile(c)
      BY <1>2, <2>4, <3>2 DEF DInv, CallsTyped, Bad, WriteFile, Goto, End, world
    <3>3. CASE FindFile(c)
      BY <1>2, <2>4, <3>3 DEF DInv, CallsTyped, Bad, FindFile, End
    <3> QED
      BY <3>1, <3>2, <3>3
  <2> QED
    BY <1>2, <2>2, <2>3, <2>4 DEF Bad
<1> QED
  BY <1>1, <1>2

\* Where the file of the name stays, what a step has to show is that the call
\* that takes it goes on to cover the file, if it did.
LEMMA CoverOn ==
    ASSUME DInv, NEW c \in Calls, Step(c), NEW w \in Fetchers, Covers(w), Stays,
           c \in Fetchers /\ Covers(c) => Covers(c)'
    PROVE  \E d \in Fetchers : Covers(d)'
<1>1. CASE w = c
  BY <1>1
<1>2. CASE w # c
  BY <1>2, OthersCover DEF Fetchers
<1> QED
  BY <1>1, <1>2

\* A call that has all before it covers the file.
LEMMA FreshCover ==
    ASSUME NEW c \in Calls, at'[c] \in Before, answer'[c] = "none"
    PROVE  Covers(c)'
<1>1. Pending(c)' = Whole'
  BY DEF Pending, Before
<1> QED
  BY <1>1 DEF Covers, Before

\* So does one that has opened the file of the name and has not written to it.
LEMMA OpenedCover ==
    ASSUME NEW c \in Calls, at'[c] \in {"request", "copy"}, answer'[c] = "none",
           fd'[c] = file'["cache"], file'["cache"] # 0, pos'[c] = 0
    PROVE  Covers(c)'
<1>1. Pending(c)' = Whole'
  BY DEF Pending, Whole, Before
<1> QED
  BY <1>1 DEF Covers

\* The threads of a call lose nothing of what is to be written, if none fails.
LEMMA BlockCover ==
    ASSUME DInv, NEW c \in Calls, Step(c), downloadBlock(c), ~Bad(c)'
    PROVE  Stays /\ (Covers(c) => Covers(c)')
<1>1. PICK k \in DOMAIN block[c] : OpenBlock(c, k) \/ ReadBlock(c, k) \/ EndBlock(c, k) \/ BreakBlock(c, k)
  BY DEF downloadBlock
<1> DEFINE b == block[c][k]
<1>2. b \in BlockRecords /\ BlockSound(b) /\ BlocksTyped
  BY BlockTyped DEF DInv
<1>3. /\ at[c] = "blocks" /\ at'[c] = "blocks" /\ answer'[c] = answer[c] /\ length' = length
      /\ Whole' = Whole /\ Len(inode) \in Nat
  BY LenProperties DEF downloadBlock, world, Whole, DInv, FilesTyped
<1>4. Opened("cache") \in Nat
  BY <1>3 DEF Opened, DInv, FilesTyped, Paths
<1>5. ~BreakBlock(c, k)
  BY <1>3 DEF Bad, BreakBlock, DInv, CallsTyped
<1>6. /\ Stays
      /\ file'["cache"] # 0 \/ b.at = "open"
      /\ \E x \in BlockRecords : /\ block' = [block EXCEPT ![c][k] = x]
                                 /\ Left(b) \subseteq There' \cup Left(x)'
  <2>1. CASE OpenBlock(c, k)
    <3>1. Open("cache") /\ "cache" \in Paths /\ b.at = "new" /\ UNCHANGED missed
      BY <2>1 DEF OpenBlock, Paths
    <3>2. Stays /\ file'["cache"] = Opened("cache") /\ file'["cache"] # 0
      BY <3>1, StaysOpen, Opening DEF DInv
    <3>3. PICK x \in BlockRecords : x = OpenedOf(b)
      BY <1>2, <1>4, BlockFields
    <3>4. x.first = b.first /\ x.last = b.last /\ x.at = "open" /\ x.fd = Opened("cache")
      BY <1>2, <1>4, <3>3, BlockFields
    <3>5. block' = [block EXCEPT ![c][k] = x]
      BY <2>1, <3>3, BlockSteps
    <3>6. Left(b) = b.first..b.last /\ Left(x)' = b.first..b.last
      BY <3>1, <3>2, <3>4 DEF Left
    <3> QED
      BY <3>2, <3>5, <3>6
  <2>2. CASE ReadBlock(c, k)
    <3>1. b.at = "open" /\ Receive("cache", b.fd, {b.first}) /\ file' = file /\ "cache" \in Paths
      BY <2>2 DEF ReadBlock, Paths
    <3>2. /\ b.first \in Nat /\ b.last \in Nat /\ b.first <= b.last /\ b.last < length
          /\ b.fd \in 1..Len(inode) /\ length \in Nat
      BY <1>2, <1>3, <3>1 DEF BlockSound, BlockRecords, DInv, WorldTyped
    <3>3. {b.first} \in SUBSET Whole
      BY <3>2 DEF Whole
    <3>4. Stays /\ (b.fd = file["cache"] => {b.first} \subseteq There')
      BY <3>1, <3>2, <3>3, StaysWrite
    <3>5. PICK x \in BlockRecords : x = AfterUnit(b)
      BY <1>2, <1>4, BlockFields
    <3>6. /\ x.first = b.first + 1 /\ x.last = b.last /\ x.fd = b.fd
          /\ x.at = IF b.first = b.last THEN "ended" ELSE "open"
      BY <1>2, <1>4, <3>5, BlockFields
    <3>7. block' = [block EXCEPT ![c][k] = x]
      BY <2>2, <3>5, BlockSteps
    <3>8. Left(b) \subseteq There' \cup Left(x)'
      <4>1. CASE b.fd # file["cache"]
        BY <3>1, <4>1 DEF Left
      <4>2. CASE b.fd = file["cache"] /\ b.first = b.last
        <5>1. Left(b) = {b.first}
          BY <3>1, <3>2, <4>2 DEF Left
        <5> QED
          BY <3>4, <4>2, <5>1
      <4>3. CASE b.fd = file["cache"] /\ b.first # b.last
        <5>1. Left(b) = b.first..b.last
          BY <3>1, <4>3 DEF Left
        <5>2. Left(x)' = b.first + 1..b.last
          BY <3>1, <3>6, <4>3 DEF Left
        <5>3. b.first..b.last \subseteq {b.first} \cup (b.first + 1..b.last)
          BY <3>2
        <5> QED
          BY <3>4, <4>3, <5>1, <5>2, <5>3
      <4> QED
        BY <4>1, <4>2, <4>3
    <3> QED
      BY <3>1, <3>4, <3>7, <3>8
  <2>3. CASE EndBlock(c, k)
    <3>1. b.at = "open" /\ Miss("cache", b.first..b.last) /\ UNCHANGED <<file, inode>> /\ "cache" \in Paths
      BY <2>3 DEF EndBlock, Paths
    <3>2. b.first \in Nat /\ b.last \in Nat /\ b.last < length /\ length \in Nat
      BY <1>2 DEF BlockSound, BlockRecords, DInv, WorldTyped
    <3>3. b.first..b.last \in SUBSET Whole
      BY <3>2 DEF Whole
    <3>4. Misses /\ b.first..b.last \subseteq missed'["cache"]
      BY <3>1, <3>3, Missed DEF DInv
    <3>5. Stays
      BY <3>1, <3>4, StaysSame
    <3>6. PICK x \in BlockRecords : x = BrokenOf(b)
      BY <1>2, <1>4, BlockFields
    <3>7. block' = [block EXCEPT ![c][k] = x]
      BY <2>3, <3>6, BlockSteps
    <3>8. Left(b) \subseteq There'
      BY <3>4 DEF Left, There, Content
    <3> QED
      BY <3>1, <3>5, <3>7, <3>8
  <2> QED
    BY <1>1, <1>5, <2>1, <2>2, <2>3
<1>7. PICK x \in BlockRecords : /\ block' = [block EXCEPT ![c][k] = x]
                                /\ Left(b) \subseteq There' \cup Left(x)'
  BY <1>6
<1>8. /\ DOMAIN block'[c] = DOMAIN block[c] /\ block'[c][k] = x
      /\ \A j \in DOMAIN block[c] \ {k} : block'[c][j] = block[c][j]
  BY <1>2, <1>7, BlockReplaced
<1>9. ASSUME NEW j \in DOMAIN block[c] PROVE Left(block[c][j]) \subseteq There' \cup Left(block[c][j])'
  <2>1. CASE j = k
    BY <1>7, <1>8, <2>1
  <2>2. CASE j # k
    <3>1. block'[c][j] = block[c][j] /\ BlockSound(block[c][j])
      BY <1>2, <1>8, <2>2, BlockTyped
    <3> QED
      BY <1>6, <3>1 DEF Left, Stays, BlockSound
  <2> QED
    BY <2>1, <2>2
<1>10. Pending(c) = UNION {Left(block[c][j]) : j \in DOMAIN block[c]}
  BY <1>3 DEF Pending, Before
<1>11. Pending(c)' = UNION {Left(block[c][j])' : j \in DOMAIN block[c]}
  BY <1>3, <1>8 DEF Pending, Before
<1>12. Pending(c) \subseteq There' \cup Pending(c)'
  BY <1>9, <1>10, <1>11
<1> QED
  BY <1>3, <1>6, <1>12 DEF Covers, Stays

\* The list of a call that starts to fetch in blocks leaves nothing out.
LEMMA BlocksCover ==
    ASSUME DInv, NEW c \in Calls, initOrDownload(c), at'[c] = "blocks"
    PROVE  Covers(c)'
<1>1. at[c] = "probe" /\ UNCHANGED <<world, file>> /\ length' = length /\ Whole' = Whole
  BY DEF initOrDownload, world, Whole
<1>2. /\ BlockSize(length, request[c].threads) > 0
      /\ block' = [block EXCEPT ![c] = Blocks(length, BlockSize(length, request[c].threads))]
      /\ answer' = answer
  BY DEF initOrDownload, Goto, End, DInv, CallsTyped
<1>3. length \in Nat \ {0} /\ BlockSize(length, request[c].threads) \in Nat \ {0}
  <2>1. length \in Nat \ {0} /\ request[c] \in Requests /\ Placed(c)
    BY DEF DInv, WorldTyped, AllPlaced
  <2>2. request[c].threads \in Nat \ {0}
    BY <1>1, <2>1 DEF Placed, Requests
  <2>3. length \div request[c].threads \in Nat
    BY <2>1, <2>2, DivNat
  <2> QED
    BY <1>2, <2>1, <2>3, SizesAssumption DEF BlockSize
<1>4. PICK size \in Nat \ {0} : size = BlockSize(length, request[c].threads)
  BY <1>3
<1> DEFINE list == Blocks(length, size)
<1>5. block'[c] = list
  BY <1>2, <1>4 DEF DInv, BlocksTyped
<1>6. UNION {Units(list[k]) : k \in DOMAIN list} = Whole
  BY <1>3, BlocksTile DEF Whole
<1>7. ASSUME NEW k \in DOMAIN list PROVE Left(list[k])' = Units(list[k])
  <2>1. PICK b \in [first : Nat, last : Nat, at : {"new"}, fd : {0}] : b = list[k]
    BY <1>3, BlocksShape
  <2>2. Left(b)' = Units(b)
    BY <2>1 DEF Left, Units
  <2>3. list' = list
    BY <1>1
  <2> QED
    BY <2>1, <2>2, <2>3
<1>8. Pending(c)' = UNION {Left(block[c][k])' : k \in DOMAIN block'[c]}
  BY DEF Pending, Before
<1>9. \A k \in DOMAIN list : Left(block[c][k])' = Units(list[k])
  <2>1. ASSUME NEW k \in DOMAIN list PROVE Left(block[c][k])' = Units(list[k])
    <3>1. block'[c][k] = list[k] /\ list' = list
      BY <1>1, <1>5
    <3>2. Left(list[k])' = Left(block[c][k])'
      BY <3>1 DEF Left
    <3> QED
      BY <1>7, <3>2
  <2> QED
    BY <2>1
<1>10. Pending(c)' = Whole
  <2> HIDE DEF list
  <2> QED
    BY <1>5, <1>6, <1>8, <1>9
<1>11. answer'[c] # "found"
  BY <1>1, <1>2 DEF DInv, AllPlaced, Placed
<1> QED
  BY <1>1, <1>10, <1>11 DEF Covers

\* Any step of any call keeps CoverInv.
LEMMA CoverStep ==
    ASSUME DInv, CoverInv, NEW c \in Calls, Step(c)
    PROVE  CoverInv'
<1>1. Fetchers' = Fetchers
  BY DEF Fetchers, Path, Step, Begin, RemoveOld, OpenFile, DownloadFile, Copy, initOrDownload, copyStream,
         MoreBlocks, vars, downloadBlock, Wait, GetBytes, WriteFile, FindFile, CQGetImage, world
<1>2. SUFFICES ASSUME \A d \in Fetchers : ~Bad(d)'
               PROVE  \/ file'["cache"] = 0 /\ \A d \in Fetchers : at'[d] = "idle"
                      \/ \E d \in Fetchers : Covers(d)'
  BY <1>1 DEF CoverInv
<1>3. \A d \in Fetchers : ~Bad(d)
  BY <1>2, BadStays
<1>4. \/ file["cache"] = 0 /\ \A d \in Fetchers : at[d] = "idle"
      \/ \E d \in Fetchers : Covers(d)
  BY <1>3 DEF CoverInv
<1>5. /\ Placed(c) /\ fd[c] \in 0..Len(inode) /\ Len(inode) \in Nat
      /\ pos[c] \in 0..length /\ length \in Nat \ {0} /\ request[c].kind \in Kinds
  BY LenProperties DEF DInv, AllPlaced, CallsTyped, FilesTyped, WorldTyped, Requests
<1>6. /\ c \in Fetchers <=> request[c].kind # "get_image"
      /\ c \in Fetchers => ~Bad(c) /\ ~Bad(c)'
      /\ at[c] # "ended" => answer[c] = "none"
      /\ "cache" \in Paths /\ "local" \in Paths
  BY <1>2, <1>3, <1>5 DEF Fetchers, Path, Placed, Paths
<1>7. /\ at \in [Calls -> Labels] /\ answer \in [Calls -> Answers]
      /\ fd \in [Calls -> 0..Len(inode)] /\ pos \in [Calls -> 0..length]
  BY DEF DInv, CallsTyped, Answers
<1>8. ASSUME c \in Fetchers, at[c] # "idle"
      PROVE  \E d \in Fetchers : Covers(d)
  BY <1>4, <1>8
<1>9. CASE Begin(c)
  <2>1. at[c] = "idle" /\ UNCHANGED <<world, file, inode>> /\ Misses
    BY <1>9 DEF Begin, Misses
  <2>2. CASE c \in Fetchers /\ at'[c] \in Before /\ answer'[c] = "none"
    BY <2>2, FreshCover DEF Fetchers
  <2>3. CASE ~(c \in Fetchers /\ at'[c] \in Before /\ answer'[c] = "none")
    <3>1. c \notin Fetchers \/ file["cache"] # 0
      <4>1. ASSUME c \in Fetchers, file["cache"] = 0 PROVE FALSE
        <5>1. First(c) \in Before /\ Goto(c, First(c))
          BY <1>6, <1>9, <4>1 DEF First, Before, Begin, Fetchers
        <5>2. at'[c] \in Before /\ answer'[c] = "none"
          BY <1>6, <1>7, <2>1, <5>1 DEF Goto
        <5> QED
          BY <2>3, <4>1, <5>2
      <4> QED
        BY <4>1
    <3>2. CASE file["cache"] = 0 /\ \A d \in Fetchers : at[d] = "idle"
      <4>1. c \notin Fetchers
        BY <3>1, <3>2
      <4>2. \A d \in Fetchers : at'[d] = "idle"
        BY <3>2, <4>1, OthersKeep DEF Fetchers
      <4> QED
        BY <2>1, <3>2, <4>2
    <3>3. CASE \E d \in Fetchers : Covers(d)
      <4>1. PICK w \in Fetchers : Covers(w)
        BY <3>3
      <4>2. ~Covers(c)
        BY <2>1 DEF Covers
      <4> QED
        BY <2>1, <4>1, <4>2, StaysSame, CoverOn
    <3> QED
      BY <1>4, <3>2, <3>3
  <2> QED
    BY <2>2, <2>3
<1>10. CASE RemoveOld(c)
  <2>1. at[c] = "remove" /\ c \in Fetchers
    BY <1>5, <1>6, <1>10 DEF RemoveOld, Placed
  <2>2. ~End(c, "failed")
    BY <1>6, <1>7, <2>1 DEF End, Bad
  <2>3. Goto(c, First(c)) /\ First(c) \in Before
    BY <1>6, <1>10, <2>1, <2>2 DEF RemoveOld, First, Before
  <2>4. at'[c] \in Before /\ answer'[c] = "none"
    BY <1>6, <1>7, <2>1, <2>3 DEF Goto
  <2> QED
    BY <2>1, <2>4, FreshCover
<1>11. CASE OpenFile(c) \/ copyStream(c)
  <2>1. c \in Fetchers /\ pos[c] = 0 /\ at[c] \in {"open", "stream"} /\ answer[c] = "none"
    BY <1>5, <1>6, <1>11 DEF OpenFile, copyStream, Placed
  <2>2. Path(c) = "cache"
    BY <2>1 DEF Fetchers
  <2>3. Open("cache") /\ fd'[c] = Opened("cache") /\ pos' = pos
    BY <1>7, <1>11, <2>2 DEF OpenFile, copyStream
  <2>4. file'["cache"] = Opened("cache") /\ file'["cache"] # 0
    BY <1>6, <2>3, Opening DEF DInv
  <2>5. at'[c] \in {"request", "copy"} /\ answer'[c] = "none"
    BY <1>7, <1>11, <2>1 DEF OpenFile, copyStream, Goto
  <2> QED
    BY <2>1, <2>3, <2>4, <2>5, OpenedCover
<1>12. CASE DownloadFile(c)
  <2>1. c \in Fetchers /\ at[c] = "request" /\ answer[c] = "none"
    BY <1>5, <1>6, <1>12 DEF DownloadFile, Placed
  <2>2. Goto(c, "copy") /\ UNCHANGED <<world, file, inode, missed, fd, pos, block>> /\ Misses
    BY <1>6, <1>7, <1>12, <2>1 DEF DownloadFile, End, Bad, Misses
  <2>3. at'[c] = "copy" /\ answer'[c] = "none"
    BY <1>7, <2>1, <2>2 DEF Goto
  <2>4. Pending(c)' = Pending(c)
    BY <2>1, <2>2, <2>3 DEF Pending, Before, world
  <2>5. Covers(c) => Covers(c)'
    BY <2>1, <2>2, <2>3, <2>4 DEF Covers, Before, Whole, There, Content, world
  <2>6. PICK w \in Fetchers : Covers(w)
    BY <1>8, <2>1
  <2> QED
    BY <2>2, <2>5, <2>6, StaysSame, CoverOn
<1>13. CASE Copy(c)
  <2>1. at[c] = "copy" /\ fd[c] \in 1..Len(inode) /\ UNCHANGED <<world, file, fd>> /\ length' = length
    BY <1>5, <1>13 DEF Copy, Placed, world
  <2>2. Path(c) \in Paths /\ (fd[c] = file["cache"] => Path(c) = "cache") /\ (c \in Fetchers => Path(c) = "cache")
    BY <1>5, <2>1 DEF Path, Paths, Placed, DInv, FilesTyped, Fetchers
  <2>3. Stays /\ (c \in Fetchers /\ Covers(c) => Covers(c)')
    <3>1. CASE /\ pos[c] < length /\ Receive(Path(c), fd[c], {pos[c]})
               /\ pos' = [pos EXCEPT ![c] = @ + 1] /\ UNCHANGED <<at, answer>>
      <4>1. {pos[c]} \in SUBSET Whole /\ pos'[c] = pos[c] + 1
        BY <1>5, <1>7, <3>1 DEF Whole
      <4>2. Stays /\ (fd[c] = file["cache"] => {pos[c]} \subseteq There')
        BY <2>1, <2>2, <3>1, <4>1, StaysWrite
      <4>3. Pending(c) \subseteq There' \cup Pending(c)'
        <5>1. CASE fd[c] # file["cache"]
          BY <2>1, <5>1 DEF Pending, Before
        <5>2. CASE fd[c] = file["cache"]
          <6>1. Pending(c) = pos[c]..length - 1 /\ Pending(c)' = pos[c] + 1..length - 1
            BY <2>1, <3>1, <4>1, <5>2 DEF Pending, Before
          <6>2. pos[c]..length - 1 \subseteq {pos[c]} \cup (pos[c] + 1..length - 1)
            BY <1>5
          <6> QED
            BY <4>2, <5>2, <6>1, <6>2
        <5> QED
          BY <5>1, <5>2
      <4> QED
        BY <2>1, <3>1, <4>2, <4>3 DEF Covers, Before, Stays, Whole
    <3>2. CASE UNCHANGED <<inode, missed, pos>> /\ pos[c] < length
               /\ End(c, IF request[c].kind = "get_image" THEN "ok" ELSE "failed")
      <4>1. c \notin Fetchers
        BY <1>6, <1>7, <3>2 DEF End, Bad
      <4> QED
        BY <2>1, <3>2, <4>1, StaysSame DEF Misses
    <3>3. CASE UNCHANGED <<inode, pos>> /\ Miss(Path(c), pos[c]..length - 1) /\ End(c, "ok")
      <4>1. at'[c] = "ended" /\ answer'[c] = "ok"
        BY <1>7, <3>3 DEF End
      <4>2. pos[c]..length - 1 \in SUBSET Whole
        BY <1>5 DEF Whole
      <4>3. Misses /\ pos[c]..length - 1 \subseteq missed'[Path(c)]
        BY <2>2, <3>3, <4>2, Missed DEF DInv
      <4>4. Stays
        BY <2>1, <3>3, <4>3, StaysSame
      <4>5. c \in Fetchers => Pending(c) \subseteq There'
        BY <2>1, <2>2, <4>3 DEF Pending, Before, There, Content
      <4> QED
        BY <2>1, <4>1, <4>4, <4>5 DEF Covers, Before, Stays, Whole
    <3> QED
      BY <1>13, <3>1, <3>2, <3>3 DEF Copy
  <2>4. CASE c \in Fetchers
    <3>1. PICK w \in Fetchers : Covers(w)
      BY <1>8, <2>1, <2>4
    <3> QED
      BY <2>3, <3>1, CoverOn
  <2>5. CASE c \notin Fetchers
    <3>1. CASE \E d \in Fetchers : Covers(d)
      BY <2>3, <2>5, <3>1, CoverOn
    <3>2. CASE file["cache"] = 0 /\ \A d \in Fetchers : at[d] = "idle"
      BY <2>1, <2>5, <3>2, OthersKeep DEF Fetchers
    <3> QED
      BY <1>4, <3>1, <3>2
  <2> QED
    BY <2>4, <2>5
<1>14. CASE initOrDownload(c)
  <2>1. c \in Fetchers /\ at[c] = "probe" /\ answer[c] = "none"
    BY <1>5, <1>6, <1>14 DEF initOrDownload, Placed
  <2>2. ~End(c, "failed")
    BY <1>6, <1>7, <2>1 DEF End, Bad
  <2>3. PICK l \in {"stream", "endless", "blocks"} : Goto(c, l)
    BY <1>14, <2>2 DEF initOrDownload
  <2>4. at'[c] = l /\ answer'[c] = "none"
    BY <1>7, <2>1, <2>3 DEF Goto
  <2>5. CASE l = "blocks"
    BY <1>14, <2>1, <2>4, <2>5, BlocksCover
  <2>6. CASE l # "blocks"
    BY <2>1, <2>4, <2>6, FreshCover DEF Before
  <2> QED
    BY <2>5, <2>6
<1>15. CASE MoreBlocks(c)
  BY <1>4, <1>15 DEF MoreBlocks, vars, Covers, Whole, There, Content, Pending, Left
<1>16. CASE downloadBlock(c)
  <2>1. c \in Fetchers /\ at[c] = "blocks"
    BY <1>5, <1>6, <1>16 DEF downloadBlock, Placed
  <2>2. PICK w \in Fetchers : Covers(w)
    BY <1>8, <2>1
  <2>3. Stays /\ (Covers(c) => Covers(c)')
    BY <1>6, <1>16, <2>1, BlockCover
  <2> QED
    BY <2>2, <2>3, CoverOn
<1>17. CASE Wait(c)
  <2>1. /\ c \in Fetchers /\ at[c] = "blocks" /\ UNCHANGED <<world, file, inode, missed, block>> /\ Misses
        /\ \A k \in DOMAIN block[c] : block[c][k].at = "ended"
    BY <1>5, <1>6, <1>17 DEF Wait, Placed, Misses
  <2>2. at'[c] = "ended" /\ answer'[c] \in {"ok", "failed"}
    BY <1>7, <1>17 DEF Wait, End
  <2>3. Pending(c) = {}
    <3>1. \A k \in DOMAIN block[c] : Left(block[c][k]) = {}
      BY <2>1 DEF Left
    <3> QED
      BY <2>1, <3>1 DEF Pending, Before
  <2>4. Covers(c) => Covers(c)'
    BY <2>1, <2>2, <2>3 DEF Covers, Before, There, Content, Whole, world
  <2>5. PICK w \in Fetchers : Covers(w)
    BY <1>8, <2>1
  <2> QED
    BY <2>1, <2>4, <2>5, StaysSame, CoverOn
<1>18. CASE GetBytes(c)
  <2>1. c \in Fetchers /\ at[c] = "fetch" /\ answer[c] = "none"
    BY <1>5, <1>6, <1>18 DEF GetBytes, Placed
  <2>2. at'[c] \in Before /\ answer'[c] = "none"
    BY <1>7, <1>18, <2>1 DEF GetBytes, Goto, Before
  <2> QED
    BY <2>1, <2>2, FreshCover
<1>19. CASE WriteFile(c)
  <2>1. c \in Fetchers /\ at[c] = "save" /\ answer[c] = "none"
    BY <1>5, <1>6, <1>19 DEF WriteFile, Placed
  <2>2. CASE OpenTruncated("cache") /\ fd' = [fd EXCEPT ![c] = Opened("cache")] /\ Goto(c, "fill") /\ missed' = missed
    <3>1. /\ fd'[c] = Opened("cache") /\ pos' = pos /\ length' = length
          /\ at'[c] = "fill" /\ answer'[c] = "none"
      BY <1>7, <1>19, <2>1, <2>2 DEF WriteFile, Goto, world
    <3>2. file'["cache"] = Opened("cache") /\ file'["cache"] # 0
      BY <1>6, <2>2, Truncating DEF DInv
    <3>3. pos[c]..length - 1 \subseteq missed["cache"]
      BY <1>5, <1>6, <2>1 DEF Bad, Placed
    <3>4. Pending(c)' = 0..pos[c] - 1
      BY <3>1, <3>2 DEF Pending, Before
    <3>5. Whole' \subseteq missed["cache"] \cup (0..pos[c] - 1)
      <4>1. 0..length - 1 \subseteq (0..pos[c] - 1) \cup (pos[c]..length - 1)
        BY <1>5
      <4> QED
        BY <3>1, <3>3, <4>1 DEF Whole
    <3> QED
      BY <2>1, <2>2, <3>1, <3>4, <3>5 DEF Covers, There, Content
  <2>3. CASE Miss("cache", Whole) /\ End(c, IF lastErr[c] THEN "failed" ELSE "ok")
    <3>1. at'[c] = "ended" /\ answer'[c] # "found" /\ Whole' = Whole
      BY <1>7, <1>19, <2>3 DEF WriteFile, End, Whole, world
    <3>2. Whole \subseteq missed'["cache"]
      BY <1>6, <2>3, Missed DEF DInv
    <3> QED
      BY <2>1, <3>1, <3>2 DEF Covers, There, Content
  <2> QED
    BY <1>19, <2>2, <2>3 DEF WriteFile
<1>20. CASE FindFile(c)
  <2>1. /\ c \in Fetchers /\ at[c] = "fill" /\ fd[c] \in 1..Len(inode) /\ answer[c] = "none"
        /\ Receive("cache", fd[c], 0..pos[c] - 1) /\ file' = file /\ length' = length
    BY <1>5, <1>6, <1>20 DEF FindFile, Placed, world
  <2>2. at'[c] = "ended" /\ answer'[c] \in {"ok", "failed"}
    BY <1>7, <1>20 DEF FindFile, End
  <2>3. 0..pos[c] - 1 \in SUBSET Whole
    BY <1>5 DEF Whole
  <2>4. Stays /\ (fd[c] = file["cache"] => 0..pos[c] - 1 \subseteq There')
    BY <1>6, <2>1, <2>3, StaysWrite
  <2>5. Pending(c) \subseteq There'
    BY <2>1, <2>4 DEF Pending, Before
  <2>6. Covers(c) => Covers(c)'
    BY <2>1, <2>2, <2>4, <2>5 DEF Covers, Before, Stays, Whole
  <2>7. PICK w \in Fetchers : Covers(w)
    BY <1>8, <2>1
  <2> QED
    BY <2>4, <2>6, <2>7, CoverOn
<1>21. CASE CQGetImage(c)
  <2>1. at[c] = "ask" /\ UNCHANGED <<world, missed, block>> /\ Misses
    BY <1>21 DEF CQGetImage, Misses
  <2>2. Stays /\ file'["cache"] = file["cache"]
    <3>1. CASE UNCHANGED <<file, inode>>
      BY <2>1, <3>1, StaysSame
    <3>2. CASE OpenTruncated("local")
      BY <1>6, <2>1, <3>2, StaysLocal, Truncating DEF DInv
    <3> QED
      BY <1>21, <3>1, <3>2 DEF CQGetImage
  <2>3. at'[c] # "idle" /\ answer'[c] # "found"
    BY <1>6, <1>7, <1>21, <2>1 DEF CQGetImage, Goto, End
  <2>4. Pending(c) = {} /\ length' = length
    BY <2>1 DEF Pending, Before, world
  <2>5. Covers(c) => Covers(c)'
    BY <2>1, <2>2, <2>3, <2>4 DEF Covers, Before, Stays, Whole
  <2>6. CASE \E d \in Fetchers : Covers(d)
    BY <2>2, <2>5, <2>6, CoverOn
  <2>7. CASE file["cache"] = 0 /\ \A d \in Fetchers : at[d] = "idle"
    BY <2>1, <2>2, <2>7, OthersKeep DEF Fetchers
  <2> QED
    BY <1>4, <2>6, <2>7
<1> QED
  BY <1>9, <1>10, <1>11, <1>12, <1>13, <1>14, <1>15, <1>16, <1>17, <1>18, <1>19, <1>20, <1>21 DEF Step

\* When all calls for the address are through and none failed, the file that
\* bears its name lacks nothing but what an answer left out or got wrong, or a
\* dropped error of the disk: whatever the number of calls and of threads, and
\* however they removed, opened and wrote it under one another.
THEOREM WholeInTheEnd == Spec => []QuietIsWhole
<1>1. Init => CoverInv
  BY DEF Init, CoverInv, Paths, Fetchers
<1>2. DInv /\ CoverInv /\ [Next]_vars => CoverInv'
  <2>1. ASSUME CoverInv, UNCHANGED vars PROVE CoverInv'
    BY <2>1 DEF vars, CoverInv, Fetchers, Path, Bad, Covers, Whole, There, Content, Pending, Left
  <2> QED
    BY <2>1, CoverStep DEF Next, Quiet
<1>3. ASSUME DInv, CoverInv PROVE QuietIsWhole
  <2>1. SUFFICES ASSUME Sharing("cache") # {}, \A c \in Sharing("cache") : answer[c] = "ok"
                 PROVE  Whole \ Content("cache") \subseteq missed["cache"]
    BY DEF QuietIsWhole
  <2>2. \A c \in Fetchers : answer[c] \in {"ok", "found"} /\ at[c] = "ended"
    BY <1>3, <2>1 DEF Fetchers, Sharing, DInv, AllPlaced, Placed
  <2>3. \A c \in Fetchers : ~Bad(c)
    BY <2>2 DEF Bad
  <2>4. Fetchers # {}
    BY <2>1 DEF Fetchers, Sharing
  <2>5. PICK c \in Fetchers : Covers(c)
    BY <1>3, <2>2, <2>3, <2>4 DEF CoverInv
  <2>6. Pending(c) = {}
    BY <2>2 DEF Pending, Before
  <2>7. Whole \subseteq There
    BY <2>5, <2>6 DEF Covers
  <2> QED
    BY <2>7 DEF There, Content, Content
<1> QED
  BY <1>1, <1>2, <1>3, Invariant, PTL DEF Spec

=============================================================================
