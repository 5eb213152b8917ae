------------------------------- MODULE BTree --------------------------------
(***************************************************************************)
(* internal/btree: the file of the media cache.  A database db is what the *)
(* process sees (file and slot cache agree); each operation computes the   *)
(* next db and the log of its writes and syncs, which then reach the file  *)
(* one by one, so that the machine may stop between any two of them.       *)
(*                                                                         *)
(* Offsets are the numbers of chunks in the order of their allocation.     *)
(* The data of a key is the key itself.  A key is two words, as in cmp.    *)
(*                                                                         *)
(* allocChunk looks for a free chunk only while inAllocator is set, that   *)
(* is while freeChunk is inserting into the tree of free chunks.  If it    *)
(* finds one, its assertion on the buddy entry fails, as freeChunk inserts *)
(* no such entry; so nothing is ever reused, the queue of chunks freed in  *)
(* between stays empty, and deleteLarger has no lasting effect.            *)
(***************************************************************************)
EXTENDS Integers, FiniteSets, SequencesExt, TLC

CONSTANTS
    Word,           \* a word of a key is in 0 .. Word - 1 (2^64 in the code)
    Keys,           \* the keys that are inserted, pairs of words
    TableSize,      \* items in a table, the spare one included
    Preloads,       \* sequences of operations that may precede the start
    DeleteInner,    \* whether keys with two subtrees are deleted
    DataChunk,      \* class of size of the data
    MaxOps,         \* bound: operations
    MaxStops        \* bound: crashes and restarts

ASSUME BTreeAssumption ==
    /\ Word \in Nat \ {0}
    /\ Keys \subseteq (0 .. Word - 1) \X (0 .. Word - 1)
    /\ TableSize \in Nat /\ TableSize % 2 = 1 /\ TableSize >= 5
    /\ Preloads \subseteq Seq({"insert", "delete"} \X Keys)
    /\ DeleteInner \in BOOLEAN
    /\ MaxOps \in Nat
    /\ MaxStops \in Nat

VARIABLES
    db,         \* the database as the process sees it
    disk,       \* what is durable
    pending,    \* writes since the last sync, in order
    todo,       \* writes and syncs the operation has still to do
    inserted,   \* the keys inserted so far
    present,    \* the keys that lookup finds
    ops,
    stops

vars == <<db, disk, pending, todo, inserted, present, ops, stops>>

\* Classes of size: freeChunk gets the size of a pointer from collapse.
PointerChunk == 0
TableChunk == 2
-----------------------------------------------------------------------------
\* The order of keys: the difference of two words as a signed number.
Signed(d) == IF d % Word >= Word \div 2 THEN (d % Word) - Word ELSE d % Word

cmp(a, b) ==
    IF a[1] # b[1] THEN Signed(a[1] - b[1]) ELSE Signed(a[2] - b[2])

\* Tables have items with key and offset, and one child more than items.
Full(t) == Len(t.items) >= TableSize - 1

RECURSIVE Bisect(_, _, _, _)
Bisect(t, k, left, right) ==
    LET mid == left + (right - left) \div 2
        c == cmp(k, t.items[mid].key)
    IN CASE left >= right -> [found |-> FALSE, i |-> left]
         [] left < right /\ c = 0 -> [found |-> TRUE, i |-> mid]
         [] left < right /\ c < 0 -> Bisect(t, k, left, mid)
         [] left < right /\ c > 0 -> Bisect(t, k, mid + 1, right)

Position(t, k) == Bisect(t, k, 1, Len(t.items) + 1)

\* A slip of AddItem: the halves change places.
AddItemSwapped(t, i, key, off, lc, rc) ==
    [items |-> InsertAt(t.items, i, [key |-> key, off |-> off]),
     kids |-> SubSeq(t.kids, 1, i - 1) \o <<rc, lc>>
                \o SubSeq(t.kids, i + 1, Len(t.kids))]

AddItem(t, i, key, off, lc, rc) ==
    [items |-> InsertAt(t.items, i, [key |-> key, off |-> off]),
     kids |-> SubSeq(t.kids, 1, i - 1) \o <<lc, rc>>
                \o SubSeq(t.kids, i + 1, Len(t.kids))]

\* get finds a table at the offset.
HasTable(d, off) == off \in DOMAIN d.tab

RECURSIVE lookup(_, _, _)
lookup(d, toff, k) ==
    IF ~HasTable(d, toff) THEN 0
    ELSE LET t == d.tab[toff]
             p == Position(t, k)
         IN IF p.found THEN t.items[p.i].off ELSE lookup(d, t.kids[p.i], k)

\* The tables below those in S.
RECURSIVE Below(_, _)
Below(d, S) ==
    LET more == S \cup UNION {Range(d.tab[o].kids) \ {0} :
                                o \in S \cap DOMAIN d.tab}
    IN IF more = S THEN S ELSE Below(d, more)

Tables(d, top) == Below(d, {top} \ {0})

Places(d, top) ==
    UNION {{o} \X DOMAIN d.tab[o].items :
             o \in Tables(d, top) \cap DOMAIN d.tab}

Items(d, top) ==
    UNION {Range(d.tab[o].items) : o \in Tables(d, top) \cap DOMAIN d.tab}
-----------------------------------------------------------------------------
\* After a failed assertion (ok = FALSE) the panic unwinds: nothing happens.
Log(d, e) == IF d.ok THEN [d EXCEPT !.log = Append(@, e)] ELSE d

Sync(d) == Log(d, [kind |-> "sync"])

put(d, off, t) == IF d.ok THEN [d EXCEPT !.tab = off :> t @@ @] ELSE d

flush(d, off, t) ==
    Log(put(d, off, t), [kind |-> "table", at |-> off, what |-> t])

Super(d) == [top |-> d.top, freeTop |-> d.freeTop, alloc |-> d.alloc]

flushSuper(d) == Log(d, [kind |-> "super", what |-> Super(d)])

assert(d, condition) == IF condition THEN d ELSE [d EXCEPT !.ok = FALSE]

\* The chunk got is d.alloc.
allocChunk(d, size) ==
    IF d.inAllocator /\ \E e \in Items(d, d.freeTop) : e.key[1] >= size
    THEN assert(d, FALSE)
    ELSE Sync(flushSuper(
             [d EXCEPT !.inAllocator = FALSE, !.alloc = @ + 1]))

\* A slip of insertData: no sync.
insertDataUnsynced(d, k) ==
    Log([allocChunk(d, DataChunk) EXCEPT !.data = d.alloc :> k @@ @],
        [kind |-> "data", at |-> d.alloc, what |-> k])

insertData(d, k) ==
    Sync(Log([allocChunk(d, DataChunk) EXCEPT !.data = d.alloc :> k @@ @],
             [kind |-> "data", at |-> d.alloc, what |-> k]))

\* split cuts the table at its pivot; the right half gets a chunk of its own.
\* Its callers flush the left half.
Pivot == TableSize \div 2 + 1

LeftHalf(t) ==
    [items |-> SubSeq(t.items, 1, Pivot - 1), kids |-> SubSeq(t.kids, 1, Pivot)]

\* A slip of RightHalf: one item is left out.
RightHalfShort(t) ==
    [items |-> SubSeq(t.items, Pivot + 2, Len(t.items)),
     kids |-> SubSeq(t.kids, Pivot + 2, Len(t.kids))]

RightHalf(t) ==
    [items |-> SubSeq(t.items, Pivot + 1, Len(t.items)),
     kids |-> SubSeq(t.kids, Pivot + 1, Len(t.kids))]

split(d, toff) ==
    LET t == d.tab[toff]
        cut == put(d, toff, LeftHalf(t))
    IN Sync(flush(allocChunk(cut, TableChunk), d.alloc, RightHalf(t)))

\* After an insert below child number i of t, which is lc: if lc has become
\* full it is split, and t gets the pivot.
SplitChild(d, lc, toff, t, i) ==
    LET child == d.tab[lc]
        pivot == child.items[Pivot]
    IN IF ~d.ok \/ ~Full(child) THEN d
       ELSE flush(Sync(flush(split(d, lc), lc, LeftHalf(child))), toff,
                  AddItem(t, i, pivot.key, pivot.off, lc, d.alloc))

\* Insert below toff; given is the offset to store, 0 where data is written.
RECURSIVE insert(_, _, _, _)
insert(d, toff, k, given) ==
    LET At(t, p) ==
            CASE Full(t) -> assert(d, FALSE)
              [] ~Full(t) /\ p.found -> d
              [] ~Full(t) /\ ~p.found /\ t.kids[p.i] = 0 ->
                     IF given = 0
                     THEN flush(insertData(d, k), toff,
                                AddItem(t, p.i, k, d.alloc, 0, 0))
                     ELSE flush(d, toff, AddItem(t, p.i, k, given, 0, 0))
              [] ~Full(t) /\ ~p.found /\ t.kids[p.i] # 0 ->
                     SplitChild(insert(d, t.kids[p.i], k, given),
                                t.kids[p.i], toff, t, p.i)
    IN At(d.tab[toff], Position(d.tab[toff], k))

\* The new top level table has one item and the chunk d.alloc; tree is "top"
\* or "freeTop".
NewTop(d, tree, item, kids) ==
    LET Use(got) == Sync([flush(got, d.alloc,
                                [items |-> <<item>>, kids |-> kids])
                            EXCEPT ![tree] = IF got.ok THEN d.alloc ELSE @])
    IN Use(allocChunk(d, TableChunk))

SplitTop(d, tree) ==
    LET toff == d[tree]
        t == d.tab[toff]
    IN IF ~d.ok \/ ~Full(t) THEN d
       ELSE NewTop(flush(split(d, toff), toff, LeftHalf(t)), tree,
                   t.items[Pivot], <<toff, d.alloc>>)

insertTopLevel(d, tree, k, given) ==
    CASE d[tree] # 0 -> SplitTop(insert(d, d[tree], k, given), tree)
      [] d[tree] = 0 /\ given = 0 ->
             NewTop(insertData(d, k), tree,
                    [key |-> k, off |-> d.alloc], <<0, 0>>)
      [] d[tree] = 0 /\ given # 0 ->
             NewTop(d, tree, [key |-> k, off |-> given], <<0, 0>>)

\* A slip of Insert: the super block is not written at the end.
InsertNoSuper(d, k) == insertTopLevel(d, "top", k, 0)

Insert(d, k) == flushSuper(insertTopLevel(d, "top", k, 0))
-----------------------------------------------------------------------------
\* The key of a free chunk: its size, and a random word to make it unique.
freeChunk(d, off, size) ==
    LET Leave(freed) == Sync(flushSuper([freed EXCEPT !.inAllocator = ~freed.ok]))
        entered == [d EXCEPT !.inAllocator = TRUE, !.frees = @ + 1]
    IN IF ~d.ok THEN d
       ELSE Leave(insertTopLevel(entered, "freeTop", <<size, d.frees>>, off))

\* An empty table is given up for its only child; to is what replaces it.
collapse(d, off) ==
    IF d.tab[off].items # <<>> THEN [db |-> d, to |-> off]
    ELSE [db |-> freeChunk(d, off, PointerChunk), to |-> d.tab[off].kids[1]]

\* Collapse the child, let t refer to what replaces it, and flush t.
Relink(d, child, toff, t, slot) ==
    LET Link(up) == flush(up.db, toff, [t EXCEPT !.kids[slot] = up.to])
    IN IF d.ok THEN Link(collapse(d, child)) ELSE d

\* The table without its i-th item, one of whose children is 0.
DropItem(t, i) ==
    LET kid == IF t.kids[i] # 0 THEN t.kids[i] ELSE t.kids[i + 1]
    IN [items |-> RemoveAt(t.items, i),
        kids |-> SubSeq(t.kids, 1, i - 1) \o <<kid>>
                   \o SubSeq(t.kids, i + 2, Len(t.kids))]

\* Take the first or the last item below toff, at whose outer side there is no
\* child: takeSmallest and takeLargest.
RECURSIVE Take(_, _, _)
Take(d, toff, last) ==
    LET t == d.tab[toff]
        slot == IF last THEN Len(t.kids) ELSE 1
        i == IF last THEN Len(t.items) ELSE 1
        Up(below) == [below EXCEPT !.db = Sync(Relink(@, t.kids[slot], toff,
                                                      t, slot))]
    IN CASE t.items = <<>> -> [db |-> assert(d, FALSE), item |-> <<>>]
         [] t.items # <<>> /\ t.kids[slot] = 0 ->
                [db |-> Sync(flush(d, toff, DropItem(t, i))),
                 item |-> t.items[i]]
         [] t.items # <<>> /\ t.kids[slot] # 0 ->
                Up(Take(d, t.kids[slot], last))

\* remove, and the flush of its callers: an item with two children gets the
\* key of a neighbour in key order, from the left or the right as d.coin says,
\* and the neighbour's data offset as its left child.
remove(d, toff, t, i) ==
    LET slot == IF d.coin THEN i ELSE i + 1
        child == t.kids[slot]
        Linked(up, item) ==
            flush(up.db, toff,
                  [t EXCEPT !.items[i].key = item.key,
                            !.kids = [[@ EXCEPT ![slot] = up.to]
                                        EXCEPT ![i] = item.off]])
        Replaced(taken) == IF taken.db.ok
                           THEN Linked(collapse(taken.db, child), taken.item)
                           ELSE taken.db
    IN IF t.kids[i] = 0 \/ t.kids[i + 1] = 0
       THEN flush(d, toff, DropItem(t, i))
       ELSE Replaced(Take(d, child, d.coin))

\* off is that of the item's data, 0 if there is none.
RECURSIVE delete(_, _, _)
delete(d, toff, k) ==
    LET Up(below, t, i) ==
            IF below.off = 0 THEN below
            ELSE [below EXCEPT !.db = Relink(@, t.kids[i], toff, t, i)]
        At(t, p) ==
            IF p.found
            THEN [db |-> remove(d, toff, t, p.i), off |-> t.items[p.i].off]
            ELSE Up(delete(d, t.kids[p.i], k), t, p.i)
    IN CASE toff = 0 -> [db |-> d, off |-> 0]
         [] toff # 0 /\ ~HasTable(d, toff) ->
                [db |-> assert(d, FALSE), off |-> 0]
         [] HasTable(d, toff) -> At(d.tab[toff], Position(d.tab[toff], k))

Delete(d, k) ==
    LET Free(up, off) ==
            flushSuper(freeChunk(flushSuper([up.db EXCEPT !.top = up.to]), off,
                                 DataChunk))
        Finish(deleted) ==
            IF deleted.off = 0 \/ ~deleted.db.ok THEN deleted.db
            ELSE Free(collapse(deleted.db, d.top), deleted.off)
    IN Finish(delete(d, d.top, k))

Found(d) == {k \in Keys : lookup(d, d.top, k) # 0}

Get(d, k) ==
    LET off == lookup(d, d.top, k)
    IN IF off \in DOMAIN d.data THEN {d.data[off]} ELSE {}
-----------------------------------------------------------------------------
\* The file as a function of offsets, with the super block.
Apply(file, e) ==
    CASE e.kind = "table" -> [file EXCEPT !.tab = e.at :> e.what @@ @]
      [] e.kind = "data" -> [file EXCEPT !.data = e.at :> e.what @@ @]
      [] e.kind = "super" -> [file EXCEPT !.super = e.what]

ApplyAll(file, writes) == FoldLeft(Apply, file, writes)

\* frees stands for the random words, which do not repeat.
Open(file, frees) ==
    [tab |-> file.tab, data |-> file.data, top |-> file.super.top,
     freeTop |-> file.super.freeTop, alloc |-> file.super.alloc,
     inAllocator |-> FALSE, coin |-> FALSE, frees |-> frees, ok |-> TRUE,
     log |-> <<>>]

\* Create writes the super block: no tables, the next chunk is the first.
Create ==
    [tab |-> <<>>, data |-> <<>>,
     super |-> [top |-> 0, freeTop |-> 0, alloc |-> 1]]

File(d) == [tab |-> d.tab, data |-> d.data, super |-> Super(d)]

Do(d, o) == IF o[1] = "insert" THEN Insert(d, o[2]) ELSE Delete(d, o[2])

Preloaded(p) == [FoldLeft(Do, Open(Create, 0), p) EXCEPT !.log = <<>>]

Init ==
    /\ \E p \in Preloads :
         /\ db = Preloaded(p)
         /\ inserted = {o[2] : o \in {x \in Range(p) : x[1] = "insert"}}
    /\ present = Found(db)
    /\ disk = File(db)
    /\ pending = <<>>
    /\ todo = <<>>
    /\ ops = 0
    /\ stops = 0

\* An operation under the lock of Cache; the process has not stopped before
\* its writes are done, and does not go on after a panic.
Operate(d) ==
    /\ todo = <<>> /\ db.ok
    /\ ops < MaxOps /\ ops' = ops + 1
    /\ db' = [d EXCEPT !.log = <<>>]
    /\ todo' = d.log
    /\ present' = Found(d)
    /\ UNCHANGED <<disk, pending, stops>>

InsertKey(k) ==
    /\ Operate(Insert(db, k))
    /\ inserted' = IF db'.ok THEN inserted \cup {k} ELSE inserted

\* The key is in a table with subtrees on both its sides.
HasTwoChildren(k) ==
    \E o \in Tables(db, db.top) \cap DOMAIN db.tab :
        \E i \in DOMAIN db.tab[o].items :
            /\ db.tab[o].items[i].key = k
            /\ db.tab[o].kids[i] # 0 /\ db.tab[o].kids[i + 1] # 0

\* The coin is only tossed for an item with two children.
DeleteKey(k) ==
    /\ HasTwoChildren(k) => DeleteInner
    /\ \E coin \in IF HasTwoChildren(k) THEN BOOLEAN ELSE {FALSE} :
         Operate(Delete([db EXCEPT !.coin = coin], k))
    /\ UNCHANGED inserted

\* The next write of the operation goes to the page cache.
Write ==
    /\ todo # <<>> /\ Head(todo).kind # "sync"
    /\ pending' = Append(pending, Head(todo))
    /\ todo' = Tail(todo)
    /\ UNCHANGED <<db, disk, inserted, present, ops, stops>>

\* fd.Sync, whose error is ignored, is taken to succeed.
SyncFile ==
    /\ todo # <<>> /\ Head(todo).kind = "sync"
    /\ disk' = ApplyAll(disk, pending)
    /\ pending' = <<>>
    /\ todo' = Tail(todo)
    /\ UNCHANGED <<db, inserted, present, ops, stops>>

Stop ==
    /\ stops < MaxStops /\ stops' = stops + 1
    /\ todo' = <<>>
    /\ UNCHANGED <<inserted, ops>>

\* The process ends and is started again: the page cache survives.
Restart ==
    /\ Stop
    /\ db' = Open(ApplyAll(disk, pending), db.frees)
    /\ present' = Found(db')
    /\ UNCHANGED <<disk, pending>>

\* The machine loses its power: any of the writes since the last sync are lost.
PowerLoss ==
    /\ Stop
    /\ \E kept \in SUBSET DOMAIN pending :
         disk' = ApplyAll(disk, [j \in 1 .. Cardinality(kept) |->
                                   pending[SetToSortSeq(kept, <)[j]]])
    /\ db' = Open(disk', db.frees)
    /\ present' = Found(db')
    /\ pending' = <<>>

Next ==
    \/ \E k \in Keys : InsertKey(k) \/ DeleteKey(k)
    \/ Write \/ SyncFile
    \/ Restart \/ PowerLoss

Spec == Init /\ [][Next]_vars
-----------------------------------------------------------------------------
\* The assertions of the code hold, and between operations no table is full:
\* insert asserts, while it goes down, that there is room.  Only a stop between
\* the write of a table that has become full and that of its halves leaves one.
RoomUnlessStopped ==
    stops = 0 =>
        /\ db.ok
        /\ \A o \in Tables(db, db.top) \cup Tables(db, db.freeTop) :
             Len(db.tab[o].items) < TableSize - 1

\* "make sure data is written before a reference is added to it": whatever of
\* the unsynced writes a power loss keeps, the file that is opened afterwards
\* refers to no table and no data that is not there.
NoDangling ==
    /\ Tables(db, db.top) \cup Tables(db, db.freeTop) \subseteq DOMAIN db.tab
    /\ \A e \in Items(db, db.top) : e.off \in DOMAIN db.data

\* What the tables hold is found by binary search from the top, once, through
\* splits, collapsed tables and halves lost in a crash.
ReachableIsFound ==
    \A e \in Items(db, db.top) : lookup(db, db.top, e.key) = e.off

\* A key leads to the data that was inserted with it.
FoundIsOwn == \A k \in Found(db) : Get(db, k) = {k}

\* No chunk is used twice: the allocation pointer is synced before the chunk.
NoChunkShared ==
    /\ \A o \in Tables(db, db.top) \cup Tables(db, db.freeTop) :
         o \in 1 .. db.alloc - 1
    /\ Tables(db, db.top) \cap Tables(db, db.freeTop) = {}
    /\ \A p, q \in Places(db, db.top) :
         db.tab[p[1]].items[p[2]].off = db.tab[q[1]].items[q[2]].off => p = q

\* A chunk in the tree of free chunks is no longer referred to, unless a crash
\* came between: collapse frees a table before the reference to it is gone.
FreeIsUnused ==
    stops = 0 =>
        \A e \in Items(db, db.freeTop) :
            /\ e.off \notin Tables(db, db.top)
            /\ \A f \in Items(db, db.top) : f.off # e.off

\* Whatever was inserted, deleted or lost in a crash, what the tables hold is
\* found in them, and no two owners have one chunk.
FileIsSound ==
    /\ RoomUnlessStopped /\ ReachableIsFound /\ FoundIsOwn
    /\ NoChunkShared /\ FreeIsUnused

\* A restart between two operations loses nothing, although Insert leaves its
\* last writes unsynced.
RestartKeepsAll == [][Restart /\ todo = <<>> => present' = present]_vars

Store == INSTANCE KeyStore WITH ever <- inserted

\* Without a crash every key that was inserted is found until it is deleted.
ImplementsStore == Store!Spec
=============================================================================
