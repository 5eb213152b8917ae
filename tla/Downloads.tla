------------------------------ MODULE Downloads ------------------------------
(* Files fetched from one address into the cache directory                   *)
(* (global/net.go, global/fs.go, coolq/cqcode.go, coolq/api.go,              *)
(* qqrobot/util.go).  The name of a cache file is the hash of its address,   *)
(* so all calls that fetch the address share it, and no lock keeps them      *)
(* apart.  Nothing tells an answer that is not the file, or not the part     *)
(* asked for, or ends too soon, from one that is right, and some errors of   *)
(* the disk are dropped: what was asked for and not written in such a way is *)
(* kept in missed.  What a wrong answer has beyond the length of the file is *)
(* left out.                                                                 *)
EXTENDS Integers, Sequences, FiniteSets

CONSTANTS
    Calls,      \* calls that fetch the address
    Cases,      \* what a server has and is asked for: the length of the file in units,
                \* whether it is stated, whether parts of it are sent, and what each call is
    Limit,      \* the greatest length of a picture
    Large,      \* 1024*1024 in the code: above it a file is fetched in blocks
    Slack,      \* 10 in the code: a block is that much shorter than a share
    MaxMissed   \* bound: units of a file that are missed

Kinds == {"download_file", "image", "robot", "record", "get_image"}

Requests == [kind : Kinds, threads : Nat, cache : BOOLEAN]

ASSUME CasesAssumption ==
    \A case \in Cases : /\ case.length \in Nat \ {0} /\ case.stated \in BOOLEAN /\ case.ranges \in BOOLEAN
                        /\ case.request \in [Calls -> Requests]
ASSUME SizesAssumption == Limit \in Nat /\ Large \in Nat \ {0} /\ Slack \in Nat /\ MaxMissed \in Nat

VARIABLES
    length,     \* the length of the file at the address
    stated,     \* whether its server states that length
    ranges,     \* whether its server sends parts of it
    request,    \* [call -> what it asks]
    file,       \* [path -> the inode its name leads to, 0: none]
    inode,      \* the units that are in each inode, and are those of the address
    missed,     \* [path -> the units that were left out or got wrong, unnoticed]
    at,         \* [call -> where it is]
    fd,         \* [call -> the inode it writes]
    pos,        \* [call -> the unit it is to write next]
    block,      \* [call -> [number of a block -> what is left of it, and who writes it]]
    lastErr,    \* [call -> whether a block, or the fetch of FindFile, has failed]
    answer      \* [call -> how it ended]

vars == <<length, stated, ranges, request, file, inode, missed, at, fd, pos, block, lastErr, answer>>

Paths == {"cache", "local"}
Path(c) == IF request[c].kind = "get_image" THEN "local" ELSE "cache"
Whole == 0..length - 1

----------------------------------------------------------------------------
(* The blocks of a file. *)

\* Not positive when there are too many threads for so short a file.
BlockSize(len, threads) == len \div threads - Slack

Block(first, last) == [first |-> first, last |-> last, at |-> "new", fd |-> 0]

\* A slip of Blocks: the last one is as long as the others.
BlocksPastEnd(len, size) ==
    [k \in 0..(len - 1) \div size |-> Block(k * size, (k + 1) * size - 1)]

Blocks(len, size) ==
    LET n == (len - 1) \div size
    IN [k \in 0..n |-> Block(k * size, IF k = n THEN len - 1 ELSE (k + 1) * size - 1)]

----------------------------------------------------------------------------
(* Files. *)

\* os.OpenFile of a path, which makes it where it is not.
Opened(p) == IF file[p] # 0 THEN file[p] ELSE Len(inode) + 1
Open(p) ==
    IF file[p] # 0 THEN UNCHANGED <<file, inode>>
    ELSE file' = [file EXCEPT ![p] = Opened(p)] /\ inode' = Append(inode, {})

OpenTruncated(p) ==
    IF file[p] # 0 THEN file' = file /\ inode' = [inode EXCEPT ![file[p]] = {}]
    ELSE Open(p)

Write(i, units) == inode' = [inode EXCEPT ![i] = @ \cup units]

\* An answer that is not looked at does not give what it was asked for.
Miss(p, units) ==
    /\ Cardinality(missed[p] \cup units) <= MaxMissed
    /\ missed' = [missed EXCEPT ![p] = @ \cup units]

\* What comes is written where the units belong, be it those units or not.
Receive(p, i, units) ==
    \/ Write(i, units) /\ UNCHANGED missed
    \/ Miss(p, units) /\ inode' = [inode EXCEPT ![i] = @ \ units]

Goto(c, label) == at' = [at EXCEPT ![c] = label] /\ UNCHANGED answer
End(c, how) == at' = [at EXCEPT ![c] = "ended"] /\ answer' = [answer EXCEPT ![c] = how]

world == <<length, stated, ranges, request>>

----------------------------------------------------------------------------
(* A call up to its first request. *)

First(c) ==
    CASE request[c].kind = "record" -> "fetch"
      [] request[c].kind = "get_image" -> "ask"
      [] OTHER -> IF request[c].threads < 2 THEN "open" ELSE "probe"

\* What is there is used as it is, unless the call wants it new.
UsesFound(c) ==
    \/ request[c].kind \in {"robot", "get_image"}
    \/ request[c].kind \in {"image", "record"} /\ request[c].cache

Begin(c) ==
    /\ at[c] = "idle"
    /\ IF file[Path(c)] = 0 THEN Goto(c, First(c))
       ELSE IF UsesFound(c) THEN End(c, "found")
       ELSE Goto(c, IF request[c].kind = "record" THEN "fetch" ELSE "remove")
    /\ UNCHANGED <<world, file, inode, missed, fd, pos, block, lastErr>>

\* Where another call was faster, download_file fails and an image goes on.
RemoveOld(c) ==
    /\ at[c] = "remove"
    /\ IF file["cache"] = 0 /\ request[c].kind = "download_file" THEN End(c, "failed") ELSE Goto(c, First(c))
    /\ file' = [file EXCEPT !["cache"] = 0]
    /\ UNCHANGED <<world, inode, missed, fd, pos, block, lastErr>>

TooLong(c) == request[c].kind \in {"image", "robot"} /\ stated /\ length > Limit

----------------------------------------------------------------------------
(* In one stream: the file is there before it is asked for. *)

OpenFile(c) ==
    /\ at[c] = "open"
    /\ Open(Path(c))
    /\ fd' = [fd EXCEPT ![c] = Opened(Path(c))]
    /\ Goto(c, "request")
    /\ UNCHANGED <<world, missed, pos, block, lastErr>>

DownloadFile(c) ==
    /\ at[c] = "request"
    /\ \/ End(c, "failed")
       \/ ~TooLong(c) /\ Goto(c, "copy")
    /\ UNCHANGED <<world, file, inode, missed, fd, pos, block, lastErr>>

\* An answer gives a unit, breaks, or is at its end, which may be too soon.
\* get_image does not look at how the copying ended.
Copy(c) ==
    /\ at[c] = "copy"
    /\ \/ /\ pos[c] < length
          /\ Receive(Path(c), fd[c], {pos[c]})
          /\ pos' = [pos EXCEPT ![c] = @ + 1]
          /\ UNCHANGED <<at, answer>>
       \/ /\ pos[c] < length
          /\ End(c, IF request[c].kind = "get_image" THEN "ok" ELSE "failed")
          /\ UNCHANGED <<inode, missed, pos>>
       \/ /\ Miss(Path(c), pos[c]..length - 1)
          /\ End(c, "ok")
          /\ UNCHANGED <<inode, pos>>
    /\ UNCHANGED <<world, file, fd, block, lastErr>>

----------------------------------------------------------------------------
(* In blocks. *)

\* The first request tells whether the server sends parts, and the length.
InBlocks == ranges /\ stated /\ length > Large

initOrDownload(c) ==
    /\ at[c] = "probe"
    /\ \/ End(c, "failed") /\ UNCHANGED block
       \/ /\ ~TooLong(c)
          /\ ~InBlocks
          /\ Goto(c, "stream")
          /\ UNCHANGED block
       \/ /\ ~TooLong(c)
          /\ InBlocks
          /\ BlockSize(length, request[c].threads) > 0
          /\ Goto(c, "blocks")
          /\ block' = [block EXCEPT ![c] = Blocks(length, BlockSize(length, request[c].threads))]
       \/ /\ ~TooLong(c)
          /\ InBlocks
          /\ BlockSize(length, request[c].threads) <= 0
          /\ Goto(c, "endless")
          /\ UNCHANGED block
    /\ UNCHANGED <<world, file, inode, missed, fd, pos, lastErr>>

copyStream(c) ==
    /\ at[c] = "stream"
    /\ Open(Path(c))
    /\ fd' = [fd EXCEPT ![c] = Opened(Path(c))]
    /\ Goto(c, "copy")
    /\ UNCHANGED <<world, missed, pos, block, lastErr>>

\* Blocks that do not get on are added to the list for ever.
MoreBlocks(c) ==
    /\ at[c] = "endless"
    /\ UNCHANGED vars

\* downloadBlock: the file is opened by name once more for each block, and a
\* request or an answer may break.
OpenBlock(c, k) ==
    /\ block[c][k].at = "new"
    /\ Open("cache")
    /\ block' = [block EXCEPT ![c][k] = [@ EXCEPT !.at = "open", !.fd = Opened("cache")]]
    /\ UNCHANGED <<missed, lastErr>>

\* What is left of a block when a unit of it has been written.
AfterUnit(b) == [b EXCEPT !.first = b.first + 1, !.at = IF b.first = b.last THEN "ended" ELSE "open"]

ReadBlock(c, k) ==
    /\ block[c][k].at = "open"
    /\ Receive("cache", block[c][k].fd, {block[c][k].first})
    /\ block' = [block EXCEPT ![c][k] = AfterUnit(block[c][k])]
    /\ UNCHANGED <<file, lastErr>>

\* The answer ends before the block does, or the last of it is not flushed:
\* what has come is not compared with what was asked for.
EndBlock(c, k) ==
    /\ block[c][k].at = "open"
    /\ Miss("cache", block[c][k].first..block[c][k].last)
    /\ block' = [block EXCEPT ![c][k] = [@ EXCEPT !.at = "ended"]]
    /\ UNCHANGED <<file, inode, lastErr>>

BreakBlock(c, k) ==
    /\ block[c][k].at = "open"
    /\ block' = [block EXCEPT ![c][k] = [@ EXCEPT !.at = "ended"]]
    /\ lastErr' = [lastErr EXCEPT ![c] = TRUE]
    /\ UNCHANGED <<file, inode, missed>>

downloadBlock(c) ==
    /\ at[c] = "blocks"
    /\ \E k \in DOMAIN block[c] : OpenBlock(c, k) \/ ReadBlock(c, k) \/ EndBlock(c, k) \/ BreakBlock(c, k)
    /\ UNCHANGED <<world, at, fd, pos, answer>>

\* A slip of Wait: the errors of the threads are not returned.
WaitOnly(c) ==
    /\ at[c] = "blocks"
    /\ \A k \in DOMAIN block[c] : block[c][k].at = "ended"
    /\ End(c, "ok")
    /\ UNCHANGED <<world, file, inode, missed, fd, pos, block, lastErr>>

\* The threads are waited for, and any error among theirs is returned.
Wait(c) ==
    /\ at[c] = "blocks"
    /\ \A k \in DOMAIN block[c] : block[c][k].at = "ended"
    /\ End(c, IF lastErr[c] THEN "failed" ELSE "ok")
    /\ UNCHANGED <<world, file, inode, missed, fd, pos, block, lastErr>>

----------------------------------------------------------------------------
(* Into memory first. *)

\* FindFile: what came before an error is written all the same.
GetBytes(c) ==
    /\ at[c] = "fetch"
    /\ \E n \in {0, 1, length} :
          /\ pos' = [pos EXCEPT ![c] = n]
          /\ \/ Miss("cache", n..length - 1) /\ UNCHANGED lastErr
             \/ n < length /\ lastErr' = [lastErr EXCEPT ![c] = TRUE] /\ UNCHANGED missed
    /\ Goto(c, "save")
    /\ UNCHANGED <<world, file, inode, fd, block>>

\* The error of os.WriteFile is not looked at; a write that stops half-way has
\* the outcome of an answer that did.
WriteFile(c) ==
    /\ at[c] = "save"
    /\ \/ /\ OpenTruncated("cache")
          /\ fd' = [fd EXCEPT ![c] = Opened("cache")]
          /\ Goto(c, "fill")
          /\ UNCHANGED missed
       \/ /\ Miss("cache", Whole)
          /\ End(c, IF lastErr[c] THEN "failed" ELSE "ok")
          /\ UNCHANGED <<file, inode, fd>>
    /\ UNCHANGED <<world, pos, block, lastErr>>

FindFile(c) ==
    /\ at[c] = "fill"
    /\ Receive("cache", fd[c], 0..pos[c] - 1)
    /\ End(c, IF lastErr[c] THEN "failed" ELSE "ok")
    /\ UNCHANGED <<world, file, fd, pos, block, lastErr>>

\* get_image: the answer is there before the file.
CQGetImage(c) ==
    /\ at[c] = "ask"
    /\ \/ End(c, "failed") /\ UNCHANGED <<file, inode, fd>>
       \/ /\ OpenTruncated("local")
          /\ fd' = [fd EXCEPT ![c] = Opened("local")]
          /\ Goto(c, "copy")
    /\ UNCHANGED <<world, missed, pos, block, lastErr>>

Quiet ==
    /\ \A c \in Calls : at[c] = "ended"
    /\ UNCHANGED vars

----------------------------------------------------------------------------

Init ==
    /\ \E case \in Cases : /\ length = case.length /\ stated = case.stated /\ ranges = case.ranges
                           /\ request = case.request
    /\ file = [p \in Paths |-> 0] /\ inode = <<>> /\ missed = [p \in Paths |-> {}]
    /\ at = [c \in Calls |-> "idle"]
    /\ fd = [c \in Calls |-> 0] /\ pos = [c \in Calls |-> 0]
    /\ block = [c \in Calls |-> <<>>]
    /\ lastErr = [c \in Calls |-> FALSE]
    /\ answer = [c \in Calls |-> "none"]

Step(c) ==
    \/ Begin(c) \/ RemoveOld(c) \/ OpenFile(c) \/ DownloadFile(c) \/ Copy(c)
    \/ initOrDownload(c) \/ copyStream(c) \/ MoreBlocks(c) \/ downloadBlock(c) \/ Wait(c)
    \/ GetBytes(c) \/ WriteFile(c) \/ FindFile(c) \/ CQGetImage(c)

Next == (\E c \in Calls : Step(c)) \/ Quiet

Spec == Init /\ [][Next]_vars

----------------------------------------------------------------------------

Labels == {"idle", "remove", "open", "request", "copy", "probe", "stream", "endless",
           "blocks", "fetch", "save", "fill", "ask", "ended"}

(* Files, calls and blocks are what they should be; a call writes only to a  *)
(* file that has been made, and within the length of the file.               *)
TypeOK ==
    /\ length \in Nat \ {0} /\ stated \in BOOLEAN /\ ranges \in BOOLEAN /\ request \in [Calls -> Requests]
    /\ inode \in Seq(SUBSET Whole) /\ missed \in [Paths -> SUBSET Whole]
    /\ file \in [Paths -> 0..Len(inode)]
    /\ at \in [Calls -> Labels]
    /\ fd \in [Calls -> 0..Len(inode)]
    /\ pos \in [Calls -> 0..length]
    /\ \A c \in Calls : \A k \in DOMAIN block[c] :
          /\ block[c][k].at \in {"new", "open", "ended"}
          /\ block[c][k].fd \in 0..Len(inode)
          /\ 0 <= block[c][k].first /\ block[c][k].last < length
    /\ lastErr \in [Calls -> BOOLEAN]
    /\ answer \in [Calls -> {"none", "failed", "ok", "found"}]

Sharing(p) == {c \in Calls : Path(c) = p /\ answer[c] # "found"}

Content(p) == IF file[p] = 0 THEN {} ELSE inode[file[p]]

(* When all calls for an address are through and none of them failed, the    *)
(* file that bears its name lacks nothing but what an answer left out or got *)
(* wrong (or a WriteFile whose error is dropped), however they removed,      *)
(* opened and wrote it under one another: no call is quiet about any other   *)
(* error, and none leaves a hole in what another has written.                *)
QuietIsWhole ==
    LET all == Sharing("cache")
    IN all # {} /\ (\A c \in all : answer[c] = "ok")
       => Whole \ Content("cache") \subseteq missed["cache"]

=============================================================================
