----------------------------- MODULE MCDownloads -----------------------------
(* Two calls of every kind, with one or two threads or too many, on a file   *)
(* that is small, one that makes two equal blocks, and one that leaves a     *)
(* rest and is too long for a picture.                                       *)
EXTENDS Downloads, TLC

SomeRequests ==
    [kind : {"download_file"}, threads : {1, 2, 6}, cache : {FALSE}]
    \cup [kind : {"image"}, threads : {1, 2}, cache : BOOLEAN]
    \cup [kind : {"robot"}, threads : {2}, cache : {TRUE}]
    \cup [kind : {"record"}, threads : {1}, cache : BOOLEAN]
    \cup [kind : {"get_image"}, threads : {1}, cache : {TRUE}]

\* The longest file is fetched in blocks by one of the calls only.
SomeCases ==
    {case \in [length : {2, 4, 5}, stated : BOOLEAN, ranges : BOOLEAN, request : [Calls -> SomeRequests]] :
        /\ case.length = 5 => \E c \in Calls : case.request[c].threads = 1
        /\ case.ranges \/ case.length = 2}

AnyCall == Permutations(Calls)

=============================================================================
