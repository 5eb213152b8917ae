------------------------------ MODULE MCBTree -------------------------------
(***************************************************************************)
(* Instances of BTree.  The keys of HalfRange lie within half the range of *)
(* a word, where the order of cmp is transitive.                           *)
(***************************************************************************)
EXTENDS BTree

HalfRange == (0 .. 6) \X {0, 1}

Empty == {<<>>}

Inserts(keys) == [i \in DOMAIN keys |-> <<"insert", keys[i]>>]
Deletes(keys) == [i \in DOMAIN keys |-> <<"delete", keys[i]>>]

\* The keys in ascending order; the last ones make a tree of three levels.
Ascending == [i \in 1 .. 14 |-> <<(i - 1) \div 2, (i - 1) % 2>>]
Mixed ==
    <<<<3, 0>>, <<1, 1>>, <<5, 0>>, <<2, 0>>, <<6, 1>>, <<0, 0>>, <<4, 1>>>>

\* An empty file; before the first split, around the next ones, before the
\* third level; with free chunks, before their tree is split.
Stages ==
    {Inserts(SubSeq(Ascending, 1, n)) : n \in {0, 3, 6, 12}}
    \cup {Inserts(Mixed),
          Inserts(SubSeq(Ascending, 1, 6)) \o Deletes(SubSeq(Ascending, 4, 6))}
=============================================================================
