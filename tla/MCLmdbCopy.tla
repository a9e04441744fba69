----------------------------- MODULE MCLmdbCopy -----------------------------
(* Environments to copy: an empty one; a leaf with an overflow item; the same
   with a page lost; a tree of three levels; a tree with overflow items and
   with databases in it, one of them empty.                                 *)
EXTENDS LmdbCopy

Env(pages, n, free) ==
    [page |-> [p \in 0..Len(pages) + 1 |->
                 IF p = 0 THEN SourcePage(FALSE, <<>>, 1)
                 ELSE IF p = 1
                   THEN SourcePage(FALSE, IF pages = <<>> THEN <<>> ELSE <<Ref("kid", 2)>>, 1)
                 ELSE pages[p - 1]],
     next |-> n, free |-> free]

Leaf(refs)   == SourcePage(FALSE, refs, 1)
Branch(kids) == SourcePage(TRUE, [i \in DOMAIN kids |-> Ref("kid", kids[i])], 1)
Over(n)      == SourcePage(FALSE, <<>>, n)

MCSources ==
    {Env(<<>>, 4, 2),
     Env(<<Leaf(<<Ref("big", 3)>>), Over(3)>>, 8, 2),
     Env(<<Leaf(<<Ref("big", 3)>>), Over(3)>>, 9, 2),
     Env(<<Branch(<<3, 4>>), Branch(<<5, 6>>), Branch(<<7, 8>>),
           Leaf(<<>>), Leaf(<<>>), Leaf(<<>>), Leaf(<<>>)>>, 9, 0),
     Env(<<Branch(<<3, 4>>), Leaf(<<Ref("big", 5), Ref("big", 6)>>),
           Leaf(<<Ref("sub", Invalid), Ref("sub", 7), Ref("big", 8)>>),
           Over(1), Over(2), Leaf(<<Ref("big", 9)>>), Over(2), Over(1)>>, 14, 2)}
=============================================================================
