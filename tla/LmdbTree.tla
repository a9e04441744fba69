------------------------------ MODULE LmdbTree ------------------------------
(***************************************************************************)
(* lmdb/mdb.c: one B+tree of a write transaction and the cursors on it.    *)
(*                                                                         *)
(* A put may split a page, and with it the pages above; a deletion may     *)
(* move a node from a sibling or merge two pages, and with it rebalance    *)
(* the pages above; a new separator may be longer than the old one, so     *)
(* that a deletion can split a page too.  Each of them moves nodes under   *)
(* cursors that other code holds, which is why every tracked cursor is     *)
(* looked at whenever a page changes (mt_cursors).                         *)
(*                                                                         *)
(* A call of the API is one step: a transaction is used by one thread.     *)
(* The functions it calls are operators from the state t of the call to    *)
(* the state they leave; they call each other as the code does.            *)
(*                                                                         *)
(* Abstractions.  Keys are numbers in their order, data are told apart by  *)
(* identity, and both have sizes; a node takes one unit more, and sizes    *)
(* are not rounded.  Pages are renumbered after each call, in the order    *)
(* of the tree: nothing here depends on their numbers.  The overflow pages *)
(* of a node are counted in it.  One database without duplicates or        *)
(* fixed-size keys; no spilling and no nested transactions.                *)
(***************************************************************************)
EXTENDS Integers, FiniteSets, FiniteSetsExt, Sequences, SequencesExt, TLC

CONSTANTS
    Key,            \* a set of positive integers
    KeySize,        \* sizes of the keys
    Data, DataSize, \* data and their sizes
    OvPages,        \* overflow pages each would take (OVPAGES)
    NoData,
    Values,         \* the data that may be stored under each key
    PageSize,       \* units of a page after its header
    Cursor,         \* the cursors the application has opened
    MaxDepth,       \* bound: levels of the tree
    PutFlags,       \* flags of a put
    AsksPastEof,    \* may MDB_NEXT be asked of a cursor with a stale C_EOF?
    Commits         \* bound: numbers of keys held when another transaction follows

PgnoSize == 1          \* what a node holds in place of data on overflow pages

(* Data that would make its node larger than me_nodemax.                   *)
Big(k, d) == 2 * (1 + KeySize[k] + DataSize[d]) > PageSize

ASSUME Assumptions ==
    /\ Key \subseteq Nat \ {0}
    /\ KeySize \in [Key -> Nat]
    /\ DataSize \in [Data -> Nat]
    /\ OvPages \in [Data -> Nat \ {0}]
    /\ NoData \notin Data
    /\ Values \in [Key -> SUBSET Data]
    /\ Cursor \subseteq Nat \ {0}
    /\ PutFlags \subseteq {"none", "append", "nooverwrite", "current"}
    /\ AsksPastEof \in BOOLEAN
    /\ Commits \subseteq Nat
    /\ \A k \in Key : \A d \in Values[k] :                        \* me_maxkey
          Big(k, d) => 2 * (1 + KeySize[k] + PgnoSize) <= PageSize
    /\ \A k \in Key : 1 + 2 * (1 + KeySize[k]) <= PageSize          \* a branch holds three nodes

Invalid == 0           \* P_INVALID
NoKey   == 0           \* the key of a branch page's first node
Mc      == 0           \* the cursor of mdb_put and mdb_del
Level   == 0 .. MaxDepth - 1

VARIABLES
    db,         \* the tree: its pages, root, and the counters of MDB_db
    cur,        \* the cursors
    error,      \* MDB_TXN_ERROR was set, an assertion failed or a clean page was written
    kv,         \* history: what the tree has been asked to hold
    at          \* history: the key each cursor was last moved to, or NoKey

vars == <<db, cur, error, kv, at>>

----------------------------------------------------------------------------
(* Nodes and pages.  A node of a leaf has data as val, and the number of   *)
(* overflow pages that hold it, written by this transaction or not; one of *)
(* a branch the page below it.                                             *)

SizeOfKey(k) == IF k = NoKey THEN 0 ELSE KeySize[k]

LeafNode(k, d) == [key |-> k, val |-> d, ov |-> IF Big(k, d) THEN OvPages[d] ELSE 0,
                   dirty |-> Big(k, d)]

NodeSize(leaf, n) ==
    1 + SizeOfKey(n.key) + (IF ~leaf THEN 0 ELSE IF n.ov > 0 THEN PgnoSize ELSE DataSize[n.val])

RECURSIVE SizeOf(_, _)
SizeOf(leaf, nodes) ==
    IF nodes = <<>> THEN 0 ELSE NodeSize(leaf, Head(nodes)) + SizeOf(leaf, Tail(nodes))

NumKeys(t, p)    == Len(t.page[p].node)
NodePtr(t, p, i) == t.page[p].node[i + 1]
SizeLeft(t, p)   == PageSize - SizeOf(t.page[p].leaf, t.page[p].node)

(* PAGEFILL against FILL_THRESHOLD; a branch need only have some node.     *)
WellFilled(t, p) == ~t.page[p].leaf \/ 4 * (PageSize - SizeLeft(t, p)) >= PageSize
MinKeys(t, p)    == IF t.page[p].leaf THEN 1 ELSE 2

SetNodes(t, p, nodes) ==
    [t EXCEPT !.page[p].node = nodes,
              !.error = @ \/ ~t.page[p].dirty \/ SizeOf(t.page[p].leaf, nodes) > PageSize]

NodeAdd(t, p, i, n) == SetNodes(t, p, InsertAt(t.page[p].node, i + 1, n))
NodeDel(t, p, i)    == SetNodes(t, p, RemoveAt(t.page[p].node, i + 1))

(* mdb_page_alloc: a page that was loosened, or a new one.                 *)
NextPage(t) == IF t.loose = <<>> THEN t.next ELSE Head(t.loose)

Alloc(t, page) ==
    [t EXCEPT !.page  = (NextPage(t) :> page) @@ @,
              !.loose = IF @ = <<>> THEN @ ELSE Tail(@),
              !.next  = IF t.loose = <<>> THEN @ + 1 ELSE @]

PageNew(t, leaf) ==
    [Alloc(t, [leaf |-> leaf, dirty |-> TRUE, node |-> <<>>]) EXCEPT
        !.leafPages   = IF leaf THEN @ + 1 ELSE @,
        !.branchPages = IF leaf THEN @ ELSE @ + 1]

Without(t, p) == [t EXCEPT !.page = [q \in DOMAIN @ \ {p} |-> @[q]]]

(* mdb_page_loose: what this transaction wrote it may write again.         *)
PageLoose(t, p) ==
    [Without(t, p) EXCEPT !.loose = IF t.page[p].dirty THEN <<p>> \o @ ELSE @]

RECURSIVE LowestKey(_, _)
LowestKey(t, p) ==
    IF t.page[p].leaf THEN NodePtr(t, p, 0).key ELSE LowestKey(t, NodePtr(t, p, 0).val)

----------------------------------------------------------------------------
(* Cursors: a page and an index for each level, from the root.             *)

NewCursor == [pg |-> [l \in Level |-> Invalid], ki |-> [l \in Level |-> 0], snum |-> 0, top |-> 0,
              init |-> FALSE, eof |-> FALSE, del |-> FALSE]

Push(c, p) == [c EXCEPT !.top = c.snum, !.snum = c.snum + 1, !.pg[c.snum] = p, !.ki[c.snum] = 0]

Pop(c) == IF c.snum = 1 THEN [c EXCEPT !.snum = 0, !.init = FALSE]
                        ELSE [c EXCEPT !.snum = @ - 1, !.top = @ - 1]

(* The path of c below a new root p, and without its root.                 *)
Lifted(c, p, i) ==
    [c EXCEPT !.pg = [l \in Level |-> IF l = 0 THEN p ELSE c.pg[l - 1]],
              !.ki = [l \in Level |-> IF l = 0 THEN i ELSE c.ki[l - 1]]]
Lowered(c) ==
    [c EXCEPT !.pg = [l \in Level |-> IF l + 1 \in Level THEN c.pg[l + 1] ELSE Invalid],
              !.ki = [l \in Level |-> IF l + 1 \in Level THEN c.ki[l + 1] ELSE 0]]

TopPage(c) == c.pg[c.top]

Found(c)    == [rc |-> TRUE, c |-> c]
NotFound(c) == [rc |-> FALSE, c |-> c]         \* MDB_NOTFOUND

(* Every tracked cursor but mc, replaced by f.                             *)
Tracked(t, mc) == t.tracked \ {mc}
Adjusted(t, f) == [t EXCEPT !.cur = f @@ @]

(* A cursor of a function of the library, which gives it to no one but the *)
(* functions it calls; others adjust it only while it is tracked.          *)
Temp(t) == -1 - Cardinality({m \in DOMAIN t.cur : m < 0})
Enter(t, c, tracked) ==
    [t EXCEPT !.cur = (Temp(t) :> c) @@ @, !.tracked = IF tracked THEN @ \cup {Temp(t)} ELSE @]
Leave(t, m)   == [t EXCEPT !.cur = [i \in DOMAIN @ \ {m} |-> @[i]], !.tracked = @ \ {m}]

(* mdb_node_search, in a branch and in a leaf.                             *)
BranchIndex(t, p, k) ==
    Max({i \in 0 .. NumKeys(t, p) - 1 : i = 0 \/ NodePtr(t, p, i).key <= k})
LeafIndex(t, p, k) == Cardinality({i \in 1 .. NumKeys(t, p) : t.page[p].node[i].key < k})
LeafHas(t, p, k)   == \E i \in 1 .. NumKeys(t, p) : t.page[p].node[i].key = k

(* mdb_page_search_root.  A cursor already under the last node of a page   *)
(* keeps what it has below.                                                *)
RECURSIVE SearchRoot(_, _, _, _)
SearchRoot(t, c, how, k) ==
    LET p == TopPage(c)
        i == CASE how = "first" -> 0
               [] how = "last"  -> NumKeys(t, p) - 1
               [] OTHER         -> BranchIndex(t, p, k)
    IN  IF t.page[p].leaf THEN [c EXCEPT !.init = TRUE, !.eof = FALSE]
        ELSE IF how = "last" /\ c.init /\ c.ki[c.top] = i
             THEN SearchRoot(t, [c EXCEPT !.top = c.snum, !.snum = @ + 1], how, k)
        ELSE SearchRoot(t, Push([c EXCEPT !.ki[c.top] = i], NodePtr(t, p, i).val), how, k)

(* mdb_page_search, of a tree that is not empty.                           *)
PageSearch(t, c, how, k) ==
    SearchRoot(t, [c EXCEPT !.pg[0] = t.root, !.snum = 1, !.top = 0], how, k)

----------------------------------------------------------------------------
(* Moving a cursor.                                                        *)

Moved(c, i) == [c EXCEPT !.ki[c.top] = i]
OnNode(t, c) == c.init /\ c.ki[c.top] < NumKeys(t, TopPage(c))
KeyAt(t, c) == NodePtr(t, TopPage(c), c.ki[c.top]).key

(* mdb_cursor_sibling: the first node of the next leaf, or the last of the *)
(* one before; a cursor that has none stays.                               *)
RECURSIVE Sibling(_, _, _)

Beside(t, up, i, right) ==
    IF (right /\ i + 1 >= NumKeys(t, TopPage(up))) \/ (~right /\ i = 0)
    THEN Sibling(t, up, right)
    ELSE Found(Moved(up, IF right THEN i + 1 ELSE i - 1))

Below(t, up, right) ==
    LET p == NodePtr(t, TopPage(up), up.ki[up.top]).val
    IN  [Push(up, p) EXCEPT !.ki[up.snum] = IF right THEN 0 ELSE NumKeys(t, p) - 1]

SiblingBelow(t, c, over, right) == IF over.rc THEN Found(Below(t, over.c, right)) ELSE NotFound(c)

Sibling(t, c, right) ==
    IF c.snum < 2 THEN NotFound(c)
    ELSE SiblingBelow(t, c, Beside(t, Pop(c), c.ki[c.top - 1], right), right)

CursorFirst(t, c) ==
    IF t.root = Invalid THEN NotFound(c)
    ELSE LET d == IF c.init /\ c.top = 0 THEN c ELSE PageSearch(t, c, "first", NoKey)
         IN  Found([Moved(d, 0) EXCEPT !.eof = FALSE])

LastOn(t, c) == [Moved(c, NumKeys(t, TopPage(c)) - 1) EXCEPT !.eof = TRUE]
CursorLast(t, c) ==
    IF t.root = Invalid THEN NotFound(c)
    ELSE Found(LastOn(t, IF c.init /\ c.top = 0 THEN c ELSE PageSearch(t, c, "last", NoKey)))

CursorNext(t, c) ==
    LET n == NumKeys(t, TopPage(c))
        i == c.ki[c.top]
        s == Sibling(t, [c EXCEPT !.eof = FALSE], TRUE)
    IN  CASE ~c.init              -> CursorFirst(t, c)
          [] c.eof /\ i >= n - 1  -> NotFound(c)
          [] c.del                -> Found([c EXCEPT !.eof = FALSE, !.del = FALSE])
          [] i + 1 < n            -> Found([Moved(c, i + 1) EXCEPT !.eof = FALSE])
          [] OTHER                -> IF s.rc THEN s ELSE NotFound([c EXCEPT !.eof = TRUE])

(* A cursor that is nowhere starts after the last node.                    *)
CursorPrev(t, c) ==
    LET from == IF c.init THEN c ELSE LastOn(t, PageSearch(t, c, "last", NoKey))
        i    == from.ki[from.top] + (IF c.init THEN 0 ELSE 1)
        d    == [from EXCEPT !.eof = FALSE, !.del = FALSE]
    IN  CASE ~c.init /\ t.root = Invalid -> NotFound(c)
          [] i = 0                       -> Sibling(t, d, FALSE)
          [] OTHER                       -> Found(Moved(d, i - 1))

(* mdb_cursor_set for MDB_SET (exact), and MDB_SET_RANGE.  It first looks  *)
(* whether the cursor is on the right page already.                        *)
SetOnPage(t, c, k, exact) ==
    LET i == LeafIndex(t, TopPage(c), k)
        s == Sibling(t, Moved(c, i), TRUE)
    IN  CASE exact /\ ~LeafHas(t, TopPage(c), k)  -> NotFound(Moved(c, i))
          [] i < NumKeys(t, TopPage(c))           -> Found([Moved(c, i) EXCEPT !.eof = FALSE])
          [] s.rc                                 -> Found([s.c EXCEPT !.eof = FALSE])
          [] OTHER                                -> NotFound([s.c EXCEPT !.eof = TRUE])

CursorSet(t, c, k, exact) ==
    LET p == TopPage(c)
        n == NumKeys(t, p)
        rightmost == \A l \in 0 .. c.top - 1 : c.ki[l] >= NumKeys(t, c.pg[l]) - 1
    IN  CASE ~c.init -> IF t.root = Invalid THEN NotFound(c)
                        ELSE SetOnPage(t, PageSearch(t, c, "key", k), k, exact)
          [] c.init /\ n = 0 -> NotFound(Moved(c, 0))
          [] c.init /\ LeafHas(t, p, k) ->
                Found([Moved(c, LeafIndex(t, p, k)) EXCEPT !.eof = FALSE])
          [] c.init /\ LeafIndex(t, p, k) \in 1 .. n - 1 ->
                SetOnPage(t, [c EXCEPT !.eof = FALSE], k, exact)
          [] c.init /\ LeafIndex(t, p, k) = n /\ rightmost -> NotFound(Moved(c, n))
          [] c.init /\ LeafIndex(t, p, k) = 0 /\ c.top = 0 ->
                IF exact THEN NotFound(Moved(c, 0)) ELSE Found([Moved(c, 0) EXCEPT !.eof = FALSE])
          [] OTHER -> SetOnPage(t, PageSearch(t, c, "key", k), k, exact)

(* MDB_GET_CURRENT.                                                        *)
CursorCurrent(t, c) ==
    CASE ~c.init     -> NotFound(c)
      [] OnNode(t, c) -> Found(c)
      [] OTHER       -> NotFound(Moved(c, NumKeys(t, TopPage(c))))

----------------------------------------------------------------------------
(* mdb_page_touch: a page is copied before it is written the first time.   *)
TouchLevel(t, m, l) ==
    LET c  == t.cur[m]
        p  == c.pg[l]
        np == NextPage(t)
        copied == Without(Alloc(t, [t.page[p] EXCEPT !.dirty = TRUE]), p)
        linked == IF l = 0 THEN [copied EXCEPT !.root = np]
                  ELSE SetNodes(copied, c.pg[l - 1],
                                [t.page[c.pg[l - 1]].node EXCEPT ![c.ki[l - 1] + 1].val = np])
    IN  IF t.page[p].dirty THEN t
        ELSE Adjusted(linked,
                [x \in {m} \cup {y \in Tracked(t, m) : t.cur[y].snum >= c.snum /\ t.cur[y].pg[l] = p} |->
                    [t.cur[x] EXCEPT !.pg[l] = np]])

Touch(t, m) == TouchLevel(t, m, t.cur[m].top)

RECURSIVE TouchFrom(_, _, _)
TouchFrom(t, m, l) ==
    IF l = t.cur[m].snum THEN t ELSE TouchFrom(TouchLevel(t, m, l), m, l + 1)
CursorTouch(t, m) == TouchFrom(t, m, 0)

----------------------------------------------------------------------------
(* Splitting a page.                                                       *)

(* Where to cut the nodes of a page and the new one between the old page   *)
(* and its right sibling: near the middle, but neither part may overflow.  *)
SplitPoint(leaf, all, newindx) ==
    LET n    == Len(all) - 1
        half == (n + 1) \div 2
        Upto(i) == SizeOf(leaf, SubSeq(all, 1, i + 1))
        From(i) == SizeOf(leaf, SubSeq(all, i + 1, n + 1))
        k    == IF newindx >= n THEN n ELSE IF leaf THEN half + 2 ELSE half + 1
    IN  IF newindx <= half \/ newindx >= n
        THEN Min({i \in 0 .. k - 1 : Upto(i) > PageSize \/ i = k - 1})
        ELSE 1 + Max({i \in half .. n : From(i) > PageSize \/ i = half})

(* The first node of a branch page has no key.                             *)
FirstBare(leaf, nodes) == IF leaf THEN nodes ELSE [nodes EXCEPT ![1].key = NoKey]

(* A new root, page pp, above page p, which cursor m is on.                *)
GrowRoot(t, m, p, pp) ==
    [SetNodes(PageNew(t, FALSE), pp, <<[key |-> NoKey, val |-> p]>>) EXCEPT
        !.root = pp, !.depth = @ + 1,
        !.cur[m] = [Lifted(@, pp, 0) EXCEPT !.snum = @ + 1, !.top = @ + 1]]

(* The path of c down to level l is that of mn.                            *)
Along(c, mn, l) == [c EXCEPT !.pg = [i \in Level |-> IF i <= l THEN mn.pg[i] ELSE @[i]],
                             !.ki = [i \in Level |-> IF i <= l THEN mn.ki[i] ELSE @[i]]]

(* Is level l of c beyond its page, while mn went to another?              *)
Strayed(t, c, mn, l) == mn.pg[l] # c.pg[l] /\ c.ki[l] >= NumKeys(t, c.pg[l])

(* When the parent was split under it the left page may have moved too.    *)
LeftPath(t, c, mn, ptop) ==
    LET d == [Along(c, mn, ptop) EXCEPT !.ki[ptop] = IF @ = 0 THEN 0 ELSE @ - 1]
    IN  IF ~Strayed(t, c, mn, ptop) THEN Found(c)
        ELSE IF mn.ki[ptop] # 0 THEN Found(d)
        ELSE Sibling(t, d, FALSE)

(* What is split: page mp and its new right sibling rp share the nodes of  *)
(* mp and the new one, all; the first cut of them stay.                    *)
SplitPlan(t, c, n, how) ==
    LET mp  == TopPage(c)
        i   == c.ki[c.top]
        all == InsertAt(t.page[mp].node, i + 1, n)
    IN  [mp |-> mp, rp |-> NextPage(t), leaf |-> t.page[mp].leaf, newindx |-> i, all |-> all, how |-> how,
         cut |-> IF how = "append" THEN i ELSE SplitPoint(t.page[mp].leaf, all, i),
         newroot |-> c.top = 0]

(* Where the new node is.                                                  *)
SplitCursor(t, c, mn, s, ptop) ==
    LET d == [c EXCEPT !.pg[c.top] = s.rp, !.ki[c.top] = s.newindx - s.cut, !.ki[ptop] = @ + 1]
    IN  CASE s.how = "append" -> [c EXCEPT !.pg[c.top] = s.rp,
                                           !.ki = [i \in Level |-> IF i < c.top THEN mn.ki[i]
                                                                   ELSE IF i = c.top THEN 0 ELSE @[i]]]
          [] s.how # "append" /\ s.newindx < s.cut -> [c EXCEPT !.ki[c.top] = s.newindx]
          [] OTHER -> IF Strayed(t, d, mn, ptop) THEN Along(d, mn, ptop) ELSE d

(* Another cursor x, when c has done the split.                            *)
SplitStay(x, c, mn, s, i) ==
    IF i < s.cut THEN [x EXCEPT !.ki[c.top] = i]
    ELSE [Along(x, mn, c.top - 1) EXCEPT !.pg[c.top] = s.rp, !.ki[c.top] = i - s.cut]

(* Forgets that the split of the parent has moved the other cursors.       *)
SplitBeside_MovesTwice(x, c, mn, s, did_split) ==
    LET ptop == c.top - 1
    IN  CASE x.top >= c.top /\ x.pg[c.top] = s.mp ->
                SplitStay(x, c, mn, s, x.ki[c.top] + (IF x.ki[c.top] >= s.newindx /\ s.how # "replace"
                                                      THEN 1 ELSE 0))
          [] x.top >= ptop /\ x.pg[ptop] = c.pg[ptop] /\ x.ki[ptop] >= c.ki[ptop] ->
                [x EXCEPT !.ki[ptop] = @ + 1]
          [] OTHER -> x

SplitBeside(x, c, mn, s, did_split) ==
    LET ptop == c.top - 1
    IN  CASE x.top >= c.top /\ x.pg[c.top] = s.mp ->
                SplitStay(x, c, mn, s, x.ki[c.top] + (IF x.ki[c.top] >= s.newindx /\ s.how # "replace"
                                                      THEN 1 ELSE 0))
          [] ~did_split /\ x.top >= ptop /\ x.pg[ptop] = c.pg[ptop] /\ x.ki[ptop] >= c.ki[ptop] ->
                [x EXCEPT !.ki[ptop] = @ + 1]
          [] OTHER -> x

SplitOther(x, c, mn, s, did_split) ==
    CASE ~x.init \/ (s.newroot /\ x.pg[0] # s.mp) -> x
      [] x.init /\ s.newroot /\ x.pg[0] = s.mp ->
            SplitBeside([Lifted(x, c.pg[0], IF x.ki[0] >= s.cut THEN 1 ELSE 0) EXCEPT
                             !.snum = @ + 1, !.top = @ + 1], c, mn, s, did_split)
      [] OTHER -> SplitBeside(x, c, mn, s, did_split)

SplitCursors(t, m, c, mn, s, did_split) ==
    Adjusted(t, [y \in {m} \cup Tracked(t, m) |->
                    IF y = m THEN c ELSE SplitOther(t.cur[y], c, mn, s, did_split)])

(* Cursor x, of the right page, has put the separator into the parent.     *)
SplitNodes(t, m, x, s, left, did_split) ==
    SplitCursors([SetNodes(SetNodes(Leave(t, x), s.mp, FirstBare(s.leaf, SubSeq(s.all, 1, s.cut))),
                           s.rp, FirstBare(s.leaf, SubSeq(s.all, s.cut + 1, Len(s.all))))
                      EXCEPT !.error = @ \/ ~left.rc],
                 m, SplitCursor(t, left.c, t.cur[x], s, left.c.top - 1), t.cur[x], s, did_split)

SplitDone(t, m, x, s, did_split) ==
    SplitNodes(t, m, x, s,
               IF did_split THEN LeftPath(t, t.cur[m], t.cur[x], t.cur[m].top - 1) ELSE Found(t.cur[m]),
               did_split)

(* mdb_page_split, of the page cursor m is on.                             *)
RECURSIVE Split(_, _, _, _)

SplitParent(t, m, mn, sep, s) ==
    IF SizeLeft(t, mn.pg[mn.top - 1]) < NodeSize(FALSE, sep)
    THEN SplitDone(Split(Enter(t, Pop(mn), TRUE), Temp(t), sep, "insert"), m, Temp(t), s, TRUE)
    ELSE SplitDone(NodeAdd(Enter(t, mn, FALSE), mn.pg[mn.top - 1], mn.ki[mn.top - 1], sep),
                   m, Temp(t), s, FALSE)

SplitPages(t, m, c, s) ==
    SplitParent(t, m, [c EXCEPT !.pg[c.top] = s.rp, !.ki[c.top - 1] = @ + 1],
                [key |-> s.all[s.cut + 1].key, val |-> s.rp], s)

SplitRoot(t, m, s) == IF s.newroot THEN GrowRoot(t, m, s.mp, NextPage(t)) ELSE t

SplitInto(t, m, s) == SplitPages(t, m, t.cur[m], s)

SplitBy(t, m, s) == SplitInto(SplitRoot(PageNew(t, s.leaf), m, s), m, s)

Split(t, m, n, how) == SplitBy(t, m, SplitPlan(t, t.cur[m], n, how))

(* A longer separator is taken to fit.                                     *)
UpdateKey_NoSplit(t, m, k) ==
    LET c == t.cur[m] IN SetNodes(t, TopPage(c), [t.page[TopPage(c)].node EXCEPT ![c.ki[c.top] + 1].key = k])

UpdateKey(t, m, k) ==
    LET c == t.cur[m]
        p == TopPage(c)
        n == NodePtr(t, p, c.ki[c.top])
    IN  IF SizeLeft(t, p) < SizeOfKey(k) - SizeOfKey(n.key)
        THEN Split(NodeDel(t, p, c.ki[c.top]), m, [n EXCEPT !.key = k], "replace")
        ELSE SetNodes(t, p, [t.page[p].node EXCEPT ![c.ki[c.top] + 1].key = k])

(* The same for the node c is on, by a cursor of its own.                  *)
UpdateKeyOf(t, c, k, tracked) ==
    LET x == Temp(t) IN Leave(UpdateKey(Enter(t, c, tracked), x, k), x)

----------------------------------------------------------------------------
(* Rebalancing: moving a node, merging two pages.                          *)

FirstKey(t, c) == NodePtr(t, TopPage(c), 0).key

(* The separator of the page m is on, in the page above; the first node of *)
(* a branch page loses its key.                                            *)
BareFirst(t, m) == IF t.page[TopPage(t.cur[m])].leaf THEN t ELSE UpdateKey(t, m, NoKey)

UpdateSeparator(t, m) ==
    LET c == t.cur[m]
    IN  IF c.ki[c.top] # 0 THEN t
        ELSE BareFirst(IF c.ki[c.top - 1] = 0 THEN t ELSE UpdateKeyOf(t, Pop(c), FirstKey(t, c), TRUE), m)

(* ... and gets it back when another is to be put before it.               *)
KeyFirst(t, m) ==
    LET c == t.cur[m]
        p == TopPage(c)
    IN  IF t.page[p].leaf \/ c.ki[c.top] # 0 THEN t ELSE UpdateKeyOf(t, c, LowestKey(t, p), FALSE)

MovedNode(t, c) ==
    LET n == NodePtr(t, TopPage(c), c.ki[c.top])
    IN  IF ~t.page[TopPage(c)].leaf /\ c.ki[c.top] = 0
        THEN [n EXCEPT !.key = LowestKey(t, TopPage(c))] ELSE n

(* Another cursor y, when the node cs is on has gone to where cd is.       *)
MovedOther(x, y, s, cs, d, cd, fromleft) ==
    LET l == cs.top
        Taken(up) == [y EXCEPT !.pg[l] = TopPage(cd), !.ki[l] = cd.ki[cd.top], !.ki[l - 1] = @ + up]
    IN  CASE ~y.init \/ y.top < l -> y
          [] fromleft /\ x # d /\ y.pg[l] = cd.pg[l] /\ y.ki[l] >= cd.ki[l] -> [y EXCEPT !.ki[l] = @ + 1]
          [] fromleft /\ x # s /\ y.pg[l] = cs.pg[l] /\ y.ki[l] = cs.ki[l]  -> Taken(1)
          [] ~fromleft /\ x # s /\ y.pg[l] = cs.pg[l] -> IF y.ki[l] = 0 THEN Taken(-1)
                                                         ELSE [y EXCEPT !.ki[l] = @ - 1]
          [] OTHER -> y

MoveTo(t, s, cs, d, cd, n, fromleft) ==
    Adjusted(NodeDel(NodeAdd(t, TopPage(cd), cd.ki[cd.top], n), TopPage(cs), cs.ki[cs.top]),
             [x \in t.tracked |-> MovedOther(x, t.cur[x], s, cs, d, cd, fromleft)])

MoveFrom(t, s, d, n, fromleft) == MoveTo(t, s, t.cur[s], d, t.cur[d], n, fromleft)
MoveNode(t, s, d, fromleft)    == MoveFrom(KeyFirst(t, d), s, d, MovedNode(t, t.cur[s]), fromleft)

(* mdb_node_move: the node cursor s is on goes to where cursor d is.       *)
NodeMove(t, s, d, fromleft) ==
    UpdateSeparator(UpdateSeparator(MoveNode(Touch(Touch(t, s), d), s, d, fromleft), s), d)

RECURSIVE Rebalance(_, _)

(* Another cursor y, when page cs is on has been put after the nkeys nodes *)
(* of the one cd is on.                                                    *)
MergedOther_SameIndex(y, cs, cd, nkeys) ==
    IF y.snum >= cs.snum /\ y.pg[cs.top] = cs.pg[cs.top]
    THEN [y EXCEPT !.pg[cs.top] = cd.pg[cs.top], !.ki[cs.top - 1] = cd.ki[cs.top - 1]] ELSE y

MergedOther(y, cs, cd, nkeys) ==
    LET l == cs.top
    IN  CASE y.snum < cs.snum -> y
          [] y.snum >= cs.snum /\ y.pg[l] = cs.pg[l] ->
                [y EXCEPT !.pg[l] = cd.pg[l], !.ki[l] = @ + nkeys, !.ki[l - 1] = cd.ki[l - 1]]
          [] y.snum >= cs.snum /\ y.pg[l] # cs.pg[l] /\ y.pg[l - 1] = cs.pg[l - 1]
                               /\ y.ki[l - 1] > cs.ki[l - 1] -> [y EXCEPT !.ki[l - 1] = @ - 1]
          [] OTHER -> y

MergeNodes(t, ps, pd) ==
    SetNodes(t, pd, t.page[pd].node \o
                    (IF t.page[ps].leaf THEN t.page[ps].node
                     ELSE [t.page[ps].node EXCEPT ![1].key = LowestKey(t, ps)]))

(* The page cursor c is on leaves its parent and the tree.                 *)
Unlink(t, c) ==
    LET p == c.pg[c.top - 1]
        i == c.ki[c.top - 1]
        above == RemoveAt(t.page[p].node, i + 1)
    IN  PageLoose(SetNodes(t, p, IF i = 0 THEN FirstBare(FALSE, above) ELSE above), TopPage(c))

MergePages_LeavesOnly(t, s, cs, cd, leaf, nkeys) ==
    [Adjusted(Unlink(MergeNodes(t, TopPage(cs), TopPage(cd)), cs),
              [x \in Tracked(t, s) |-> MergedOther(t.cur[x], cs, cd, nkeys)])
     EXCEPT !.leafPages = @ - 1]

MergePages(t, s, cs, cd, leaf, nkeys) ==
    [Adjusted(Unlink(MergeNodes(t, TopPage(cs), TopPage(cd)), cs),
              [x \in Tracked(t, s) |-> MergedOther(t.cur[x], cs, cd, nkeys)]) EXCEPT
        !.leafPages   = IF leaf THEN @ - 1 ELSE @,
        !.branchPages = IF leaf THEN @ ELSE @ - 1]

MergeDone(t, d, snum) == [t EXCEPT !.cur[d].snum = snum, !.cur[d].top = snum - 1]

MergeAbove(t, d, u, snum) == MergeDone(u, d, snum + u.depth - t.depth)

MergeRest(t, d, snum) == MergeAbove(t, d, Rebalance([t EXCEPT !.cur[d] = Pop(@)], d), snum)

MergeInto(t, s, d) ==
    MergeRest(MergePages(t, s, t.cur[s], t.cur[d], t.page[TopPage(t.cur[s])].leaf,
                         NumKeys(t, TopPage(t.cur[d]))), d, t.cur[d].snum)

(* mdb_page_merge: the nodes of the page of s go to the end of that of d.  *)
PageMerge(t, s, d) == MergeInto(Touch(t, d), s, d)

(* The root has no node left, or a branch root only one.                   *)
DropTree(t, m) ==
    LET mp == t.cur[m].pg[0]
        Gone(y) == [y EXCEPT !.snum = 0, !.top = 0, !.init = FALSE]
    IN  [Adjusted(Without(t, mp), [x \in {m} \cup {y \in t.tracked : t.cur[y].init /\ t.cur[y].pg[0] = mp} |->
                                        Gone(t.cur[x])])
         EXCEPT !.root = Invalid, !.depth = 0, !.leafPages = 0]

CollapseRoot(t, m) ==
    LET mp == t.cur[m].pg[0]
        Other(y) == [Lowered(y) EXCEPT !.snum = @ - 1, !.top = @ - 1]
        low == [x \in {y \in Tracked(t, m) : t.cur[y].init /\ t.cur[y].pg[0] = mp} |-> Other(t.cur[x])]
    IN  [Adjusted(Without(t, mp), low @@ (m :> [Lowered(t.cur[m]) EXCEPT !.pg[0] = NodePtr(t, mp, 0).val]))
         EXCEPT !.root = NodePtr(t, mp, 0).val, !.depth = @ - 1, !.branchPages = @ - 1]

(* mdb_rebalance, of the page cursor m is on, with its neighbour q on the  *)
(* left, unless it is the first: take a node from it, or be one with it.   *)
PutAt(t, m, ki) == [t EXCEPT !.cur[m].ki[t.cur[m].top] = ki]
JoinLeft(t, m, x, ki) == PutAt(Leave([t EXCEPT !.cur[m] = [t.cur[x] EXCEPT !.eof = FALSE]], x), m, ki)
JoinRight(t, m, x, ki) == PutAt(Leave([t EXCEPT !.cur[m].eof = FALSE], x), m, ki)

RebalanceWith(t, m, c, q, i, fromleft) ==
    LET ki == c.ki[c.top]
        n  == NumKeys(t, q)
        x  == Temp(t)
        mn(j) == [c EXCEPT !.pg[c.top] = q, !.ki[c.top - 1] = i, !.ki[c.top] = j]
        t1 == [t EXCEPT !.cur[m].ki[c.top] = IF fromleft THEN 0 ELSE NumKeys(t, TopPage(c))]
    IN  IF WellFilled(t, q) /\ n > MinKeys(t, q)
        THEN PutAt(Leave(NodeMove(Enter(t1, mn(IF fromleft THEN n - 1 ELSE 0), FALSE), x, m, fromleft), x),
                 m, IF fromleft THEN ki + 1 ELSE ki)
        ELSE IF fromleft THEN JoinLeft(PageMerge(Enter(t1, mn(n), TRUE), m, x), m, x, ki + n)
        ELSE JoinRight(PageMerge(Enter(t1, mn(0), FALSE), x, m), m, x, ki)

RebalanceRoot(t, m, p) ==
    CASE NumKeys(t, p) = 0 -> DropTree(t, m)
      [] ~t.page[p].leaf /\ NumKeys(t, p) = 1 -> CollapseRoot(t, m)
      [] OTHER -> t

Rebalance(t, m) ==
    LET c == t.cur[m]
        p == TopPage(c)
        above == c.ki[c.top - 1]
        i == IF above > 0 THEN above - 1 ELSE 1
        Enough == WellFilled(t, p) /\ NumKeys(t, p) >= MinKeys(t, p)
    IN  CASE Enough -> t
          [] ~Enough /\ c.snum < 2 -> RebalanceRoot(t, m, c.pg[0])
          [] OTHER -> RebalanceWith(t, m, c, NodePtr(t, c.pg[c.top - 1], i).val, i, above > 0)

----------------------------------------------------------------------------
(* mdb_cursor_put and mdb_cursor_del.                                      *)

(* The node goes in where the cursor is; others on the page step aside.    *)
InsertNode(t, m, n, isnew, append) ==
    LET c == t.cur[m]
        p == TopPage(c)
        others == {x \in Tracked(t, m) : /\ t.cur[x].snum >= c.snum
                                         /\ t.cur[x].pg[c.top] = p
                                         /\ t.cur[x].ki[c.top] >= c.ki[c.top]}
    IN  IF SizeLeft(t, p) < NodeSize(TRUE, n)
        THEN Split(t, m, n, IF ~isnew THEN "replace" ELSE IF append THEN "append" ELSE "insert")
        ELSE Adjusted(NodeAdd(t, p, c.ki[c.top], n),
                [x \in IF isnew THEN others ELSE {} |-> [t.cur[x] EXCEPT !.ki[c.top] = @ + 1]])

(* With overflow pages of its own, if its data is big (mdb_node_add).      *)
Insert(t, m, n, isnew, append) ==
    [InsertNode(t, m, n, isnew, append) EXCEPT !.overflowPages = @ + n.ov]

(* mdb_ovpage_free                                                         *)
OvpageFree(t, n) == [t EXCEPT !.overflowPages = @ - n.ov]

NewRoot(t, m) ==
    [PageNew(t, TRUE) EXCEPT
        !.root = NextPage(t), !.depth = @ + 1,
        !.cur[m] = [Push([@ EXCEPT !.snum = 0], NextPage(t)) EXCEPT !.init = TRUE, !.del = FALSE]]

(* Over a node there already, old: in place if the sizes are equal, or on  *)
(* overflow pages that are enough, if this transaction wrote them.         *)
InPlace(old, n) ==
    IF old.ov > 0 THEN old.ov >= OvPages[n.val] /\ old.dirty
    ELSE DataSize[old.val] = DataSize[n.val]

OverwriteNode(t, m, old, n) ==
    LET p == TopPage(t.cur[m])
        i == t.cur[m].ki[t.cur[m].top]
    IN  IF InPlace(old, n)
        THEN SetNodes([t EXCEPT !.error = @ \/ (old.ov > 0 /\ ~old.dirty)], p,
                      [t.page[p].node EXCEPT ![i + 1].val = n.val])
        ELSE Insert(NodeDel(OvpageFree(t, old), p, i), m, n, FALSE, FALSE)

Overwrite(t, m, n) == OverwriteNode(t, m, NodePtr(t, TopPage(t.cur[m]), t.cur[m].ki[t.cur[m].top]), n)

Store(t, m, n, isnew, append) ==
    IF isnew THEN [Insert(t, m, n, TRUE, append) EXCEPT !.entries = @ + 1] ELSE Overwrite(t, m, n)

StoreAt(t, m, c, n, isnew, append) ==
    Store(CursorTouch([t EXCEPT !.cur[m] = [c EXCEPT !.del = FALSE]], m), m, n, isnew, append)

AppendAfter(t, m, last, n) ==
    IF n.key <= KeyAt(t, last) THEN [t EXCEPT !.cur[m] = last]              \* MDB_KEYEXIST
    ELSE StoreAt(t, m, Moved(last, last.ki[last.top] + 1), n, TRUE, TRUE)

PutWhere(t, m, set, n, flag) ==
    IF flag = "nooverwrite" /\ set.rc THEN [t EXCEPT !.cur[m] = set.c]      \* MDB_KEYEXIST
    ELSE StoreAt(t, m, set.c, n, ~set.rc, FALSE)

CursorPut(t, m, n, flag) ==
    CASE flag = "current" -> StoreAt(t, m, t.cur[m], n, FALSE, FALSE)
      [] flag # "current" /\ t.root = Invalid -> Store(NewRoot(t, m), m, n, TRUE, flag = "append")
      [] flag = "append" /\ t.root # Invalid -> AppendAfter(t, m, CursorLast(t, t.cur[m]).c, n)
      [] OTHER -> PutWhere(t, m, CursorSet(t, t.cur[m], n.key, TRUE), n, flag)

(* A cursor on the node that goes is left before the next one, wherever    *)
(* rebalancing has put that.                                               *)
On(t, l, c, i) == {x \in t.tracked : /\ t.cur[x].init /\ t.cur[x].snum >= c.snum
                                     /\ t.cur[x].pg[l] = c.pg[l] /\ t.cur[x].ki[l] >= i}

AfterSibling(s) == IF s.rc THEN s.c ELSE [s.c EXCEPT !.eof = TRUE]

DelAfter(t, m, c) ==
    IF c.snum = 0 THEN t
    ELSE [Adjusted(t, [x \in On(t, c.top, c, Max({NumKeys(t, TopPage(c)), c.ki[c.top]})) |->
                          AfterSibling(Sibling(t, t.cur[x], TRUE))])
          EXCEPT !.cur[m].del = TRUE]

DelRest(t, m) == DelAfter(t, m, t.cur[m])

Del0(t, m) ==
    LET c  == t.cur[m]
        ki == c.ki[c.top]
        Back(y) == IF y.ki[c.top] = ki THEN [y EXCEPT !.del = TRUE] ELSE [y EXCEPT !.ki[c.top] = @ - 1]
    IN  DelRest(Rebalance([Adjusted(NodeDel(t, TopPage(c), ki),
                                    [x \in On(t, c.top, c, ki) \ {m} |-> Back(t.cur[x])])
                           EXCEPT !.entries = @ - 1], m), m)

CursorDel(t, m) ==
    IF OnNode(t, t.cur[m])
    THEN Del0(OvpageFree(CursorTouch(t, m), NodePtr(t, TopPage(t.cur[m]), t.cur[m].ki[t.cur[m].top])), m)
    ELSE t

(* mdb_put and mdb_del, by a cursor of their own.                          *)
WithMc(t) == [t EXCEPT !.cur = (Mc :> NewCursor) @@ @, !.tracked = @ \cup {Mc}]

MdbPut(t, n, flag) == CursorPut(WithMc(t), Mc, n, flag)

DelWhere(t, set) == IF set.rc THEN CursorDel([WithMc(t) EXCEPT !.cur[Mc] = set.c], Mc) ELSE t
MdbDel(t, k)     == DelWhere(t, CursorSet(t, NewCursor, k, TRUE))

----------------------------------------------------------------------------
(* The state between calls: pages in the order of the tree, and of cursors *)
(* what they may still use.                                                *)

RECURSIVE PagesBelow(_, _)
PagesBelow(t, p) ==
    <<p>> \o (IF t.page[p].leaf THEN <<>>
              ELSE FlattenSeq([i \in DOMAIN t.page[p].node |-> PagesBelow(t, t.page[p].node[i].val)]))

PagesOf(t) == IF t.root = Invalid THEN <<>> ELSE PagesBelow(t, t.root)

(* Pages no longer in the tree would be kept, after those that are.        *)
Order(t, pages) == pages \o SetToSortSeq(DOMAIN t.page \ Range(pages), <)

Settled(t, order) ==
    LET Name(p) == IF p \in Range(order) THEN CHOOSE i \in DOMAIN order : order[i] = p ELSE Invalid
        Page(g) == IF g.leaf THEN g
                   ELSE [g EXCEPT !.node = [i \in DOMAIN @ |-> [@[i] EXCEPT !.val = Name(@)]]]
        Kept(c) == [c EXCEPT !.pg = [l \in Level |-> IF l < c.snum THEN Name(@[l]) ELSE Invalid],
                             !.ki = [l \in Level |-> IF l < c.snum THEN @[l] ELSE 0],
                             !.eof = @ /\ c.snum > 0, !.del = @ /\ c.snum > 0]
    IN  /\ db'  = [page |-> [i \in DOMAIN order |-> Page(t.page[order[i]])], root |-> Name(t.root),
                   depth |-> t.depth, entries |-> t.entries,
                   leafPages |-> t.leafPages, branchPages |-> t.branchPages,
                   overflowPages |-> t.overflowPages]
        /\ cur' = [c \in Cursor |-> Kept(t.cur[c])]
        /\ error' = t.error

(* The state a call begins with.                                           *)
Start == db @@ [cur |-> cur, tracked |-> Cursor, loose |-> <<>>, next |-> Len(db.page) + 1,
                error |-> error]

Leaves(t) == \E u \in {t} : \E order \in {Order(u, PagesOf(u))} : Settled(u, order)

----------------------------------------------------------------------------
(* What is asked of the tree and of its cursors: the map kv; and for each  *)
(* cursor the key it is at, or that it is before since the key it was at   *)
(* was deleted.                                                            *)

Unset == 0             \* not moved yet, or the tree has been empty since
End   == Max(Key) + 1  \* after the last key

Place(k)  == [key |-> k, before |-> FALSE]
Before(k) == [key |-> k, before |-> TRUE]

Held(f)    == {k \in Key : f[k] # NoData}
From(f, k) == LET s == {h \in Held(f) : h >= k} IN IF s = {} THEN End ELSE Min(s)
Prior(f, k) == LET s == {h \in Held(f) : h < k} IN IF s = {} THEN Unset ELSE Max(s)

Went(op, a, k) ==
    CASE Held(kv) = {}                          -> a
      [] op = "first" \/ (op = "next" /\ a.key = Unset) -> Place(From(kv, 1))
      [] op = "last"  \/ (op = "prev" /\ a.key = Unset) -> Place(Prior(kv, End))
      [] op = "range"                           -> Place(From(kv, k))
      [] op = "set"                             -> Place(IF k \in Held(kv) THEN k ELSE Unset)
      [] op = "next" /\ a.key \in Key /\ ~a.before /\ From(kv, a.key + 1) # End ->
            Place(From(kv, a.key + 1))
      [] op = "prev" /\ a.key > 0 /\ Prior(kv, a.key) # Unset -> Place(Prior(kv, a.key))
      [] OTHER                                  -> Place(a.key)

Deleted(k) ==
    /\ kv' = [kv EXCEPT ![k] = NoData]
    /\ at' = [c \in Cursor |-> IF Held(kv') = {} THEN Place(Unset)
                               ELSE IF at[c].key = k THEN Before(From(kv', k)) ELSE at[c]]

(* MDB_KEYEXIST                                                            *)
Refused(k, flag) == \/ flag = "append" /\ From(kv, k) # End
                    \/ flag = "nooverwrite" /\ k \in Held(kv)

Stored(k, d, flag) == kv' = IF Refused(k, flag) THEN kv ELSE [kv EXCEPT ![k] = d]

Init ==
    /\ db = [page |-> <<>>, root |-> Invalid, depth |-> 0, entries |-> 0, leafPages |-> 0, branchPages |-> 0,
             overflowPages |-> 0]
    /\ cur = [c \in Cursor |-> NewCursor]
    /\ error = FALSE
    /\ kv = [k \in Key |-> NoData]
    /\ at = [c \in Cursor |-> Place(Unset)]

(* A refused mdb_put does nothing, and MDB_NOOVERWRITE does nothing but    *)
(* refuse: neither call is looked at twice.                                *)
Put(k, d, flag) ==
    /\ flag \in {"none", "append"} /\ ~Refused(k, flag)
    /\ Leaves(MdbPut(Start, LeafNode(k, d), flag))
    /\ Stored(k, d, flag)
    /\ UNCHANGED at

Del(k) ==
    /\ Leaves(MdbDel(Start, k))
    /\ Deleted(k)

(* A cursor is closed, and another opened, after it was refused an append, *)
(* or MDB_SET found nothing.                                               *)
Renewed(t, c, renew) == IF renew THEN [t EXCEPT !.cur[c] = NewCursor] ELSE t

(* MDB_CURRENT stores under the key the cursor is on.  A put refused for   *)
(* MDB_NOOVERWRITE leaves the cursor on the key with the C_DEL it had, so  *)
(* that MDB_NEXT will not go further than that key.                        *)
CurPut(c, k, d, flag) ==
    /\ flag = "current" => at[c].key = k
    /\ flag = "nooverwrite" => Refused(k, flag)
    /\ Leaves(Renewed(CursorPut(Start, c, LeafNode(k, d), flag), c, flag = "append" /\ Refused(k, flag)))
    /\ Stored(k, d, flag)
    /\ at' = [at EXCEPT ![c] = CASE ~Refused(k, flag) -> Place(k)
                                 [] Refused(k, flag) /\ flag = "append" -> Place(Unset)
                                 [] OTHER -> [key |-> k, before |-> cur[c].del]]

CurDel(c) ==
    /\ at[c].key \in Key
    /\ Leaves(CursorDel(Start, c))
    /\ Deleted(at[c].key)

CursorMove(t, c, op, k) ==
    CASE op = "first" -> CursorFirst(t, c)
      [] op = "last"  -> CursorLast(t, c)
      [] op = "next"  -> CursorNext(t, c)
      [] op = "prev"  -> CursorPrev(t, c)
      [] op = "current" -> CursorCurrent(t, c)
      [] op = "set"   -> CursorSet(t, c, k, TRUE)
      [] op = "range" -> CursorSet(t, c, k, FALSE)

(* C_EOF, set on the last node of a leaf, is not cleared when a split puts *)
(* what was stored after it into a new leaf.                               *)
PastEof(c) ==
    /\ cur[c].eof /\ cur[c].ki[cur[c].top] >= NumKeys(db, TopPage(cur[c])) - 1
    /\ at[c].key \in Key /\ From(kv, at[c].key + 1) # End

(* mdb_cursor_get                                                          *)
CurGet(c, op, k) ==
    /\ op = "next" /\ PastEof(c) => AsksPastEof
    /\ \E r \in {CursorMove(Start, cur[c], op, k)} :
          Leaves(Renewed([Start EXCEPT !.cur[c] = [r.c EXCEPT !.del = FALSE]], c, op = "set" /\ ~r.rc))
    /\ at' = [at EXCEPT ![c] = Went(op, @, k)]
    /\ UNCHANGED kv

Clean(g) == [g EXCEPT !.dirty = FALSE,
                      !.node = IF g.leaf THEN [j \in DOMAIN @ |-> [@[j] EXCEPT !.dirty = FALSE]] ELSE @]

(* The transaction commits, and the next one begins; cursors are closed.   *)
Commit ==
    /\ Cardinality(Held(kv)) \in Commits
    /\ \E i \in DOMAIN db.page : db.page[i].dirty
    /\ db' = [db EXCEPT !.page = [i \in DOMAIN @ |-> Clean(@[i])]]
    /\ cur' = [c \in Cursor |-> NewCursor]
    /\ at' = [c \in Cursor |-> Place(Unset)]
    /\ UNCHANGED <<error, kv>>

Moves == ({"first", "last", "next", "prev", "current"} \X {NoKey}) \cup ({"set", "range"} \X Key)

Next ==
    \/ \E k \in Key, flag \in PutFlags : \E d \in Values[k] : Put(k, d, flag)
    \/ \E k \in Key : Del(k)
    \/ \E c \in Cursor, k \in Key, flag \in PutFlags : \E d \in Values[k] : CurPut(c, k, d, flag)
    \/ \E c \in Cursor : CurDel(c)
    \/ \E c \in Cursor, move \in Moves : CurGet(c, move[1], move[2])
    \/ Commit

Spec == Init /\ [][Next]_vars

----------------------------------------------------------------------------
(* Properties.                                                             *)

TypeOK ==
    /\ \A i \in DOMAIN db.page : /\ db.page[i].leaf \in BOOLEAN
                                 /\ \A n \in Range(db.page[i].node) : n.key \in Key \cup {NoKey}
    /\ db.root \in DOMAIN db.page \cup {Invalid}
    /\ db.depth \in 0 .. MaxDepth
    /\ \A c \in Cursor : cur[c].snum \in 0 .. db.depth /\ at[c].key \in Key \cup {Unset, End}
    /\ kv \in [Key -> Data \cup {NoData}]
    /\ error \in BOOLEAN

(* No call sets MDB_TXN_ERROR, fails an assertion or writes a clean page.  *)
NoError == ~error

RECURSIVE SubtreeOK(_, _, _, _)
SubtreeOK(p, low, high, depth) ==
    LET g == db.page[p]
        n == Len(g.node)
        lo(i) == IF i = 1 THEN low ELSE g.node[i].key
        hi(i) == IF i = n THEN high ELSE g.node[i + 1].key
    IN  /\ SizeOf(g.leaf, g.node) <= PageSize
        /\ IF g.leaf
           THEN /\ n >= 1 /\ depth = 1
                /\ \A i \in 1 .. n : low <= g.node[i].key /\ g.node[i].key < hi(i)
           ELSE /\ n >= 2 /\ depth > 1 /\ g.node[1].key = NoKey
                /\ \A i \in 1 .. n : lo(i) < hi(i) /\ SubtreeOK(g.node[i].val, lo(i), hi(i), depth - 1)

(* Keys in order, each under the separators that lead to it, every leaf at *)
(* the same depth and no page that is full beyond its size; and no call    *)
(* has come to what the code answers with MDB_TXN_ERROR or an assertion.   *)
WellFormed == TypeOK /\ NoError /\ (db.root # Invalid => SubtreeOK(db.root, NoKey, End, db.depth))

Leaf == {i \in DOMAIN db.page : db.page[i].leaf}

(* The tree holds what was stored and not deleted since.                   *)
TreeHoldsMap ==
    UNION {{<<n.key, n.val>> : n \in Range(db.page[i].node)} : i \in Leaf} = {<<k, kv[k]>> : k \in Held(kv)}

(* The counters of MDB_db are exact, and every page written is in the tree.*)
CountsExact ==
    /\ db.entries = Cardinality(Held(kv))
    /\ db.leafPages = Cardinality(Leaf)
    /\ db.branchPages = Len(db.page) - db.leafPages
    /\ Len(db.page) = Len(PagesOf(db))
    /\ db.overflowPages =
          MapThenSumSet(LAMBDA i : MapThenSumSet(LAMBDA j : db.page[i].node[j].ov, DOMAIN db.page[i].node), Leaf)

(* A cursor is on the key it was moved to, or on the next one if that was  *)
(* deleted by whatever means; MDB_NEXT has moved it to the next item if    *)
(* there is one (mdb_cursor_next).                                         *)
CursorsOnKey ==
    \A c \in Cursor : at[c].key \in Key => OnNode(db, cur[c]) /\ KeyAt(db, cur[c]) = at[c].key

(* And its pages are those its indices lead to, from the root to a leaf,   *)
(* whatever was split, merged or moved under it.                           *)
CursorsKeepPlace ==
  /\ CursorsOnKey
  /\ \A c \in Cursor :
        LET m == cur[c] IN
        /\ m.init <=> at[c].key # Unset
        /\ m.init => /\ m.snum = db.depth /\ m.top = m.snum - 1 /\ m.pg[0] = db.root
                     /\ \A l \in 0 .. m.top - 1 : /\ m.ki[l] < NumKeys(db, m.pg[l])
                                                  /\ NodePtr(db, m.pg[l], m.ki[l]).val = m.pg[l + 1]
        /\ at[c].key = End => /\ m.ki[m.top] = NumKeys(db, TopPage(m))
                              /\ \A l \in 0 .. m.top - 1 : m.ki[l] = NumKeys(db, m.pg[l]) - 1
============================================================================
