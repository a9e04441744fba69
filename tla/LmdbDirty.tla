----------------------------- MODULE LmdbDirty ------------------------------
(***************************************************************************)
(* The memory of a write transaction of LMDB and of the transactions       *)
(* nested in it (src/lmdb/mdb.c): which pages it has dirtied and holds in  *)
(* memory (mt_u.dirty_list), which of them it had to write to the file     *)
(* early (mt_spill_pgs), which it took out of use (mt_free_pgs,            *)
(* mt_loose_pgs) and how many more it may dirty (mt_dirty_room); how a     *)
(* page is found through these lists, touched, spilled and brought back;   *)
(* and how the lists of a nested transaction are merged into its parent's  *)
(* when it commits, or dropped when it aborts.                             *)
(*                                                                         *)
(* The tree is a root page with an entry for each leaf page, and a leaf    *)
(* page holds one value: what a page is found by and what is in it is kept,*)
(* its nodes are LmdbTree's.  A page in memory is an element of one        *)
(* transaction's dirty list, so a pointer to it is the level of the        *)
(* transaction and the page number; a pointer into the map has level 0.    *)
(*                                                                         *)
(* Not here: overflow pages, sub-databases, MDB_WRITEMAP, the pages that a *)
(* transaction takes from the freeDB (LmdbTxn).                            *)
(***************************************************************************)
EXTENDS Midl

CONSTANTS
    Leaf,       \* the keys, 1..n: one in each leaf page
    Val,        \* what they may be given
    Cursor,     \* the application's cursors
    MaxLevel,   \* bound: a transaction, and so many nested in it less one
    MaxPg,      \* me_maxpg, the size of the map
    Needs,      \* what an operation is estimated to dirty (mdb_page_spill)
    MaxOps,     \* bound: operations, nested begins and moves of a cursor
    WriteFails  \* the flushes that may fail: a subset of {"spill", "commit"}

None   == 0
Broken == [l \in Leaf |-> -1]      \* the data of a transaction that has failed

VARIABLES
    file,       \* the pages in the file, by number
    meta,       \* the meta page: the root, the first page past the last
    txns,       \* the open transactions, the outermost first
    cur,        \* the application's cursors
    freed,      \* the pages that committed transactions freed (the freeDB)
    committed,  \* history: what the commits that succeeded made of the data
    read,       \* history: what each open transaction reads, by its lists
    ops         \* how many of the MaxOps there have been

vars == <<file, meta, txns, cur, freed, committed, read, ops>>

----------------------------------------------------------------------------
(* Pages, pointers to pages, and finding a page.                           *)

NoEntries == [l \in Leaf |-> None]
RootPage(entry) == [entry |-> entry, val |-> None]
LeafPage(v)     == [entry |-> NoEntries, val |-> v]
Blank           == LeafPage(None)

NewPage(pgno, data) == [mid |-> pgno, data |-> data, keep |-> FALSE, loose |-> FALSE]

Ptr(lvl, pgno) == [lvl |-> lvl, pgno |-> pgno]
Freed(p)       == [p EXCEPT !.lvl = -1]      \* its memory has been freed

\* The number of a page in a spill list: its lowest bit marks it as deleted.
Pn(pgno) == 2 * pgno
Deleted(pn) == pn % 2 = 1

\* mdb_page_get: the lists of this transaction and of its ancestors.
RECURSIVE PageGet(_, _, _)
PageGet(ts, i, pgno) ==
    IF i = 0 \/ MidlHas(ts[i].spill, Pn(pgno)) THEN Ptr(0, pgno)
    ELSE IF Mid2lHas(ts[i].dirty, pgno) THEN Ptr(i, pgno)
    ELSE PageGet(ts, i - 1, pgno)

At(ts, p) == mid2l_search(ts[p.lvl].dirty, p.pgno)

Deref(ts, f, p) == IF p.lvl = 0 THEN f[p.pgno] ELSE ts[p.lvl].dirty[At(ts, p)].data

\* What the transaction at level i reads.
RootOf(ts, f, i) == Deref(ts, f, PageGet(ts, i, ts[i].root)).entry

Tree(ts, f, i) ==
    [l \in Leaf |-> LET pgno == RootOf(ts, f, i)[l] IN
        IF pgno = None THEN None ELSE Deref(ts, f, PageGet(ts, i, pgno)).val]

\* What each of the transactions ts reads.
DataOf(ts, f) == [i \in DOMAIN ts |-> IF ts[i].error THEN Broken ELSE Tree(ts, f, i)]

TreeInFile(f, root) ==
    [l \in Leaf |-> IF f[root].entry[l] = None THEN None ELSE f[f[root].entry[l]].val]

----------------------------------------------------------------------------
(* An operation in progress: the transactions, the file, the cursors, the  *)
(* pages the operation's own cursor holds, and whether it has failed.      *)

Top(s) == Len(s.ts)
Txn(s) == s.ts[Top(s)]

Fail(s) == [s EXCEPT !.ts[Top(s)].error = TRUE, !.failed = TRUE]

\* mdb_cursor_set of the operation's cursor, on leaf l.
CursorAt(s, l) ==
    [s EXCEPT !.m0 = <<PageGet(s.ts, Top(s), Txn(s).root),
                       PageGet(s.ts, Top(s), RootOf(s.ts, s.file, Top(s))[l])>>]

SetData(s, p, data) == [s EXCEPT !.ts[p.lvl].dirty[At(s.ts, p)].data = data]

\* mdb_page_dirty, and the copy of a parent's page, which takes no room.
InsertDirty(s, page, room) ==
    [s EXCEPT !.ts[Top(s)].dirty = mid2l_insert(@, page), !.ts[Top(s)].room = @ - room]

----------------------------------------------------------------------------
(* mdb_pages_xkeep: the pages of the cursors, and the root if this         *)
(* transaction dirtied it, are marked so that they are not spilled.        *)

\* Mutant of CursorPages: only the operation's own cursor is looked at.
CursorPages_OwnOnly(s) == {s.m0[1], s.m0[2]}

CursorPages(s) ==
    {s.m0[1], s.m0[2]} \union UNION {{s.cur[c].pg[1], s.cur[c].pg[2]} :
                                        c \in {d \in DOMAIN s.cur : s.cur[d].init}}

OwnRoot(s) ==
    {p \in {PageGet(s.ts, Top(s), Txn(s).root)} : p.lvl = Top(s)}

XKeep(s, pages, keep) ==
    [s EXCEPT !.ts = [i \in DOMAIN @ |-> [@[i] EXCEPT !.dirty =
        [x \in DOMAIN @ |-> IF Ptr(i, @[x].mid) \in pages /\ ~@[x].loose
                              THEN [@[x] EXCEPT !.keep = keep] ELSE @[x]]]]]

(* mdb_page_flush: the pages after the first n of the dirty list, those    *)
(* marked excepted, are written and their memory is freed.  When a write   *)
(* fails the first `done` of them are in the file and the list is useless. *)

Held(page)   == page.loose \/ page.keep
Unkeep(page) == [page EXCEPT !.keep = FALSE]

ToFlush(dirty, n) == SelectSeq(SubSeq(dirty, n + 1, Len(dirty)), LAMBDA page : ~Held(page))
ToHold(dirty, n)  == SelectSeq(SubSeq(dirty, n + 1, Len(dirty)), Held)

WritePages(f, pages) ==
    [pgno \in DOMAIN f |->
        IF Mid2lHas(pages, pgno) THEN pages[mid2l_search(pages, pgno)].data ELSE f[pgno]]

FlushPages(s, n, pages, held, done) ==
    IF done < Len(pages)
      THEN Fail([s EXCEPT !.file = WritePages(@, SubSeq(pages, 1, done))])
      ELSE [s EXCEPT !.file = WritePages(@, pages),
                     !.ts[Top(s)].dirty = SubSeq(@, 1, n) \o [k \in DOMAIN held |-> Unkeep(held[k])],
                     !.ts[Top(s)].room  = @ + Len(pages)]

Flush(s, n, done) ==
    FlushPages(s, n, ToFlush(Txn(s).dirty, n), ToHold(Txn(s).dirty, n), done)

(* mdb_page_spill.  SpillFrom goes from the tail of the dirty list while   *)
(* `need` more are wanted.  What an ancestor has spilled cannot be spilled *)
(* again: the ancestor reads it from the file, and this one may abort.     *)

\* Mutant of SpilledAbove: an ancestor's spill list is not looked at.
SpilledAbove_NotAsked(ts, pn) == FALSE

SpilledAbove(ts, pn) == \E i \in 1..Len(ts) - 1 : MidlHas(ts[i].spill, pn)

RECURSIVE SpillFrom(_, _, _)
SpillFrom(s, x, need) ==
    IF x = 0 \/ need = 0 THEN [s |-> s, left |-> x]
    ELSE IF Held(Txn(s).dirty[x]) THEN SpillFrom(s, x - 1, need)
    ELSE IF SpilledAbove(s.ts, Pn(Txn(s).dirty[x].mid))
      THEN SpillFrom([s EXCEPT !.ts[Top(s)].dirty[x].keep = TRUE], x - 1, need)
    ELSE SpillFrom([s EXCEPT !.ts[Top(s)].spill = Append(@, Pn(Txn(s).dirty[x].mid))],
                   x - 1, need - 1)

Purged(sl) == SelectSeq(sl, LAMBDA pn : ~Deleted(pn))

Sorted(s) == [s EXCEPT !.ts[Top(s)].spill = midl_sort(@)]

\* After a flush that has succeeded the pages it did not see are unmarked.
Release(s, left) ==
    IF s.failed THEN s
    ELSE [XKeep(s, CursorPages(s) \union (IF left = 0 THEN {} ELSE OwnRoot(s)), FALSE)
            EXCEPT !.ts[Top(s)].spills = TRUE]

SpillChosen(chosen, done) ==
    Release(Flush(Sorted(chosen.s), chosen.left, done), chosen.left)

SpillNeed == IF Needs < UM_MAX \div 8 THEN UM_MAX \div 8 ELSE Needs

Spill(s, done) ==
    IF Txn(s).room > Needs THEN s
    ELSE SpillChosen(
           SpillFrom(XKeep([s EXCEPT !.ts[Top(s)].spill = Purged(@)],
                           CursorPages(s) \union OwnRoot(s), TRUE),
                     Len(Txn(s).dirty), SpillNeed), done)

----------------------------------------------------------------------------
(* mdb_page_alloc: a loose page, or a new one.                             *)

UseLoose(s, pgno) ==
    [s EXCEPT !.ts[Top(s)].loose = Tail(@),
              !.ts[Top(s)].dirty[mid2l_search(Txn(s).dirty, pgno)] = NewPage(pgno, Blank),
              !.new = pgno]

PageAlloc(s) ==
    IF Txn(s).loose # <<>> THEN UseLoose(s, Head(Txn(s).loose))
    ELSE IF Txn(s).room = 0 \/ Txn(s).next + 1 >= MaxPg THEN Fail(s)
    ELSE [InsertDirty(s, NewPage(Txn(s).next, Blank), 1) EXCEPT
             !.ts[Top(s)].next = @ + 1, !.new = Txn(s).next]

(* mdb_page_unspill: the page is taken back from this transaction's spill  *)
(* list; in an ancestor's it stays until this one commits.                 *)

Unlisted(sl, x) ==
    IF x = Len(sl) THEN SubSeq(sl, 1, x - 1) ELSE [sl EXCEPT ![x] = @ + 1]

IsSpilled(s, pgno) == Txn(s).spills /\ \E i \in 1..Top(s) : MidlHas(s.ts[i].spill, Pn(pgno))

Unspill(s, pgno) ==
    IF Txn(s).room = 0 THEN Fail(s)
    ELSE [InsertDirty(s, NewPage(pgno, s.file[pgno]), 1) EXCEPT
             !.ts[Top(s)].spill = IF MidlHas(@, Pn(pgno))
                                    THEN Unlisted(@, midl_search(@, Pn(pgno))) ELSE @,
             !.new = pgno]

(* mdb_page_touch of the page at depth d of the operation's cursor.  The   *)
(* page's parent, or the transaction's root, then names the new page, and  *)
(* every cursor that held the old one holds the new.                       *)

Renumber(s, d, old) ==
    IF d = 1 THEN [s EXCEPT !.ts[Top(s)].root = s.new]
    ELSE SetData(s, s.m0[1],
           RootPage([l \in Leaf |-> IF Deref(s.ts, s.file, s.m0[1]).entry[l] = old
                                      THEN s.new
                                      ELSE Deref(s.ts, s.file, s.m0[1]).entry[l]]))

\* A clean page is copied to the new one and its number is freed.
CopyOut(s, d, p) ==
    IF s.failed THEN s
    ELSE Renumber([SetData(s, Ptr(Top(s), s.new), Deref(s.ts, s.file, p)) EXCEPT
                      !.ts[Top(s)].free = Append(@, p.pgno)], d, p.pgno)

\* What an ancestor dirtied is copied under the same number.
\* Mutant of CopyDown: the copy of a parent's page takes room.
CopyDown_TakesRoom(s, p) ==
    [InsertDirty(s, NewPage(p.pgno, Deref(s.ts, s.file, p)), 1) EXCEPT !.new = p.pgno]

CopyDown(s, p) ==
    [InsertDirty(s, NewPage(p.pgno, Deref(s.ts, s.file, p)), 0) EXCEPT !.new = p.pgno]

Repoint(c, d, p, q) == IF c.pg[d] = p THEN [c EXCEPT !.pg[d] = q] ELSE c

Repointed(s, d, p) ==
    IF s.failed THEN s
    ELSE [s EXCEPT !.m0[d] = Ptr(Top(s), s.new),
                   !.cur = [c \in DOMAIN @ |-> Repoint(@[c], d, p, Ptr(Top(s), s.new))]]

TouchPage(s, d, p) ==
    IF s.failed \/ p.lvl = Top(s) THEN s
    ELSE IF p.lvl # 0 /\ Mid2lHas(Txn(s).dirty, p.pgno) THEN Fail(s)   \* bad cursor
    ELSE Repointed(IF p.lvl # 0 THEN CopyDown(s, p)
                   ELSE IF IsSpilled(s, p.pgno) THEN Unspill(s, p.pgno)
                   ELSE CopyOut(PageAlloc(s), d, p), d, p)

Touch(s, d) == TouchPage(s, d, s.m0[d])

\* mdb_cursor_touch: from the root down.
CursorTouch(s) == Touch(Touch(s, 1), 2)

(* mdb_page_loose: a page this transaction dirtied it may use again, any   *)
(* other is freed.                                                         *)

PageLoose(s, p) ==
    IF p.lvl = Top(s)
      THEN [s EXCEPT !.ts[Top(s)].loose = <<p.pgno>> \o @,
                     !.ts[Top(s)].dirty[At(s.ts, p)].loose = TRUE]
      ELSE [s EXCEPT !.ts[Top(s)].free = Append(@, p.pgno)]

SetEntry(s, l, pgno) ==
    SetData(s, s.m0[1], [Deref(s.ts, s.file, s.m0[1]) EXCEPT !.entry[l] = pgno])

----------------------------------------------------------------------------
(* The application's operations on the innermost transaction.              *)

Operation == [ts |-> txns, file |-> file, cur |-> cur, m0 |-> <<Ptr(0, 0), Ptr(0, 0)>>,
              new |-> 0, failed |-> FALSE]

Depth     == Len(txns)
Innermost == txns[Depth]
Usable    == Depth > 0 /\ ~Innermost.error

Entries  == RootOf(txns, file, Depth)
Present  == {l \in Leaf : Entries[l] # None}
Before(l) == {k \in Present : k < l}
After(l)  == {k \in Present : k > l}

\* The leaf page that holds, or would hold, what is at l.
Neighbour(l) == IF Before(l) # {} THEN CHOOSE b \in Before(l) : \A k \in Before(l) : k <= b
                ELSE CHOOSE b \in After(l) : \A k \in After(l) : k >= b

\* How many pages of a flush are written before one fails; UM_MAX: all are.
Written(flush) == IF flush \in WriteFails THEN {0, 1, UM_MAX} ELSE {UM_MAX}

Becomes(s) ==
    /\ file' = s.file /\ txns' = s.ts /\ cur' = s.cur
    /\ read' = DataOf(s.ts, s.file)
    /\ ops' = ops + 1
    /\ UNCHANGED <<meta, freed, committed>>

Operating == Usable /\ ops < MaxOps

Touched(l, done) == CursorTouch(Spill(CursorAt(Operation, l), done))

IfDone(s, t) == IF s.failed THEN s ELSE t

\* mdb_put of a key that is there.
PutIn(s, v) == IfDone(s, SetData(s, s.m0[2], LeafPage(v)))

Put(l, v) ==
    /\ Operating /\ l \in Present /\ v # read[Depth][l]
    /\ \E done \in Written("spill") : Becomes(PutIn(Touched(l, done), v))

\* mdb_put of a key that splits its neighbour's page: the key gets a page of
\* its own (mdb_page_split, mdb_page_new).
NewLeaf(s, l, v) ==
    IfDone(s, SetEntry(SetData(s, Ptr(Top(s), s.new), LeafPage(v)), l, s.new))

Split(s, l, v) == IfDone(s, NewLeaf(PageAlloc(s), l, v))

Add(l, v) ==
    /\ Operating /\ l \notin Present
    /\ \E done \in Written("spill") : Becomes(Split(Touched(Neighbour(l), done), l, v))

\* mdb_del that empties its page (mdb_rebalance, mdb_page_merge).  The leftmost
\* page takes in what its neighbour holds; any other is joined to the page on
\* its left, which is touched for it.
MoveCursors(s, src, dst, l) ==
    [s EXCEPT !.cur = [c \in DOMAIN @ |->
        IF @[c].pg[2] \in {src, dst} THEN [@[c] EXCEPT !.pg[2] = dst, !.at = l] ELSE @[c]]]

TakeIn(s, l, n, src) ==
    PageLoose(MoveCursors(
        SetEntry(SetEntry(SetData(s, s.m0[2], Deref(s.ts, s.file, src)), n, s.m0[2].pgno), l, None),
        src, s.m0[2], n), src)

JoinTo(s, l, b, src) ==
    IfDone(s, PageLoose(MoveCursors(SetEntry(s, l, None), src, s.m0[2], b), src))

LeftPage(s, b) == PageGet(s.ts, Top(s), Deref(s.ts, s.file, s.m0[1]).entry[b])

Merged(s, l) ==
    IfDone(s, IF Before(l) = {}
                THEN TakeIn(s, l, Neighbour(l), LeftPage(s, Neighbour(l)))
                ELSE JoinTo(Touch([s EXCEPT !.m0[2] = LeftPage(s, Neighbour(l))], 2),
                            l, Neighbour(l), s.m0[2]))

Del(l) ==
    /\ Operating /\ l \in Present /\ Cardinality(Present) > 2
    /\ \E done \in Written("spill") : Becomes(Merged(Touched(l, done), l))

\* mdb_cursor_get.  A parent's cursor may not be used while it has a child.
CursorSet(c, l) ==
    /\ Operating /\ l \in Present /\ ~Innermost.backup[c].init
    /\ cur' = [cur EXCEPT ![c] = [init |-> TRUE, at |-> l,
                  pg |-> <<PageGet(txns, Depth, Innermost.root),
                           PageGet(txns, Depth, Entries[l])>>]]
    /\ ops' = ops + 1
    /\ UNCHANGED <<file, meta, txns, freed, committed, read>>

----------------------------------------------------------------------------
(* Transactions.                                                           *)

TxnsBecome(ts) == txns' = ts /\ read' = DataOf(ts, file)

NoCursor  == [init |-> FALSE, at |-> None, pg |-> <<Ptr(0, 0), Ptr(0, 0)>>]
NoCursors == [c \in Cursor |-> NoCursor]

NewTxn == [dirty |-> <<>>, spill |-> <<>>, free |-> <<>>, loose |-> <<>>, room |-> UM_MAX,
           next |-> meta.next, root |-> meta.root, error |-> FALSE, spills |-> FALSE,
           backup |-> NoCursors, tassert |-> TRUE]

Begin ==
    /\ Depth = 0
    /\ TxnsBecome(<<NewTxn>>)
    /\ UNCHANGED <<file, meta, cur, freed, committed, ops>>

\* Mutant of BeginChild: the child takes its page numbers from the meta page.
BeginChild_NextFromMeta ==
    /\ Operating /\ Depth < MaxLevel
    /\ ops' = ops + 1
    /\ TxnsBecome(Append(txns, [NewTxn EXCEPT
                     !.room = Innermost.room, !.root = Innermost.root,
                     !.spills = Innermost.spills, !.backup = cur]))
    /\ UNCHANGED <<file, meta, cur, freed, committed>>

\* mdb_txn_begin with a parent, mdb_cursor_shadow.
BeginChild ==
    /\ Operating /\ Depth < MaxLevel
    /\ ops' = ops + 1
    /\ TxnsBecome(Append(txns, [NewTxn EXCEPT
                     !.room = Innermost.room, !.next = Innermost.next, !.root = Innermost.root,
                     !.spills = Innermost.spills, !.backup = cur]))
    /\ UNCHANGED <<file, meta, cur, freed, committed>>

\* mdb_txn_abort, mdb_txn_end: the cursors are as they were at its begin.
Abort ==
    /\ Depth > 0
    /\ TxnsBecome(Front(txns))
    /\ cur'  = Innermost.backup
    /\ UNCHANGED <<file, meta, freed, committed, ops>>

(* mdb_txn_commit of a nested transaction c into its parent p.             *)

\* Mutant of Strike: the parent's spill list is left as it is.
Strike_Nothing(sl, mids, x, y) == Purged(sl)

RECURSIVE Strike(_, _, _, _)
\* What the child dirtied is marked 1 in the parent's spill list and squeezed
\* out of it: x is where the scan of the list is, y below the last mark.
Strike(sl, mids, x, y) ==
    IF mids = <<>>
      THEN SubSeq(sl, 1, y) \o Purged(SubSeq(sl, y + 1, Len(sl)))
    ELSE IF x = 0 \/ Pn(Head(mids)) < sl[x] THEN Strike(sl, Tail(mids), x, y)
    ELSE IF Pn(Head(mids)) > sl[x] THEN Strike(sl, mids, x - 1, y)
    ELSE Strike([sl EXCEPT ![x] = 1], Tail(mids), x - 1, x - 1)

RECURSIVE WithoutSpilled(_, _)
\* What the child spilled leaves the parent's dirty list.
WithoutSpilled(dirty, sl) ==
    IF sl = <<>> THEN dirty
    ELSE IF ~Deleted(Head(sl)) /\ Mid2lHas(dirty, Head(sl) \div 2)
      THEN WithoutSpilled(RemoveAt(dirty, mid2l_search(dirty, Head(sl) \div 2)), Tail(sl))
      ELSE WithoutSpilled(dirty, Tail(sl))

RECURSIVE InBoth(_, _, _, _)
\* How many pages are among the first i of dst and the first y of src.
InBoth(dst, src, i, y) ==
    IF i = 0 \/ y = 0 THEN 0
    ELSE IF src[y].mid < dst[i].mid THEN InBoth(dst, src, i - 1, y)
    ELSE IF src[y].mid = dst[i].mid THEN 1 + InBoth(dst, src, i - 1, y - 1)
    ELSE InBoth(dst, src, i, y - 1)

LastMid(dl) == IF dl = <<>> THEN 0 ELSE dl[Len(dl)].mid

\* The length of the merged list: counted, or known from the room that is left.
MergedLen(dst, src, c) ==
    IF Depth > 2
      THEN Len(dst) + Len(src) - InBoth(dst, src, Len(dst), mid2l_search(src, LastMid(dst) + 1) - 1)
      ELSE UM_MAX - c.room

RECURSIVE MergeDirty(_, _, _, _, _, _)
\* From the tails, in place: i is where the next element goes, x and y what is
\* left of dst and src.  It must come out even: mdb_tassert(txn, i == x).
MergeDirty(dst, src, i, x, y, tail) ==
    IF y = 0 THEN [list |-> SubSeq(dst, 1, x) \o tail, even |-> i = x]
    ELSE IF x > 0 /\ src[y].mid < dst[x].mid
      THEN MergeDirty(dst, src, i - 1, x - 1, y, <<dst[x]>> \o tail)
    ELSE MergeDirty(dst, src, i - 1,
                    IF x > 0 /\ src[y].mid = dst[x].mid THEN x - 1 ELSE x,
                    y - 1, <<src[y]>> \o tail)

MergeInto(dst, src, c) == MergeDirty(dst, src, MergedLen(dst, src, c), Len(dst), Len(src), <<>>)

Joined(p, c, m) ==
    [p EXCEPT !.dirty = m.list,
              !.tassert = @ /\ c.tassert /\ m.even,
              !.spill = midl_sort(Strike(@, Mids(c.dirty), Len(@), Len(@)) \o c.spill),
              !.free  = @ \o c.free,
              !.loose = @ \o c.loose,
              !.room  = c.room, !.next = c.next, !.root = c.root, !.spills = c.spills]

\* The parent's pages that were merged over or spilled have been freed; the
\* child's are the parent's now.
Inherited(ptr, c) ==
    IF ptr.lvl = Depth THEN [ptr EXCEPT !.lvl = Depth - 1]
    ELSE IF /\ ptr.lvl = Depth - 1
            /\ Mid2lHas(c.dirty, ptr.pgno) \/ MidlHas(c.spill, Pn(ptr.pgno))
      THEN Freed(ptr)
    ELSE ptr

\* mdb_cursors_close: the parent's cursors keep what was done to them, the
\* child's own are closed.
CommitChild ==
    /\ Usable /\ Depth > 1
    /\ \E m \in {MergeInto(WithoutSpilled(txns[Depth - 1].dirty, Innermost.spill),
                           Innermost.dirty, Innermost)} :
         TxnsBecome(Append(SubSeq(txns, 1, Depth - 2), Joined(txns[Depth - 1], Innermost, m)))
    /\ cur' = [c \in Cursor |->
                 IF Innermost.backup[c].init
                   THEN [cur[c] EXCEPT !.pg = <<Inherited(@[1], Innermost), Inherited(@[2], Innermost)>>]
                   ELSE NoCursor]
    /\ UNCHANGED <<file, meta, freed, committed, ops>>

\* The commit of a transaction that has failed: it is aborted, and its parent
\* has failed as well.
CommitFailed ==
    /\ Depth > 0 /\ Innermost.error
    /\ TxnsBecome(IF Depth = 1 THEN <<>> ELSE [Front(txns) EXCEPT ![Depth - 1].error = TRUE])
    /\ cur'  = Innermost.backup
    /\ UNCHANGED <<file, meta, freed, committed, ops>>

\* mdb_freelist_save: the loose pages join the free ones.
NoLoose(c) == SelectSeq(c.dirty, LAMBDA page : ~page.loose)

Unloosed(c) == [c EXCEPT !.dirty = NoLoose(c), !.free = @ \o c.loose, !.loose = <<>>]

CommitTop(s) ==
    IF s.failed
      THEN UNCHANGED <<meta, freed, committed>>
      ELSE /\ meta'  = [root |-> Txn(s).root, next |-> Txn(s).next]
           /\ freed' = freed \union ToSet(Txn(s).free)
           /\ committed' = read[1]

\* mdb_txn_commit of the outermost transaction: everything that is dirty is
\* written, then the meta page; if that fails it is aborted.
Commit ==
    /\ Usable /\ Depth = 1
    /\ \E done \in Written("commit") :
         \E s \in {Flush([Operation EXCEPT !.ts = <<Unloosed(Innermost)>>], 0, done)} :
            file' = s.file /\ CommitTop(s)
    /\ txns' = <<>> /\ cur' = NoCursors /\ read' = <<>>
    /\ UNCHANGED ops

Init ==
    /\ meta = [root |-> 2, next |-> 3 + Cardinality(Leaf)]
    /\ file = [p \in 2..MaxPg |->
                 IF p = 2 THEN RootPage([l \in Leaf |-> 2 + l])
                 ELSE IF p - 2 \in Leaf THEN LeafPage(CHOOSE v \in Val : TRUE) ELSE Blank]
    /\ committed = TreeInFile(file, meta.root)
    /\ txns = <<>> /\ cur = NoCursors /\ freed = {} /\ read = <<>> /\ ops = 0

Next ==
    \/ Begin \/ BeginChild \/ Abort \/ CommitChild \/ CommitFailed \/ Commit
    \/ \E l \in Leaf : Del(l)
    \/ \E l \in Leaf, v \in Val : Put(l, v) \/ Add(l, v)
    \/ \E c \in Cursor, l \in Leaf : CursorSet(c, l)

Spec == Init /\ [][Next]_vars

----------------------------------------------------------------------------
(* Properties.                                                             *)

Page == [mid : 2..MaxPg, keep : BOOLEAN, loose : BOOLEAN,
         data : [entry : [Leaf -> {None} \union (2..MaxPg)], val : Val \union {None}]]

(* The types of the variables.                                             *)
TypeOK ==
    /\ DOMAIN file = 2..MaxPg
    /\ meta.next <= MaxPg /\ freed \subseteq 2..MaxPg
    /\ committed \in [Leaf -> Val \union {None}]
    /\ Len(txns) <= MaxLevel
    /\ \A i \in 1..Depth :
         /\ ToSet(txns[i].dirty) \subseteq Page
         /\ txns[i].room \in 0..UM_MAX /\ txns[i].next \in 2..MaxPg
         /\ Len(txns[i].dirty) <= UM_MAX

Sound(i) == ~txns[i].error

LooseIn(c) == {c.dirty[x].mid : x \in {y \in DOMAIN c.dirty : c.dirty[y].loose}}

(* The lists of every transaction: its dirty list is in ascending order, its
   spill list in descending order, no page is in both, the pages marked loose
   are those on its loose list, no page stays marked to be kept, and the
   merge came out even (mdb_page_spill, mdb_page_flush, mdb_txn_commit).    *)
ListsSound ==
    /\ TypeOK
    /\ \A i \in {j \in 1..Depth : Sound(j)} : \E c \in {txns[i]} :
        /\ Ascending(Mids(c.dirty)) /\ Descending(c.spill)
        /\ IsInjective(c.spill) /\ c.tassert
        /\ \A x \in DOMAIN c.dirty : ~MidlHas(c.spill, Pn(c.dirty[x].mid)) /\ ~c.dirty[x].keep
        /\ IsInjective(c.loose) /\ ToSet(c.loose) = LooseIn(c)

RECURSIVE InMemory(_)
\* The pages that are dirty for the transaction at level i, its own and those
\* of its ancestors that it has not spilled.
InMemory(i) ==
    IF i = 0 THEN {}
    ELSE ToSet(Mids(txns[i].dirty)) \union
         {p \in InMemory(i - 1) : ~MidlHas(txns[i].spill, Pn(p))}

(* The room that is left is the limit less the pages in memory, whatever was
   spilled, brought back or copied, in whatever transaction
   (mdb_page_dirty, mdb_page_flush, mdb_txn_commit: mt_dirty_room).         *)
RoomExact ==
    \A i \in {j \in 1..Depth : Sound(j)} : txns[i].room = UM_MAX - Cardinality(InMemory(i))

InTree(i) == {txns[i].root} \union ({RootOf(txns, file, i)[l] : l \in Leaf} \ {None})

FreeIn(i) == UNION {ToSet(txns[j].free) \union ToSet(txns[j].loose) : j \in 1..i}

Freeings(i) == FoldLeft(LAMBDA n, c : n + Len(c.free) + Len(c.loose), 0, SubSeq(txns, 1, i))

(* Every page below the next new one is in the tree or free, once: none is
   lost and none is used twice (mdb_page_alloc, mdb_page_touch,
   mdb_page_loose, mdb_txn_commit, mdb_txn_end).                            *)
PagesAccounted ==
    \A i \in {j \in 1..Depth : Sound(j)} :
        /\ InTree(i) \union FreeIn(i) \union freed = 2..txns[i].next - 1
        /\ InTree(i) \intersect (FreeIn(i) \union freed) = {}
        /\ FreeIn(i) \intersect freed = {}
        /\ Freeings(i) = Cardinality(FreeIn(i))

(* A cursor holds the pages that the transaction would find if it looked for
   them now: never memory that was freed, nor a copy that has been superseded
   (mdb_page_touch, mdb_page_spill, mdb_cursor_shadow, mdb_cursors_close).   *)
CursorsCurrent ==
    Usable => \A c \in {d \in Cursor : cur[d].init} :
        cur[c].pg = <<PageGet(txns, Depth, Innermost.root),
                      PageGet(txns, Depth, Entries[cur[c].at])>>

(* What a commit made of the data is what the file holds
   (lmdb.h, mdb_txn_commit).                                                 *)
FileHoldsCommitted == TreeInFile(file, meta.root) = committed

(* Nested transactions do what LmdbNestedSpec says.                          *)
Nested == INSTANCE LmdbNestedSpec WITH db <- TreeInFile(file, meta.root), stack <- read

ImplementsNested == Nested!Spec

(* The list functions, evaluated once, before anything has happened: see
   Midl.                                                                     *)
ListFunctionsSound == (txns = <<>> /\ ops = 0 /\ freed = {}) => MidlSound
=============================================================================
