-------------------------------- MODULE Midl --------------------------------
(* The page lists of src/lmdb/midl.c.  An IDL is an array of page numbers
   that is kept in descending order, ids[0] its length and ids[-1] the number
   of elements it has memory for; an ID2L is in ascending order and each
   element carries the memory of its page.  Here an IDL is a sequence (its
   length is ids[0]); where the memory matters it is a record [ids, cap] with
   cap for ids[-1].  An ID2L is a sequence of records with a field mid.

   The algorithms are those of the code: binary search, merges that walk two
   lists from their tails, the quicksort that leaves short stretches to an
   insertion sort.  MidlSound compares them with what they are for.          *)
EXTENDS Integers, Sequences, FiniteSets, SequencesExt

CONSTANTS UM_MAX,   \* MDB_IDL_UM_MAX, the length of a dirty list
          SMALL,    \* the stretch that is left to the insertion sort
          CheckedIds, CheckedLen   \* MidlSound: lists over these ids, so long

----------------------------------------------------------------------------
(* Binary search.  before(x) says that the id looked for lies before x.      *)

RECURSIVE Bisect(_, _, _, _, _, _)
\* The loop: the cursor is at the last pivot, side is -1 or 1 when the id is
\* before or after it and 0 at the start; n elements above base are left.
Bisect(mids, id, dir, base, n, at) ==
  IF n = 0 THEN at
  ELSE LET pivot  == n \div 2
           cursor == base + pivot + 1
           val    == dir * (id - mids[cursor])
       IN IF val < 0 THEN Bisect(mids, id, dir, base, pivot, cursor)
          ELSE IF val > 0 THEN Bisect(mids, id, dir, cursor, n - pivot - 1, cursor + 1)
          ELSE cursor

\* Descending lists (mdb_midl_search) and ascending ones (mdb_mid2l_search):
\* the position of id, or the first position past which it would go.
midl_search(ids, id) == Bisect(ids, id, -1, 0, Len(ids), 1)

Mids(dl) == [i \in DOMAIN dl |-> dl[i].mid]

mid2l_search(dl, id) == Bisect(Mids(dl), id, 1, 0, Len(dl), 1)

MidlHas(ids, id) ==
  LET x == midl_search(ids, id) IN x <= Len(ids) /\ ids[x] = id

Mid2lHas(dl, id) ==
  LET x == mid2l_search(dl, id) IN x <= Len(dl) /\ dl[x].mid = id

\* mdb_mid2l_insert: refused when the id is there or the list is full.
mid2l_insert(dl, e) ==
  IF Mid2lHas(dl, e.mid) \/ Len(dl) >= UM_MAX
    THEN dl
    ELSE InsertAt(dl, mid2l_search(dl, e.mid), e)

----------------------------------------------------------------------------
(* Lists with their memory.                                                  *)

grow(l, num) == [l EXCEPT !.cap = @ + num]

midl_alloc(num) == [ids |-> << >>, cap |-> num]

\* mdb_midl_need: room for num more, in whole blocks of 256 words.
midl_need(l, num) ==
  LET n == Len(l.ids) + num IN
  IF n > l.cap
    THEN [l EXCEPT !.cap = ((n + n \div 4 + 258) \div 256) * 256 - 2]
    ELSE l

midl_append(l, id) ==
  LET m == IF Len(l.ids) >= l.cap THEN grow(l, UM_MAX) ELSE l
  IN [m EXCEPT !.ids = Append(@, id)]

\* Mutant of midl_append_list: it looks for room for one id, as midl_append.
midl_append_list_OneId(l, app) ==
  LET m == IF Len(l.ids) >= l.cap THEN grow(l, Len(app)) ELSE l
  IN [m EXCEPT !.ids = @ \o app]

midl_append_list(l, app) ==
  LET m == IF Len(l.ids) + Len(app) >= l.cap THEN grow(l, Len(app)) ELSE l
  IN [m EXCEPT !.ids = @ \o app]

\* n | UM_MAX, where UM_MAX has all its low bits set.
OrUmMax(n) == IF n <= UM_MAX THEN UM_MAX ELSE (n \div (UM_MAX + 1) + 1) * (UM_MAX + 1) - 1

\* The pages id .. id + n - 1, the highest first.
midl_append_range(l, id, n) ==
  LET m == IF Len(l.ids) + n > l.cap THEN grow(l, OrUmMax(n)) ELSE l
  IN [m EXCEPT !.ids = @ \o [k \in 1..n |-> id + n - k]]

\* The memory above UM_MAX is given back; what lay there is lost.
midl_shrink(l) ==
  IF l.cap > UM_MAX
    THEN [ids |-> SubSeq(l.ids, 1, IF Len(l.ids) < UM_MAX THEN Len(l.ids) ELSE UM_MAX),
          cap |-> UM_MAX]
    ELSE l

RECURSIVE Xmerge(_, _, _, _, _)
\* The two lists from their tails: j and i are left of idl and of merge, and
\* tail is what is written behind them.  idl[0] is the delimiter: j = 0 stops.
Xmerge(idl, merge, j, i, tail) ==
  IF i = 0 THEN SubSeq(idl, 1, j) \o tail
  ELSE IF j > 0 /\ idl[j] < merge[i]
         THEN Xmerge(idl, merge, j - 1, i, <<idl[j]>> \o tail)
         ELSE Xmerge(idl, merge, j, i - 1, <<merge[i]>> \o tail)

midl_xmerge(l, merge) ==
  [l EXCEPT !.ids = Xmerge(@, merge, Len(@), Len(merge), << >>)]

----------------------------------------------------------------------------
(* mdb_midl_sort: descending.                                                *)

Swap(s, a, b) == [s EXCEPT ![a] = s[b], ![b] = s[a]]

RECURSIVE Sink(_, _, _)
\* The inner loop of the insertion sort: a moves down from position i + 1.
\* It goes down to 1, below the stretch that is being sorted.
Sink(s, i, a) ==
  IF i = 0 THEN [s EXCEPT ![1] = a]
  ELSE IF s[i] >= a THEN [s EXCEPT ![i + 1] = a]
  ELSE Sink([s EXCEPT ![i + 1] = s[i]], i - 1, a)

RECURSIVE InsertionSort(_, _, _)
InsertionSort(s, j, ir) ==
  IF j > ir THEN s ELSE InsertionSort(Sink(s, j - 1, s[j]), j + 1, ir)

\* The median of the left, centre and right elements comes to l + 1, the
\* larger one before it and the smaller one to ir.
SwapIf(s, a, b) == IF s[a] < s[b] THEN Swap(s, a, b) ELSE s

MedianOfThree(s, l, ir) ==
  SwapIf(SwapIf(SwapIf(Swap(s, (l + ir) \div 2, l + 1), l, ir), l + 1, ir), l, l + 1)

RECURSIVE ScanUp(_, _, _), ScanDown(_, _, _), Partition(_, _, _, _)
ScanUp(s, i, a)   == IF s[i + 1] > a THEN ScanUp(s, i + 1, a) ELSE i + 1
ScanDown(s, j, a) == IF s[j - 1] < a THEN ScanDown(s, j - 1, a) ELSE j - 1

\* Elements above a to its left, below it to its right; where the scans met.
Partition(s, i, j, a) ==
  LET i2 == ScanUp(s, i, a)
      j2 == ScanDown(s, j, a)
  IN IF j2 < i2 THEN [s |-> s, i |-> i2, j |-> j2]
     ELSE Partition(Swap(s, i2, j2), i2, j2, a)

RECURSIVE Quicksort(_, _, _, _)
\* stack holds the stretches that are still to be sorted: the longer of two is
\* pushed and the shorter one goes on.
Quicksort(s, l, ir, stack) ==
  IF ir - l < SMALL
    THEN LET done == InsertionSort(s, l + 1, ir) IN
         IF stack = << >> THEN done
         ELSE Quicksort(done, Head(stack)[1], Head(stack)[2], Tail(stack))
    ELSE LET m == MedianOfThree(s, l, ir)
             a == m[l + 1]
             p == Partition(m, l + 1, ir, a)
             t == [p.s EXCEPT ![l + 1] = p.s[p.j], ![p.j] = a]
         IN IF ir - p.i + 1 >= p.j - l
              THEN Quicksort(t, l, p.j - 1, <<<<p.i, ir>>>> \o stack)
              ELSE Quicksort(t, p.i, ir, <<<<l, p.j - 1>>>> \o stack)

midl_sort(ids) == Quicksort(ids, 1, Len(ids), << >>)

----------------------------------------------------------------------------
(* What the lists are for.                                                   *)

Descending(s) == \A i \in 1..Len(s) - 1 : s[i] >= s[i + 1]
Ascending(s)  == \A i \in 1..Len(s) - 1 : s[i] < s[i + 1]

Occurs(s, x) == Cardinality({i \in DOMAIN s : s[i] = x})
SameIds(s, t) == Len(s) = Len(t) /\ \A x \in Range(s) : Occurs(s, x) = Occurs(t, x)

CheckedLists == UNION {[1..n -> CheckedIds] : n \in 0..CheckedLen}
Sets(n) == {s \in UNION {[1..k -> CheckedIds] : k \in 0..n} : Ascending(s)}

SearchSound ==
  \A s \in Sets(CheckedLen), id \in CheckedIds :
    LET down == Reverse(s)
        dl   == [i \in DOMAIN s |-> [mid |-> s[i]]]
    IN /\ midl_search(down, id) = 1 + Cardinality({i \in DOMAIN down : down[i] > id})
       /\ mid2l_search(dl, id) = 1 + Cardinality({i \in DOMAIN s : s[i] < id})
       /\ ToSet(Mids(mid2l_insert(dl, [mid |-> id]))) =
            IF Len(s) >= UM_MAX THEN ToSet(s) ELSE ToSet(s) \union {id}
       /\ Ascending(Mids(mid2l_insert(dl, [mid |-> id])))

SortSound ==
  \A s \in CheckedLists : Descending(midl_sort(s)) /\ SameIds(s, midl_sort(s))

MergeSound ==
  \A s, t \in Sets(3) :
    LET m == midl_xmerge([ids |-> Reverse(s), cap |-> 6], Reverse(t)).ids
    IN Descending(m) /\ SameIds(m, s \o t)

\* No list is written past its memory.
MemorySound ==
  \A n \in 0..2 * UM_MAX + 2, c \in 0..2 * UM_MAX + 2, k \in 0..2 * UM_MAX + 2 :
    LET l == [ids |-> [i \in 1..n |-> i], cap |-> c]
        Fits(m) == Len(m.ids) <= m.cap
    IN n <= c => /\ Fits(midl_append(l, 1))
                 /\ Fits(midl_append_list(l, [i \in 1..k |-> i]))
                 /\ Fits(midl_append_range(l, 1, k))
                 /\ Fits(midl_xmerge(midl_need(l, k), [i \in 1..k |-> 0]))
                 /\ Fits(midl_shrink(l))
                 /\ Fits(midl_append(midl_alloc(c), 1)) \/ UM_MAX = 0

----------------------------------------------------------------------------
(* An action-free invariant: whatever lists are given, a search finds the
   place where its id is or belongs, a sort returns the same ids in descending
   order, a merge of two descending lists is one, and no list is ever longer
   than its memory (midl.c: every function).                                 *)
MidlSound == SearchSound /\ SortSound /\ MergeSound /\ MemorySound
=============================================================================
