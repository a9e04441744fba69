--------------------------- MODULE LmdbTxn_proofs ---------------------------
(***************************************************************************)
(* Proofs about LmdbTxn, for any number of keys, readers, pages and        *)
(* transactions, and any scenarios.                                        *)
(*                                                                         *)
(* The inductive invariant says of every page of the newest meta pages, in *)
(* the file and on disk, that it is as it was written, is the same on disk *)
(* and is kept from the transaction that writes: it is not among the pages *)
(* the transaction has taken or may take.  That it may not take a page of  *)
(* a record is a matter of numbers: the record is of a transaction that a  *)
(* reader, or the next writer after a power loss, could still come before. *)
(***************************************************************************)
EXTENDS LmdbPages_proofs

-----------------------------------------------------------------------------
(* The inductive invariant.                                                *)

Working == pc \in {"open", "save"} /\ ~txn.error
Written == pc \in {"flush", "sync", "meta"}

(* A meta page of the parity of its side, of a transaction begun.          *)
Numbered(m, x) == m.txnid <= begun /\ (m.txnid = 0 \/ m.txnid % 2 = x)

Numbers ==
    /\ wmutex = "held" <=> pc # "idle"
    /\ mti_txnid <= begun
    /\ \A x \in 0 .. 1 : Numbered(metas[x], x) /\ Numbered(diskMetas[x], x)
    /\ metas[mti_txnid % 2].txnid = mti_txnid
    /\ txn.pgoldest <= mti_txnid
    /\ pc # "idle" => txn.id = mti_txnid + 1 /\ txn.id <= begun /\ txn.pglast < txn.id
    /\ \/ Newest(metas).txnid = mti_txnid /\ pc # "publish"
       \/ Newest(metas).txnid = mti_txnid + 1 /\ (pc = "publish" \/ wmutex = "dead")

(* The newest meta page of the file is that of the disk, or comes after it.*)
MetaRel ==
    LET new == Newest(metas).txnid % 2
        old == 1 - new
    IN  \/ /\ diskMetas[new] = metas[new]
           /\ diskMetas[old].txnid <= metas[new].txnid
        \/ /\ diskMetas[old] = metas[old]
           /\ metas[old].txnid = metas[new].txnid - 1
           /\ diskMetas[new].txnid <= metas[old].txnid

(* What each stage of the write transaction has to offer the next one.     *)
Stage ==
    /\ Working => Once(Image(txn), txn) /\ Missing(Image(txn), txn) = {}
    /\ pc = "open" /\ ~txn.error => Fresh(txn) /\ OpenOk(txn) /\ Dated(Records(txn), txn.id - 1)
    /\ pc = "save" => ~txn.error /\ SaveOk(txn) /\ Dated(Records(txn), txn.id)
    /\ Written => Whole(Image(txn), MetaFor(txn))
    /\ pc \in {"sync", "meta"} => Image(txn) = file
    /\ pc = "meta" => disk = file /\ diskMetas = metas
    /\ txn.rounds <= 2

PagesOf(f, m) == TreePages(f, m.root) \cup ({m.freeRoot} \ {Invalid})

(* The pages of P are kept from the transaction that writes, and from the  *)
(* ones after it, as long as these read no record of s or later.           *)
Guard(P, s) ==
    /\ Keeps(file, Opening(Newest(metas)), P, s)
    /\ Working => Keeps(Image(txn), txn, P, s)
    /\ Written => Keeps(Image(txn), Opening(MetaFor(txn)), P, s)
    /\ Working \/ pc = "flush" => P \cap DOMAIN txn.buf = {}

Kept(m) ==
    /\ Whole(file, m)
    /\ \A p \in PagesOf(file, m) : file[p] = disk[p]
    /\ Guard(PagesOf(file, m), m.txnid + 1)

Inv ==
    /\ Shape
    /\ Numbers
    /\ MetaRel
    /\ Stage
    /\ Kept(Newest(metas))
    /\ Kept(Newest(diskMetas))

(* The readers.  A reader that has passed its check keeps the pages of the *)
(* meta page it copies from being taken; if it copies the one written two  *)
(* transactions later, those of that one.                                  *)
SlotRead(r) == metas[slot[r] % 2].root

(* The tree of the last commit is kept from the next transactions.         *)
CurrentKept == Guard(TreePages(file, metas[mti_txnid % 2].root), mti_txnid + 1)

Begins(r)  == rpc[r] \in {"load", "store", "check", "copy"}
Offered(r) == Begins(r) =>
    {Tree(file, metas[mti_txnid % 2].root), Tree(file, Newest(metas).root)} \subseteq current[r]
SlotKept(r) == rpc[r] \in {"copy", "in"} =>
    slot[r] # NoSlot /\ txn.pgoldest <= slot[r] /\ slot[r] <= mti_txnid
Copies(r) == rpc[r] = "copy" =>
    Tree(file, SlotRead(r)) \in current[r] /\ Guard(TreePages(file, SlotRead(r)), slot[r])
Reading(r) == rpc[r] = "in" =>
    /\ Tree(file, rroot[r]) = view[r] /\ view[r] \in current[r]
    /\ Guard(TreePages(file, rroot[r]), slot[r])

Attended(r) == Offered(r) /\ SlotKept(r) /\ Copies(r) /\ Reading(r)

Snapshots ==
    /\ DOMAIN view = Reader /\ DOMAIN current = Reader
    /\ CurrentKept
    /\ \A r \in Reader : Attended(r)

ReadInv == "meta" \notin scenario.failures => Snapshots

-----------------------------------------------------------------------------
(* Meta pages.                                                             *)

(* Transactions take the two sides in turn.                                *)
LEMMA Turns ==
    ASSUME NEW n \in Nat
    PROVE  n % 2 \in 0 .. 1 /\ (n + 1) % 2 = 1 - (n % 2) /\ n % 2 # (n + 1) % 2
OBVIOUS

(* The newest meta page is on the side of its txnid.                       *)
LEMMA NewestFacts ==
    ASSUME NEW ms \in [0 .. 1 -> Metas], \A x \in 0 .. 1 : ms[x].txnid = 0 \/ ms[x].txnid % 2 = x
    PROVE  /\ Newest(ms) \in Metas /\ Newest(ms).txnid \in Nat /\ Newest(ms).txnid % 2 \in 0 .. 1
           /\ Newest(ms) = ms[Newest(ms).txnid % 2]
           /\ \A x \in 0 .. 1 : ms[x].txnid <= Newest(ms).txnid
           /\ \A x \in 0 .. 1 : x = ms[x].txnid % 2 /\ (\A y \in 0 .. 1 : ms[y].txnid <= ms[x].txnid) =>
                                   Newest(ms) = ms[x]
<1>1. ms[0] \in Metas /\ ms[1] \in Metas
  OBVIOUS
<1>2. ms[0].txnid \in Nat /\ ms[1].txnid \in Nat
  BY <1>1, Bounds DEF Metas
<1>3. (ms[0].txnid = 0 \/ ms[0].txnid % 2 = 0) /\ (ms[1].txnid = 0 \/ ms[1].txnid % 2 = 1)
  OBVIOUS
<1>4. \A x \in 0 .. 1 : x = 0 \/ x = 1
  OBVIOUS
<1>5. CASE ms[0].txnid < ms[1].txnid
  <2>1. Newest(ms) = ms[1]
    BY <1>5 DEF Newest
  <2> QED
    BY <1>1, <1>2, <1>3, <1>4, <1>5, <2>1
<1>6. CASE ~(ms[0].txnid < ms[1].txnid)
  <2>1. Newest(ms) = ms[0]
    BY <1>6 DEF Newest
  <2>2. ms[0].txnid % 2 = 0
    BY <1>2, <1>3
  <2>3. ms[1].txnid <= ms[0].txnid
    BY <1>2, <1>6
  <2>4. ms[1].txnid % 2 = 1 => ms[0].txnid # ms[1].txnid
    BY <2>2
  <2> QED
    BY <1>1, <1>2, <1>3, <1>4, <2>1, <2>2, <2>3, <2>4
<1> QED
  BY <1>5, <1>6

(* The pages of a meta page are pages.                                     *)
LEMMA PagesOfType ==
    ASSUME NEW g \in [Page -> Contents], NEW m \in Metas
    PROVE  PagesOf(g, m) \in SUBSET Page /\ m.root \in Place /\ m.freeRoot \in Place
           /\ TreePages(g, m.root) \subseteq PagesOf(g, m) /\ m.txnid \in Nat /\ m.last + 1 \in 2 .. MaxPg
<1>1. m.root \in Place /\ m.freeRoot \in Place /\ m.txnid \in Nat /\ m.last + 1 \in 2 .. MaxPg
  BY Bounds DEF Metas, Place
<1> QED
  BY <1>1, TreeType DEF PagesOf, Place

(* Where its pages stay as they are, so does all it refers to.             *)
LEMMA SamePages ==
    ASSUME NEW g \in [Page -> Contents], NEW h \in [Page -> Contents], NEW m \in Metas,
           \A p \in PagesOf(g, m) : h[p] = g[p]
    PROVE  /\ PagesOf(h, m) = PagesOf(g, m)
           /\ TreePages(h, m.root) = TreePages(g, m.root)
           /\ Tree(h, m.root) = Tree(g, m.root)
           /\ Whole(g, m) => Whole(h, m)
           /\ \A P, s : Keeps(g, Opening(m), P, s) => Keeps(h, Opening(m), P, s)
<1> DEFINE o == Opening(m)
<1>1. m.root \in Place
  BY PagesOfType
<1>2. \A p \in TreePages(g, m.root) : h[p] = g[p]
  BY DEF PagesOf
<1>3. /\ TreePages(h, m.root) = TreePages(g, m.root) /\ Tree(h, m.root) = Tree(g, m.root)
      /\ Branching(g, m.root) => Branching(h, m.root)
  BY <1>1, <1>2, Unaffected
<1>4. RecordsIn(h, m.freeRoot) = RecordsIn(g, m.freeRoot)
  BY DEF RecordsIn, PagesOf
<1>5. o.root = m.root /\ o.freeRoot = m.freeRoot
  BY OpeningFields
<1> HIDE DEF o
<1>6. Pool(h, o) = Pool(g, o)
  BY <1>4, <1>5 DEF Pool
<1>7. \A p, i : Has(h, o, p, i) <=> Has(g, o, p, i)
  BY <1>3, <1>4, <1>5, <1>6 DEF Has
<1>8. Once(g, o) => Once(h, o)
  BY <1>3, <1>5, <1>7 DEF Once
<1>9. Missing(h, o) = Missing(g, o)
  BY <1>7 DEF Missing
<1>10. Whole(g, m) => Whole(h, m)
  BY <1>4, <1>8, <1>9 DEF Whole, o
<1>11. ASSUME NEW P, NEW s, Keeps(g, o, P, s) PROVE Keeps(h, o, P, s)
  BY <1>4, <1>5, <1>6, <1>11 DEF Keeps
<1> QED
  BY <1>3, <1>10, <1>11 DEF PagesOf, o

(* None of its own pages is there to be taken.                             *)
LEMMA KeepsOwn ==
    ASSUME NEW g \in [Page -> Contents], NEW m \in Metas, Whole(g, m), NEW s
    PROVE  Keeps(g, Opening(m), PagesOf(g, m), s)
<1> DEFINE o == Opening(m)
<1>1. /\ o.root = m.root /\ o.freeRoot = m.freeRoot /\ o.pghead = {} /\ o.loose = <<>>
  BY OpeningFields
<1>2. PagesOf(g, m) \subseteq Page /\ m.freeRoot \in Place /\ ToSet(<<>>) = {}
  BY PagesOfType DEF ToSet
<1>3. Once(g, o)
  BY DEF Whole
<1> HIDE DEF o
<1>4. -1 \in Spot /\ -2 \in Spot /\ Ids \subseteq Spot /\ -1 \notin Ids /\ -2 \notin Ids
  BY Bounds DEF Spot
<1>5. DOMAIN RecordsIn(g, m.freeRoot) \subseteq Ids
  <2>1. CASE m.freeRoot = Invalid
    BY <2>1, EmptyMaps DEF RecordsIn
  <2>2. CASE m.freeRoot # Invalid
    <3>1. g[m.freeRoot] \in Contents
      BY <1>2, <2>2 DEF Place
    <3>2. g[m.freeRoot].recs \in Recs
      BY <3>1 DEF Contents
    <3> QED
      BY <2>2, <3>2 DEF RecordsIn, Recs
  <2> QED
    BY <2>1, <2>2
<1>6. ASSUME NEW p \in PagesOf(g, m)
      PROVE  /\ p < o.next
             /\ \A i \in Pool(g, o) : p \notin RecordsIn(g, o.freeRoot)[i]
  <2>1. PICK j \in {-1, -2} : Has(g, o, p, j)
    BY <1>1 DEF PagesOf, Has
  <2>2. p \in Page /\ j \in Spot /\ j \notin Ids
    BY <1>2, <1>4
  <2>3. p < o.next
    BY <1>3, <2>1, <2>2 DEF Once
  <2>4. ASSUME NEW i \in Pool(g, o), p \in RecordsIn(g, o.freeRoot)[i] PROVE FALSE
    <3>1. i \in Ids
      BY <1>1, <1>5 DEF Pool
    <3>2. Has(g, o, p, i)
      BY <2>4 DEF Has
    <3> QED
      BY SMTT(40), <1>3, <1>4, <2>1, <2>2, <3>1, <3>2 DEF Once
  <2> QED
    BY <2>3, <2>4
<1> QED
  BY <1>1, <1>2, <1>6 DEF Keeps, o

(* What keeps some pages keeps fewer, from fewer records.                  *)
LEMMA KeepsLess ==
    ASSUME NEW g, NEW t, NEW P, NEW Q \in SUBSET P, NEW s \in Int, NEW n \in Int, n <= s,
           DOMAIN RecordsIn(g, t.freeRoot) \subseteq Int, Keeps(g, t, P, s)
    PROVE  Keeps(g, t, Q, n)
<1>1. ASSUME NEW i \in Pool(g, t), i < n PROVE i < s
  <2>1. i \in Int
    BY DEF Pool
  <2> QED
    BY <1>1, <2>1
<1> QED
  BY <1>1 DEF Keeps

(* A transaction that has done nothing yet is the opening one.             *)
LEMMA AsOpening ==
    ASSUME NEW g, NEW m, NEW t, t.id = m.txnid + 1, t.root = m.root, t.freeRoot = m.freeRoot,
           t.next = m.last + 1, t.pghead = {}, t.freed = {}, t.loose = <<>>, t.pglast = 0
    PROVE  /\ Once(g, Opening(m)) => Once(g, t)
           /\ Missing(g, t) = Missing(g, Opening(m))
           /\ \A P, s : Keeps(g, Opening(m), P, s) => Keeps(g, t, P, s)
<1> DEFINE o == Opening(m)
<1>1. /\ o.id = t.id /\ o.root = t.root /\ o.freeRoot = t.freeRoot /\ o.next = t.next
      /\ o.pghead = t.pghead /\ o.freed = t.freed /\ o.loose = t.loose /\ o.pglast = t.pglast
  BY OpeningFields
<1> HIDE DEF o
<1>2. Pool(g, o) = Pool(g, t)
  BY <1>1 DEF Pool
<1>3. \A p, i : Has(g, o, p, i) <=> Has(g, t, p, i)
  BY <1>1, <1>2 DEF Has
<1>4. Once(g, o) => Once(g, t)
  BY <1>1, <1>3 DEF Once
<1>5. ASSUME NEW P, NEW s, Keeps(g, o, P, s) PROVE Keeps(g, t, P, s)
  BY <1>1, <1>2, <1>5 DEF Keeps
<1>6. Missing(g, t) = Missing(g, o)
  BY <1>1, <1>3 DEF Missing
<1> QED
  BY <1>4, <1>5, <1>6 DEF o

-----------------------------------------------------------------------------
(* What the steps of the write transaction do to it.                       *)

(* The content it is making of the database is the same, or one key of it  *)
(* is put or deleted.                                                      *)
Effect ==
    \/ Tree(Image(txn'), txn'.root) = Tree(Image(txn), txn.root)
    \/ \E k \in Key, v \in 0 .. MaxWrites :
          Tree(Image(txn'), txn'.root) = [Tree(Image(txn), txn.root) EXCEPT ![k] = v]

(* A transaction that is open or being saved goes on.                      *)
Works ==
    /\ Working /\ pc' \in {"open", "save"}
    /\ Proceeds(txn, txn') /\ txn'.rounds <= 2 /\ Effect
    /\ pc' = "open" => Fresh(txn') /\ OpenOk(txn') /\ Dated(Records(txn'), txn'.id - 1)
    /\ pc' = "save" => SaveOk(txn') /\ Dated(Records(txn'), txn'.id)
    /\ writes' \in {writes, writes + 1} /\ writes' \in 0 .. MaxWrites
    /\ UNCHANGED <<disks, locks, begun, readers, scenario>>

(* What a transaction that writes is known to be.                          *)
LEMMA WorkFacts ==
    ASSUME Shape, Numbers, Stage
    PROVE  /\ pc # "idle" => Begun(txn)
           /\ Working => Once(Image(txn), txn) /\ Missing(Image(txn), txn) = {}
           /\ pc = "open" /\ ~txn.error => /\ Fresh(txn) /\ OpenOk(txn)
                                           /\ Dated(Records(txn), txn.id - 1)
           /\ pc = "save" => Working /\ SaveOk(txn) /\ Dated(Records(txn), txn.id)
<1>1. ASSUME pc # "idle" PROVE Begun(txn)
  <2>1. txn \in Txns /\ txn.id = mti_txnid + 1 /\ txn.pglast < txn.id /\ txn.pgoldest <= mti_txnid
    BY <1>1 DEF Shape, Numbers
  <2>2. mti_txnid \in Int /\ txn.pgoldest \in Int
    BY <2>1, Bounds DEF Shape, TypeOK, Txns
  <2> QED
    BY <2>1, <2>2 DEF Begun
<1> QED
  BY <1>1 DEF Stage, Working

(* mdb_put.                                                                *)
LEMMA PutWorks ==
    ASSUME Shape, Numbers, Stage, NEW k \in Key, Put(k)
    PROVE  Works
<1>1. /\ pc = "open" /\ ~txn.error /\ writes < MaxWrites /\ writes' = writes + 1 /\ pc' = pc
      /\ UNCHANGED <<disks, locks, begun, readers, scenario>>
  BY DEF Put, Writing
<1>2. Begun(txn) /\ Once(Image(txn), txn) /\ Fresh(txn) /\ OpenOk(txn) /\ Dated(Records(txn), txn.id - 1)
  BY <1>1, WorkFacts DEF Working
<1>3. PICK t1 \in {OwnRoot(txn)} : /\ t1.page # Invalid
         /\ \E t2 \in {Own(t1, Child(t1, k))} :
                /\ t2.page # Invalid
                /\ txn' = SetChild(SetPage(t2, t2.page, [Blank EXCEPT !.val = writes + 1]), k, t2.page)
  BY DEF Put
<1>4. PICK t2 \in {Own(t1, Child(t1, k))} :
         /\ t2.page # Invalid
         /\ txn' = SetChild(SetPage(t2, t2.page, [Blank EXCEPT !.val = writes + 1]), k, t2.page)
  BY <1>3
<1>5. writes + 1 \in 0 .. MaxWrites
  BY <1>1, Bounds DEF Shape
<1>6. \A u : u = SetChild(SetPage(t2, t2.page, [Blank EXCEPT !.val = writes + 1]), k, t2.page) =>
         /\ Proceeds(txn, u) /\ Same(txn, u) /\ OpenOk(u) /\ Records(u) = Records(txn)
         /\ Tree(Image(u), u.root) = [Tree(Image(txn), txn.root) EXCEPT ![k] = writes + 1]
  BY <1>2, <1>3, <1>4, <1>5, PutProceeds
<1>7. /\ Proceeds(txn, txn') /\ Same(txn, txn') /\ OpenOk(txn') /\ Records(txn') = Records(txn)
      /\ Tree(Image(txn'), txn'.root) = [Tree(Image(txn), txn.root) EXCEPT ![k] = writes + 1]
  BY <1>4, <1>6
<1>8. Fresh(txn') /\ Dated(Records(txn'), txn'.id - 1) /\ txn'.rounds = 0
  BY <1>2, <1>7 DEF Same, Fresh
<1>9. Effect
  BY <1>5, <1>7, Bounds DEF Effect, Absent
<1> QED
  BY <1>1, <1>5, <1>7, <1>8, <1>9 DEF Works, Working

(* mdb_del.                                                                *)
LEMMA DelWorks ==
    ASSUME Shape, Numbers, Stage, NEW k \in Key, Del(k)
    PROVE  Works
<1>1. /\ pc = "open" /\ ~txn.error /\ writes < MaxWrites /\ writes' = writes + 1 /\ pc' = pc
      /\ UNCHANGED <<disks, locks, begun, readers, scenario>> /\ Child(txn, k) # Invalid
  BY DEF Del, Writing
<1>2. Begun(txn) /\ Once(Image(txn), txn) /\ Fresh(txn) /\ OpenOk(txn) /\ Dated(Records(txn), txn.id - 1)
  BY <1>1, WorkFacts DEF Working
<1>3. PICK t1 \in {OwnRoot(txn)} : /\ t1.page # Invalid
         /\ \E t2 \in {Touch(t1, Child(t1, k))} :
                /\ t2.page # Invalid
                /\ txn' = DropRoot(Loosen(t2, k))
  BY DEF Del
<1>4. PICK t2 \in {Touch(t1, Child(t1, k))} :
         /\ t2.page # Invalid
         /\ txn' = DropRoot(Loosen(t2, k))
  BY <1>3
<1>5. writes + 1 \in 0 .. MaxWrites
  BY <1>1, Bounds DEF Shape
<1>6. \A u : u = DropRoot(Loosen(t2, k)) =>
         /\ Proceeds(txn, u) /\ Same(txn, u) /\ OpenOk(u) /\ Records(u) = Records(txn)
         /\ Tree(Image(u), u.root) = [Tree(Image(txn), txn.root) EXCEPT ![k] = Absent]
  BY SMTT(40), <1>1, <1>2, <1>3, <1>4, DelProceeds
<1>7. /\ Proceeds(txn, txn') /\ Same(txn, txn') /\ OpenOk(txn') /\ Records(txn') = Records(txn)
      /\ Tree(Image(txn'), txn'.root) = [Tree(Image(txn), txn.root) EXCEPT ![k] = Absent]
  BY <1>4, <1>6
<1>8. Fresh(txn') /\ Dated(Records(txn'), txn'.id - 1) /\ txn'.rounds = 0
  BY <1>2, <1>7 DEF Same, Fresh
<1>9. Effect
  BY <1>5, <1>7, Bounds DEF Effect, Absent
<1> QED
  BY <1>1, <1>5, <1>7, <1>8, <1>9 DEF Works, Working

(* mdb_txn_commit, to the loop of mdb_freelist_save.                       *)
LEMMA CommitWorks ==
    ASSUME Shape, Numbers, Stage, Commit
    PROVE  Works
<1>1. /\ pc = "open" /\ ~txn.error /\ writes' = writes /\ pc' = "save"
      /\ UNCHANGED <<disks, locks, begun, readers, scenario>>
  BY DEF Commit
<1>2. Begun(txn) /\ Once(Image(txn), txn) /\ Fresh(txn) /\ OpenOk(txn) /\ Dated(Records(txn), txn.id - 1)
  BY <1>1, WorkFacts DEF Working
<1>3. PICK t1 \in {IF txn.pglast > 0 THEN OwnFree(txn) ELSE txn} :
         /\ txn.pglast > 0 => t1.page # Invalid
         /\ txn' = FreeLoose(t1)
  BY DEF Commit
<1>4. \A u : u = FreeLoose(t1) =>
         /\ Proceeds(txn, u) /\ SaveOk(u) /\ Records(u) = Records(txn) /\ u.rounds = 0
         /\ Tree(Image(u), u.root) = Tree(Image(txn), txn.root)
  BY <1>2, <1>3, CommitProceeds
<1>5. /\ Proceeds(txn, txn') /\ SaveOk(txn') /\ Records(txn') = Records(txn) /\ txn'.rounds = 0
      /\ Tree(Image(txn'), txn'.root) = Tree(Image(txn), txn.root)
  BY <1>3, <1>4
<1>6. Dated(Records(txn'), txn'.id)
  <2>1. txn.id \in Int /\ DOMAIN Records(txn) \subseteq Int /\ txn'.id = txn.id
    BY <1>2, <1>5, BegunFacts, RecordsType, Bounds DEF Proceeds
  <2> QED
    BY <1>2, <1>5, <2>1 DEF Dated
<1>7. writes \in 0 .. MaxWrites
  BY DEF Shape
<1>8. Effect
  BY <1>5 DEF Effect
<1> QED
  BY <1>1, <1>5, <1>6, <1>7, <1>8 DEF Works, Working

(* The loop deletes a record that was used up.                             *)
LEMMA SaveDropWorks ==
    ASSUME Shape, Numbers, Stage, SaveDrop
    PROVE  Works
<1>1. pc = "save" /\ Dropping(txn)
  BY DEF SaveDrop
<1>2. PICK t1 \in {OwnFree(txn)} : SaveStep(t1, DropFree(RemoveRecord(t1, First(t1))))
  BY DEF SaveDrop
<1>3. /\ t1.page # Invalid /\ txn' = DropFree(RemoveRecord(t1, First(t1)))
      /\ writes' = writes /\ pc' = pc
      /\ UNCHANGED <<disks, locks, begun, readers, scenario>>
  BY <1>2 DEF SaveStep
<1>4. Working /\ Begun(txn) /\ Once(Image(txn), txn) /\ SaveOk(txn) /\ Dated(Records(txn), txn.id)
  BY <1>1, WorkFacts
<1>5. \A u : u = DropFree(RemoveRecord(t1, First(t1))) =>
         /\ Proceeds(txn, u) /\ SaveOk(u) /\ Dated(Records(u), u.id) /\ u.rounds = txn.rounds
         /\ Tree(Image(u), u.root) = Tree(Image(txn), txn.root)
  BY <1>1, <1>2, <1>4, SaveDropProceeds
<1>6. /\ Proceeds(txn, txn') /\ SaveOk(txn') /\ Dated(Records(txn'), txn'.id) /\ txn'.rounds = txn.rounds
      /\ Tree(Image(txn'), txn'.root) = Tree(Image(txn), txn.root)
  BY <1>3, <1>5
<1>7. writes \in 0 .. MaxWrites /\ txn.rounds <= 2
  BY DEF Shape, Stage
<1>8. Effect
  BY <1>6 DEF Effect
<1> QED
  BY <1>1, <1>3, <1>4, <1>6, <1>7, <1>8 DEF Works

(* The loop puts the pages freed.                                          *)
LEMMA SaveFreedWorks ==
    ASSUME Shape, Numbers, Stage, SaveFreed
    PROVE  Works
<1>1. pc = "save" /\ ~Dropping(txn) /\ Unsaved(txn)
  BY DEF SaveFreed
<1>2. PICK t1 \in {OwnFree(txn)} :
         SaveStep(t1, [Record(t1, t1.id, t1.freed) EXCEPT !.saved = Cardinality(t1.freed),
                                                         !.rounds = @ + 1])
  BY DEF SaveFreed
<1>3. /\ t1.page # Invalid
      /\ txn' = [Record(t1, t1.id, t1.freed) EXCEPT !.saved = Cardinality(t1.freed), !.rounds = @ + 1]
      /\ writes' = writes /\ pc' = pc
      /\ UNCHANGED <<disks, locks, begun, readers, scenario>>
  BY <1>2 DEF SaveStep
<1>4. Working /\ Begun(txn) /\ Once(Image(txn), txn) /\ SaveOk(txn) /\ Dated(Records(txn), txn.id)
  BY <1>1, WorkFacts
<1>5. \A u : u = [Record(t1, t1.id, t1.freed) EXCEPT !.saved = Cardinality(t1.freed), !.rounds = @ + 1] =>
         /\ Proceeds(txn, u) /\ SaveOk(u) /\ Dated(Records(u), u.id) /\ u.rounds <= 2
         /\ Tree(Image(u), u.root) = Tree(Image(txn), txn.root)
  <2>1. t1 = OwnFree(txn)
    BY <1>2
  <2>2. ASSUME NEW u, u = [Record(t1, t1.id, t1.freed) EXCEPT !.saved = Cardinality(t1.freed), !.rounds = @ + 1]
        PROVE  /\ Proceeds(txn, u) /\ SaveOk(u) /\ Dated(Records(u), u.id) /\ u.rounds <= 2
               /\ Tree(Image(u), u.root) = Tree(Image(txn), txn.root)
    BY <1>1, <1>3, <1>4, <2>1, <2>2, SaveFreedProceeds, Zenon
  <2> QED
    BY <2>2
<1>6. /\ Proceeds(txn, txn') /\ SaveOk(txn') /\ Dated(Records(txn'), txn'.id) /\ txn'.rounds <= 2
      /\ Tree(Image(txn'), txn'.root) = Tree(Image(txn), txn.root)
  BY <1>3, <1>5
<1>7. writes \in 0 .. MaxWrites
  BY DEF Shape
<1>8. Effect
  BY <1>6 DEF Effect
<1> QED
  BY SMTT(40), <1>1, <1>3, <1>4, <1>6, <1>7, <1>8 DEF Works

(* The loop puts room for the pages left over.                             *)
LEMMA SaveReserveWorks ==
    ASSUME Shape, Numbers, Stage, SaveReserve
    PROVE  Works
<1>1. pc = "save" /\ ~Dropping(txn) /\ ~Unsaved(txn) /\ ~Settled(txn)
  BY DEF SaveReserve
<1>2. PICK t1 \in {OwnFree(txn)} : SaveStep(t1, Reserve(t1))
  BY DEF SaveReserve
<1>3. /\ t1.page # Invalid /\ txn' = Reserve(t1)
      /\ writes' = writes /\ pc' = pc
      /\ UNCHANGED <<disks, locks, begun, readers, scenario>>
  BY <1>2 DEF SaveStep
<1>4. Working /\ Begun(txn) /\ Once(Image(txn), txn) /\ SaveOk(txn) /\ Dated(Records(txn), txn.id)
  BY <1>1, WorkFacts
<1>5. \A u : u = Reserve(t1) =>
         /\ Proceeds(txn, u) /\ SaveOk(u) /\ Dated(Records(u), u.id) /\ u.rounds <= 2
         /\ Tree(Image(u), u.root) = Tree(Image(txn), txn.root)
  <2>1. \A t : t = txn => (\A u : u = Reserve(t1) =>
         /\ Proceeds(t, u) /\ SaveOk(u) /\ Dated(Records(u), u.id) /\ u.rounds <= 2
         /\ Tree(Image(u), u.root) = Tree(Image(t), t.root))
    BY <1>1, <1>2, <1>3, <1>4, SaveReserveProceeds
  <2> QED
    BY <2>1
<1>6. /\ Proceeds(txn, txn') /\ SaveOk(txn') /\ Dated(Records(txn'), txn'.id) /\ txn'.rounds <= 2
      /\ Tree(Image(txn'), txn'.root) = Tree(Image(txn), txn.root)
  BY <1>3, <1>5
<1>7. writes \in 0 .. MaxWrites
  BY DEF Shape
<1>8. Effect
  BY <1>6 DEF Effect
<1> QED
  BY <1>1, <1>3, <1>4, <1>6, <1>7, <1>8 DEF Works

(* A write has failed: the transaction can only be aborted.                *)
Spoils ==
    /\ Working /\ pc = "open" /\ pc' = pc
    /\ Begun(txn') /\ txn'.id = txn.id /\ txn'.error /\ txn'.rounds = txn.rounds
    /\ txn'.noMetaSync = txn.noMetaSync
    /\ Tree(Image(txn'), txn'.root) = Tree(Image(txn), txn.root)
    /\ \A s \in Int : txn.pgoldest <= s /\ Oldest(txn) <= s => txn'.pgoldest <= s
    /\ UNCHANGED <<disks, locks, begun, writes, readers, scenario>>

(* A put or a delete that finds no page.                                   *)
LEMMA WriteFailsSpoils ==
    ASSUME Shape, Numbers, Stage, WriteFails
    PROVE  Spoils
<1>1. /\ pc = "open" /\ ~txn.error /\ pc' = pc
      /\ UNCHANGED <<disks, locks, begun, writes, readers, scenario>>
  BY DEF WriteFails, Writing
<1>2. Working /\ Begun(txn) /\ Once(Image(txn), txn)
  BY <1>1, WorkFacts DEF Working
<1>3. PICK t1 \in {OwnRoot(txn)} :
          \/ /\ t1.page = Invalid
             /\ txn' = [t1 EXCEPT !.error = TRUE]
          \/ /\ t1.page # Invalid
             /\ \E k \in Key : \E t2 \in {Own(t1, Child(t1, k))} :
                   /\ t2.page = Invalid
                   /\ txn' = [t2 EXCEPT !.error = TRUE]
  BY DEF WriteFails
<1>4. /\ Begun(t1) /\ Same(txn, t1) /\ Alike(txn, t1)
      /\ Once(Image(t1), t1)
      /\ t1.page # Invalid => t1.root = t1.page /\ t1.root \in Page
  BY <1>2, <1>3, RootOnce
<1>5. {} \in SUBSET Page /\ \A t \in Txns, s \in Int :
         t.pgoldest <= s /\ Oldest(t) <= s <=> Held(t, {}, s)
  BY DEF Held, Apart, Unrecorded
<1>6. \A s \in Int : Held(txn, {}, s) => Held(t1, {}, s)
  BY <1>2, <1>3, <1>5, RootHeld
<1>7. ASSUME NEW t2, Begun(t2), Same(t1, t2), txn' = [t2 EXCEPT !.error = TRUE],
             Tree(Image(t2), t2.root) = Tree(Image(t1), t1.root),
             \A s \in Int : Held(txn, {}, s) => t2.pgoldest <= s
      PROVE  Spoils
  <2>1. t2 \in Txns /\ txn \in Txns
    BY <1>2, <1>7 DEF Begun
  <2>2. txn' \in Txns /\ txn'.id = t2.id /\ txn'.error /\ txn'.rounds = t2.rounds
        /\ txn'.pgoldest = t2.pgoldest /\ txn'.pglast = t2.pglast
        /\ txn'.noMetaSync = t2.noMetaSync /\ txn'.root = t2.root /\ txn'.buf = t2.buf
    BY ZenonT(60), <1>7, <2>1 DEF Txns
  <2>3. Begun(txn')
    BY <1>7, <2>2 DEF Begun
  <2>4. txn'.id = txn.id /\ txn'.rounds = txn.rounds /\ txn'.noMetaSync = txn.noMetaSync
    BY <1>4, <1>7, <2>2 DEF Same
  <2>5. ASSUME NEW s \in Int, txn.pgoldest <= s, Oldest(txn) <= s PROVE txn'.pgoldest <= s
    BY <1>5, <1>7, <2>1, <2>2, <2>5
  <2>6. Image(txn') = Image(t2)
    BY <2>2 DEF Image, At
  <2>7. Tree(Image(txn'), txn'.root) = Tree(Image(txn), txn.root)
    BY <1>4, <1>7, <2>2, <2>6 DEF Alike
  <2> QED
    BY <1>1, <1>2, <2>2, <2>3, <2>4, <2>5, <2>7 DEF Spoils
<1>8. CASE t1.page = Invalid /\ txn' = [t1 EXCEPT !.error = TRUE]
  <2>1. Same(t1, t1)
    BY DEF Same
  <2>2. \A s \in Int : Held(txn, {}, s) => t1.pgoldest <= s
    BY <1>6 DEF Held, Apart
  <2> QED
    BY <1>4, <1>7, <1>8, <2>1, <2>2
<1>9. ASSUME t1.page # Invalid, NEW k \in Key, NEW t2 \in {Own(t1, Child(t1, k))},
             t2.page = Invalid, txn' = [t2 EXCEPT !.error = TRUE]
      PROVE  Spoils
  <2>1. t1 \in Txns /\ t1.root # Invalid
    BY <1>4, <1>9, Bounds DEF Begun
  <2>2. Child(t1, k) \in Place
    BY <2>1, ChildFacts
  <2>3. Owned(t1, Child(t1, k), t2)
    BY <1>4, <2>2, OwnFacts
  <2>4. Begun(t2) /\ Same(t1, t2)
    BY <1>4, <2>2, <2>3, OwnedKeeps
  <2>5. ASSUME NEW s \in Int, Held(txn, {}, s) PROVE t2.pgoldest <= s
    <3>1. Held(t1, {}, s)
      BY <1>6, <2>5
    <3>2. Apart(t2, {}, s)
      BY <1>4, <1>5, <2>2, <2>3, <3>1, OwnedApart
    <3> QED
      BY <3>2 DEF Apart
  <2>6. Tree(Image(t2), t2.root) = Tree(Image(t1), t1.root)
    <3>1. CASE Child(t1, k) \in DOMAIN t1.buf
      <4>1. t2 = [t1 EXCEPT !.page = Child(t1, k)]
        BY <2>2, <2>3, <3>1, <1>4, OwnedKeeps
      <4>2. t2.page = Child(t1, k)
        BY <2>1, <4>1 DEF Txns
      <4>3. DOMAIN t1.buf \subseteq Page
        BY <2>1, ImageFacts
      <4> QED
        BY <1>9, <3>1, <4>2, <4>3, Bounds
    <3>2. CASE Child(t1, k) \notin DOMAIN t1.buf
      <4> DEFINE p == Child(t1, k)
      <4>1. PICK v : /\ Drawn(t1, v)
                     /\ \/ (v.page = Invalid \/ p = Invalid) /\ t2 = v
                        \/ /\ v.page # Invalid
                           /\ t2 = [v EXCEPT !.buf = t2.buf, !.freed = @ \cup {p}]
        <5>1. \E v : /\ Drawn(t1, v)
                     /\ \/ (v.page = Invalid \/ p = Invalid) /\ t2 = v
                        \/ /\ v.page # Invalid /\ p # Invalid
                           /\ t2 \in Txns
                           /\ t2 = [v EXCEPT !.buf = t2.buf, !.freed = @ \cup {p}]
                           /\ DOMAIN t2.buf = DOMAIN v.buf /\ t2.buf[v.page] = At(v, p)
                           /\ \A q \in DOMAIN v.buf : q # v.page => t2.buf[q] = v.buf[q]
          BY <2>3, <3>2, Zenon DEF Owned
        <5> QED
          BY <5>1, Zenon
      <4>2. v \in Txns
        BY <1>4, <4>1, DrawnKeeps DEF Begun
      <4>3. t2 = v
        BY <1>9, <4>1, <4>2 DEF Txns
      <4> QED
        BY <1>4, <4>1, <4>3, DrawnOnce DEF Alike
    <3> QED
      BY <3>1, <3>2
  <2> QED
    BY <1>7, <1>9, <2>4, <2>5, <2>6
<1> QED
  BY <1>3, <1>8, <1>9

(* The transaction ends without a trace in the file.                       *)
Ends ==
    /\ pc # "idle" /\ pc' = "idle"
    /\ txn' \in {NoTxn, [NoTxn EXCEPT !.pgoldest = txn.pgoldest]}
    /\ wmutex' = "dead" \/ (wmutex' = "free" /\ pc # "publish")
    /\ UNCHANGED <<disks, mti_txnid, fatal, begun, writes, readers, scenario>>

(* It leaves what it writes, and the next transaction begins after it.     *)
Fills ==
    /\ pc = "save" /\ pc' = "flush"
    /\ txn' \in Txns /\ txn'.id = txn.id /\ txn'.pglast = txn.pglast
    /\ txn'.pgoldest = txn.pgoldest /\ txn'.rounds <= 2
    /\ txn'.noMetaSync = txn.noMetaSync
    /\ Tree(Image(txn'), txn'.root) = Tree(Image(txn), txn.root)
    /\ DOMAIN txn'.buf \subseteq DOMAIN txn.buf
    /\ Whole(Image(txn'), MetaFor(txn'))
    /\ \A P \in SUBSET Page, s \in Int : Held(txn, P, s) /\ s <= txn.id =>
          Keeps(Image(txn'), Opening(MetaFor(txn')), P, s)
    /\ UNCHANGED <<disks, locks, begun, writes, readers, scenario>>

(* The pages left over fill the room reserved.                             *)
LEMMA SaveFillFills ==
    ASSUME Shape, Numbers, Stage, SaveFill
    PROVE  Fills
<1>1. /\ pc = "save" /\ Saved(txn) /\ pc' = "flush"
      /\ txn' = Fill(txn, txn.pghead \cup ToSet(txn.loose))
      /\ UNCHANGED <<disks, locks, begun, writes, readers, scenario>>
  BY DEF SaveFill
<1>2. /\ Begun(txn) /\ Once(Image(txn), txn) /\ Missing(Image(txn), txn) = {}
      /\ SaveOk(txn) /\ Dated(Records(txn), txn.id)
  BY <1>1, WorkFacts
<1>3. \A u : u = Fill(txn, txn.pghead \cup ToSet(txn.loose)) =>
           /\ u \in Txns /\ u.id = txn.id /\ u.noMetaSync = txn.noMetaSync /\ u.error = txn.error
           /\ u.pglast = txn.pglast /\ u.pgoldest = txn.pgoldest
           /\ u.rounds = txn.rounds
           /\ DOMAIN u.buf \subseteq DOMAIN txn.buf
           /\ Whole(Image(u), MetaFor(u))
           /\ Tree(Image(u), u.root) = Tree(Image(txn), txn.root)
           /\ \A P \in SUBSET Page, s \in Int : Held(txn, P, s) /\ s <= txn.id =>
                 Keeps(Image(u), Opening(MetaFor(u)), P, s)
  BY <1>1, <1>2, FillProceeds
<1>4. txn.rounds <= 2
  BY DEF Stage
<1>5. /\ txn' \in Txns /\ txn'.id = txn.id /\ txn'.pglast = txn.pglast
      /\ txn'.noMetaSync = txn.noMetaSync
      /\ Tree(Image(txn'), txn'.root) = Tree(Image(txn), txn.root)
      /\ txn'.pgoldest = txn.pgoldest /\ txn'.rounds = txn.rounds
      /\ DOMAIN txn'.buf \subseteq DOMAIN txn.buf
      /\ Whole(Image(txn'), MetaFor(txn'))
      /\ \A P \in SUBSET Page, s \in Int : Held(txn, P, s) /\ s <= txn.id =>
             Keeps(Image(txn'), Opening(MetaFor(txn')), P, s)
  BY <1>1, <1>3
<1> QED
  BY <1>1, <1>4, <1>5 DEF Fills

(* A reader takes a step.                                                  *)
Reads == (\E r \in Reader : ReaderNext(r)) /\ UNCHANGED <<disks, locks, pc, txn, begun, writes, scenario>>

(* Every step is of one of these kinds.                                    *)
LEMMA Kinds ==
    ASSUME Shape, Numbers, Stage, Next
    PROVE  \/ \E flag \in BOOLEAN : Begin(flag)
           \/ Works \/ Spoils \/ Ends \/ Fills \/ Flush \/ FlushFails \/ Sync
           \/ WriteMeta \/ MetaFails \/ Publish \/ RecoverMutex \/ Reopen \/ PowerLoss \/ Reads
<1>1. ASSUME NEW flag \in scenario.flags, Begin(flag) PROVE flag \in BOOLEAN
  <2>1. scenario \in Scenario
    BY Assumptions DEF Shape
  <2>2. scenario.flags \in SUBSET BOOLEAN
    BY <2>1 DEF Scenario
  <2> QED
    BY <2>2
<1>2. ASSUME Abort \/ SaveFails \/ SyncFails PROVE Ends
  BY <1>2 DEF Abort, SaveFails, SyncFails, EndTxn, Ends, disks, readers
<1>3. ASSUME Die PROVE Ends
  BY SMTT(40), <1>3 DEF Die, Ends, disks, readers
<1>4. ASSUME NEW r \in Reader, ReaderNext(r) PROVE Reads
  BY <1>4 DEF ReaderNext, BeginRead, LoadTxnid, StoreSlot, CheckTxnid, CopyMeta, EndRead, Reads
<1>5. CASE WriterNext
  BY SMTT(40), <1>1, <1>2, <1>5, PutWorks, DelWorks, WriteFailsSpoils, CommitWorks, SaveDropWorks, SaveFreedWorks,
     SaveReserveWorks, SaveFillFills DEF WriterNext
<1>6. CASE Faults
  BY <1>2, <1>3, <1>6 DEF Faults
<1> QED
  BY <1>4, <1>5, <1>6 DEF Next

-----------------------------------------------------------------------------
(* What becomes of the meta pages.                                         *)

(* Two meta pages on their sides.                                          *)
Sided(ms) == ms \in [0 .. 1 -> Metas] /\ \A x \in 0 .. 1 : ms[x].txnid = 0 \/ ms[x].txnid % 2 = x

(* The next meta page is the newest, beside the one before.                *)
LEMMA NewestNext ==
    ASSUME NEW ms, Sided(ms), NEW m \in Metas, m.txnid = Newest(ms).txnid + 1,
           NEW ns, ns = [ms EXCEPT ![m.txnid % 2] = m]
    PROVE  /\ Sided(ns) /\ Newest(ns) = m
           /\ ns[m.txnid % 2] = m /\ ns[1 - (m.txnid % 2)] = Newest(ms)
           /\ Newest(ms) = ms[1 - (m.txnid % 2)]
<1> DEFINE n == Newest(ms).txnid
           x == m.txnid % 2
<1>1. /\ ms \in [0 .. 1 -> Metas] /\ n \in Nat /\ n % 2 \in 0 .. 1 /\ Newest(ms) = ms[n % 2]
      /\ \A y \in 0 .. 1 : ms[y].txnid <= n
  BY NewestFacts DEF Sided
<1>2. m.txnid = n + 1
  OBVIOUS
<1> HIDE DEF n
<1>3. x \in 0 .. 1 /\ x = 1 - (n % 2) /\ n % 2 = 1 - x /\ m.txnid \in Nat
  BY SMTT(40), <1>1, <1>2, Turns
<1> HIDE DEF x
<1>4. ns \in [0 .. 1 -> Metas] /\ ns[x] = m /\ \A y \in 0 .. 1 : y # x => ns[y] = ms[y]
  BY <1>1, <1>3 DEF x
<1>5. 1 - x \in 0 .. 1 /\ 1 - x # x /\ \A y \in 0 .. 1 : y = x \/ y = 1 - x
  BY <1>3
<1>6. ns[1 - x] = ms[1 - x] /\ ms[1 - x] = Newest(ms)
  BY SMTT(40), <1>1, <1>3, <1>4, <1>5
<1>7. Sided(ns)
  <2>1. \A y \in 0 .. 1 : ns[y].txnid = 0 \/ ns[y].txnid % 2 = y
    <3> TAKE y \in 0 .. 1
    <3>1. CASE y = x
      BY <1>4, <3>1 DEF x
    <3>2. CASE y # x
      BY <1>4, <3>2 DEF Sided
    <3> QED
      BY <3>1, <3>2
  <2> QED
    BY <1>4, <2>1 DEF Sided
<1>8. \A y \in 0 .. 1 : ns[y].txnid <= m.txnid
  <2> TAKE y \in 0 .. 1
  <2>1. CASE y = x
    BY <1>3, <1>4, <2>1
  <2>2. CASE y # x
    <3>1. ns[y] = ms[y] /\ ms[y].txnid <= n /\ ms[y].txnid \in Nat
      BY SMTT(40), <1>1, <1>4, <2>2, Bounds DEF Metas
    <3> QED
      BY <1>1, <1>2, <3>1
  <2> QED
    BY <2>1, <2>2
<1>9. Newest(ns) = ns[x]
  BY ZenonT(60), <1>3, <1>4, <1>7, <1>8, NewestFacts DEF Sided, x
<1> QED
  BY <1>4, <1>6, <1>7, <1>9 DEF x

(* A meta page on the other side with the txnid of the one there.          *)
LEMMA NewestFailed ==
    ASSUME NEW ms, Sided(ms), NEW x \in 0 .. 1, x # Newest(ms).txnid % 2, NEW m \in Metas,
           m.txnid = ms[x].txnid, NEW ns, ns = [ms EXCEPT ![x] = m]
    PROVE  /\ Sided(ns) /\ Newest(ns) = Newest(ms) /\ ns[1 - x] = ms[1 - x] /\ ns[x] = m
<1> DEFINE n == Newest(ms).txnid
<1>1. /\ ms \in [0 .. 1 -> Metas] /\ n \in Nat /\ n % 2 \in 0 .. 1 /\ Newest(ms) = ms[n % 2]
      /\ \A y \in 0 .. 1 : ms[y].txnid <= n
  BY NewestFacts DEF Sided
<1>2. x \in 0 .. 1 /\ 1 - x = n % 2 /\ 1 - x # x /\ 1 - x \in 0 .. 1
  BY <1>1
<1>3. ns \in [0 .. 1 -> Metas] /\ ns[x] = m /\ \A y \in 0 .. 1 : y # x => ns[y] = ms[y]
  BY <1>1, <1>2
<1>4. \A y \in 0 .. 1 : ns[y].txnid = ms[y].txnid
  BY <1>3
<1>5. Sided(ns)
  BY <1>3, <1>4 DEF Sided
<1>6. ns[1 - x] = Newest(ms)
  BY <1>1, <1>2, <1>3
<1>7. Newest(ns) = ns[1 - x]
  <2>1. 1 - x = ns[1 - x].txnid % 2
    BY <1>2, <1>6
  <2>2. \A y \in 0 .. 1 : ns[y].txnid <= ns[1 - x].txnid
    BY <1>1, <1>4, <1>6
  <2> QED
    BY <1>2, <1>5, <2>1, <2>2, NewestFacts DEF Sided
<1> QED
  BY <1>1, <1>2, <1>3, <1>5, <1>6, <1>7

(* The numbers, told of the meta pages.                                    *)
LEMMA MetaFacts ==
    ASSUME Shape, Numbers
    PROVE  /\ Sided(metas) /\ Sided(diskMetas)
           /\ mti_txnid \in Nat /\ mti_txnid % 2 \in 0 .. 1 /\ begun \in Nat
           /\ metas[mti_txnid % 2] \in Metas
           /\ Newest(metas) \in Metas /\ Newest(metas).txnid \in Nat
           /\ Newest(metas) = metas[Newest(metas).txnid % 2]
           /\ Newest(diskMetas) \in Metas /\ Newest(diskMetas).txnid \in Nat
           /\ Newest(diskMetas) = diskMetas[Newest(diskMetas).txnid % 2]
           /\ pc # "publish" /\ wmutex # "dead" =>
                 Newest(metas).txnid = mti_txnid /\ Newest(metas) = metas[mti_txnid % 2]
           /\ pc # "idle" => wmutex = "held" /\ txn.id \in Nat /\ txn.id = mti_txnid + 1
<1>1. Sided(metas) /\ Sided(diskMetas)
  BY DEF Shape, TypeOK, Numbers, Numbered, Sided
<1>2. mti_txnid \in Nat /\ begun \in Nat
  BY Bounds DEF Shape, TypeOK
<1>3. mti_txnid % 2 \in 0 .. 1 /\ metas[mti_txnid % 2] \in Metas
  BY <1>1, <1>2, Turns DEF Sided
<1>4. /\ Newest(metas) \in Metas /\ Newest(metas).txnid \in Nat
      /\ Newest(metas) = metas[Newest(metas).txnid % 2]
      /\ Newest(diskMetas) \in Metas /\ Newest(diskMetas).txnid \in Nat
      /\ Newest(diskMetas) = diskMetas[Newest(diskMetas).txnid % 2]
  BY <1>1, NewestFacts DEF Sided
<1>5. pc # "publish" /\ wmutex # "dead" =>
         Newest(metas).txnid = mti_txnid /\ Newest(metas) = metas[mti_txnid % 2]
  BY <1>4 DEF Numbers
<1>6. pc # "idle" => wmutex = "held" /\ txn.id \in Nat /\ txn.id = mti_txnid + 1
  BY <1>2 DEF Numbers
<1> QED
  BY <1>1, <1>2, <1>3, <1>4, <1>5, <1>6

(* The newest meta page of the disk is that of the file, or one behind.    *)
LEMMA DiskFacts ==
    ASSUME Shape, Numbers, MetaRel
    PROVE  /\ \/ Newest(diskMetas) = Newest(metas)
              \/ Newest(diskMetas).txnid = Newest(metas).txnid - 1
           /\ \A ms : /\ ms \in [0 .. 1 -> Metas]
                      /\ \A x \in 0 .. 1 : ms[x] \in {metas[x], diskMetas[x]}
                      => Sided(ms) /\ Newest(ms) \in {Newest(metas), Newest(diskMetas)}
<1> DEFINE n == Newest(metas).txnid
           a == n % 2
           b == 1 - a
<1>1. /\ Sided(metas) /\ Sided(diskMetas) /\ n \in Nat /\ Newest(metas) = metas[a]
  BY MetaFacts
<1>2. a \in 0 .. 1 /\ b \in 0 .. 1 /\ a # b /\ \A x \in 0 .. 1 : x = a \/ x = b
  <2> HIDE DEF n
  <2> QED
    BY <1>1, Turns
<1>3. \A x \in 0 .. 1 : metas[x].txnid <= n /\ metas[x].txnid \in Nat /\ diskMetas[x].txnid \in Nat
  <2>1. \A x \in 0 .. 1 : metas[x].txnid <= n
    BY <1>1, NewestFacts DEF Sided
  <2> QED
    BY SMTT(40), <1>1, <2>1, Bounds DEF Sided, Metas
<1>4. \/ diskMetas[a] = metas[a] /\ diskMetas[b].txnid <= metas[a].txnid
      \/ /\ diskMetas[b] = metas[b] /\ metas[b].txnid = metas[a].txnid - 1
         /\ diskMetas[a].txnid <= metas[b].txnid
  BY DEF MetaRel
<1>5. metas[a].txnid = n
  BY <1>1
<1>6. \A ms : /\ ms \in [0 .. 1 -> Metas]
              /\ \A x \in 0 .. 1 : ms[x] \in {metas[x], diskMetas[x]}
              => Sided(ms)
  BY <1>1 DEF Sided
<1>7. \A ms, x : Sided(ms) /\ x \in 0 .. 1 /\ x = ms[x].txnid % 2
                 /\ (\A y \in 0 .. 1 : ms[y].txnid <= ms[x].txnid) => Newest(ms) = ms[x]
  BY NewestFacts DEF Sided
<1> HIDE DEF n
<1>8. a = metas[a].txnid % 2
  BY <1>5
<1> HIDE DEF a
<1>9. CASE diskMetas[a] = metas[a] /\ diskMetas[b].txnid <= metas[a].txnid
  <2>1. ASSUME NEW ms, Sided(ms), \A x \in 0 .. 1 : ms[x] \in {metas[x], diskMetas[x]}
        PROVE  Newest(ms) = metas[a]
    <3>1. ms[a] = metas[a] /\ ms[b].txnid <= metas[a].txnid
      BY <1>2, <1>3, <1>5, <1>9, <2>1
    <3>2. \A y \in 0 .. 1 : ms[y].txnid <= ms[a].txnid
      BY <1>2, <1>3, <3>1
    <3> QED
      BY <1>2, <1>7, <1>8, <2>1, <3>1, <3>2
  <2>2. Newest(diskMetas) = metas[a]
    BY <1>1, <2>1
  <2> QED
    BY <1>1, <1>6, <2>1, <2>2
<1>10. CASE /\ diskMetas[b] = metas[b] /\ metas[b].txnid = metas[a].txnid - 1
            /\ diskMetas[a].txnid <= metas[b].txnid
  <2>1. b = metas[b].txnid % 2
    <3>1. metas[b].txnid = n - 1 /\ n - 1 \in Nat
      BY <1>2, <1>3, <1>5, <1>10
    <3>2. (n - 1) % 2 = 1 - (n % 2)
      <4>1. \A k \in Nat : k % 2 = 1 - ((k + 1) % 2)
        BY Turns
      <4>2. (n - 1) + 1 = n
        BY <1>1
      <4> QED
        BY <3>1, <4>1, <4>2
    <3> QED
      BY <3>1, <3>2 DEF a
  <2>2. ASSUME NEW ms, Sided(ms), ms[b] = metas[b], ms[a] \in {metas[a], diskMetas[a]}
        PROVE  Newest(ms) = IF ms[a] = metas[a] THEN metas[a] ELSE metas[b]
    <3>1. CASE ms[a] = metas[a]
      <4>1. \A y \in 0 .. 1 : ms[y].txnid <= ms[a].txnid
        BY <1>2, <1>3, <1>10, <2>2, <3>1
      <4> QED
        BY <1>2, <1>7, <1>8, <2>2, <3>1, <4>1
    <3>2. CASE ms[a] # metas[a]
      <4>1. \A y \in 0 .. 1 : ms[y].txnid <= ms[b].txnid
        BY <1>2, <1>3, <1>10, <2>2, <3>2
      <4> QED
        BY <1>2, <1>7, <2>1, <2>2, <3>2, <4>1
    <3> QED
      BY <3>1, <3>2
  <2>3. diskMetas[a] # metas[a]
    BY <1>2, <1>3, <1>10
  <2>4. Newest(diskMetas) = metas[b]
    BY <1>1, <1>10, <2>2, <2>3
  <2>5. Newest(metas) = metas[a]
    BY <1>1
  <2>6. \A ms : /\ ms \in [0 .. 1 -> Metas]
                /\ \A x \in 0 .. 1 : ms[x] \in {metas[x], diskMetas[x]}
                => Newest(ms) \in {metas[a], metas[b]}
    <3> SUFFICES ASSUME NEW ms \in [0 .. 1 -> Metas],
                        \A x \in 0 .. 1 : ms[x] \in {metas[x], diskMetas[x]}
                 PROVE  Newest(ms) \in {metas[a], metas[b]}
      OBVIOUS
    <3>1. Sided(ms) /\ ms[b] = metas[b] /\ ms[a] \in {metas[a], diskMetas[a]}
      BY <1>2, <1>6, <1>10
    <3> QED
      BY <2>2, <3>1
  <2> QED
    BY <1>6, <1>10, <2>4, <2>5, <2>6
<1> QED
  BY <1>4, <1>9, <1>10

(* The meta page the transaction writes.                                   *)
LEMMA NewMetaFacts ==
    ASSUME Shape, Numbers
    PROVE  /\ NewMeta = MetaFor(txn) /\ NewMeta \in Metas /\ NewMeta.txnid = txn.id
           /\ NewMeta.root = txn.root /\ NewMeta.freeRoot = txn.freeRoot
           /\ Toggle = NewMeta.txnid % 2
<1>1. txn \in Txns
  BY DEF Shape
<1>2. txn.id \in Ids /\ txn.root \in Place /\ txn.freeRoot \in Place /\ txn.next \in 2 .. MaxPg
  BY <1>1 DEF Txns
<1>3. txn.next - 1 \in 1 .. MaxPg - 1
  BY <1>2, Bounds
<1> QED
  BY <1>2, <1>3 DEF NewMeta, MetaFor, Metas, Place, Toggle

(* What WriteMeta and MetaFails make of the meta pages.                    *)
LEMMA WriteMetaFacts ==
    ASSUME Shape, Numbers, Stage, WriteMeta
    PROVE  /\ Newest(metas)' = NewMeta /\ Sided(metas') /\ Sided(diskMetas')
           /\ metas'[NewMeta.txnid % 2] = NewMeta /\ metas'[1 - (NewMeta.txnid % 2)] = Newest(metas)
           /\ metas'[mti_txnid % 2] = metas[mti_txnid % 2]
           /\ diskMetas = metas /\ (diskMetas' = diskMetas \/ diskMetas' = metas')
           /\ Newest(metas).txnid = mti_txnid /\ Newest(metas) = metas[mti_txnid % 2]
           /\ \A x \in 0 .. 1 : metas'[x] \in {metas[x], NewMeta} /\ diskMetas'[x] \in {metas[x], NewMeta}
<1>1. /\ pc = "meta" /\ metas' = [metas EXCEPT ![Toggle] = NewMeta]
      /\ diskMetas' = IF txn.noMetaSync THEN diskMetas ELSE [diskMetas EXCEPT ![Toggle] = NewMeta]
  BY DEF WriteMeta
<1>2. diskMetas = metas /\ (diskMetas' = diskMetas \/ diskMetas' = metas')
  BY <1>1 DEF Stage
<1>3. /\ NewMeta \in Metas /\ NewMeta.txnid = txn.id /\ Toggle = NewMeta.txnid % 2
  BY NewMetaFacts
<1>4. /\ Sided(metas) /\ mti_txnid \in Nat /\ Newest(metas).txnid = mti_txnid
      /\ Newest(metas) = metas[mti_txnid % 2] /\ txn.id = mti_txnid + 1
  BY <1>1, MetaFacts
<1>5. NewMeta.txnid = Newest(metas).txnid + 1
  BY <1>3, <1>4
<1>6. metas' = [metas EXCEPT ![NewMeta.txnid % 2] = NewMeta]
  BY <1>1, <1>3
<1>7. \A ns : ns = [metas EXCEPT ![NewMeta.txnid % 2] = NewMeta] =>
         /\ Sided(ns) /\ Newest(ns) = NewMeta
         /\ ns[NewMeta.txnid % 2] = NewMeta /\ ns[1 - (NewMeta.txnid % 2)] = Newest(metas)
         /\ Newest(metas) = metas[1 - (NewMeta.txnid % 2)]
  BY <1>3, <1>4, <1>5, NewestNext
<1>8. /\ Sided(metas') /\ Newest(metas') = NewMeta
      /\ metas'[NewMeta.txnid % 2] = NewMeta /\ metas'[1 - (NewMeta.txnid % 2)] = Newest(metas)
  BY <1>6, <1>7
<1>9. mti_txnid % 2 = 1 - (NewMeta.txnid % 2)
  BY <1>3, <1>4, Turns
<1>10. Newest(metas)' = NewMeta
  BY <1>8 DEF Newest
<1>11. Sided(diskMetas')
  BY <1>2, <1>4, <1>8
<1>12. \A x \in 0 .. 1 : metas'[x] \in {metas[x], NewMeta}
  BY <1>4, <1>6 DEF Sided
<1> QED
  BY <1>2, <1>4, <1>8, <1>9, <1>10, <1>11, <1>12

(* A meta page whose write fails has the txnid it had.                     *)
LEMMA MetaFailsFacts ==
    ASSUME Shape, Numbers, MetaFails
    PROVE  /\ Newest(metas)' = Newest(metas) /\ Sided(metas')
           /\ metas'[mti_txnid % 2] = metas[mti_txnid % 2]
           /\ Newest(metas).txnid = mti_txnid /\ Newest(metas) = metas[mti_txnid % 2]
           /\ \A x \in 0 .. 1 : metas'[x].txnid = metas[x].txnid
<1> DEFINE m == [NewMeta EXCEPT !.txnid = metas[Toggle].txnid, !.last = metas[Toggle].last]
<1>1. pc = "meta" /\ metas' = [metas EXCEPT ![Toggle] = m]
  BY DEF MetaFails
<1>2. /\ NewMeta \in Metas /\ NewMeta.txnid = txn.id /\ Toggle = NewMeta.txnid % 2
  BY NewMetaFacts
<1>3. /\ Sided(metas) /\ mti_txnid \in Nat /\ Newest(metas).txnid = mti_txnid
      /\ Newest(metas) = metas[mti_txnid % 2] /\ txn.id = mti_txnid + 1 /\ mti_txnid % 2 \in 0 .. 1
  BY <1>1, MetaFacts
<1>4. Toggle # Newest(metas).txnid % 2 /\ Toggle \in 0 .. 1 /\ 1 - Toggle = mti_txnid % 2
  BY <1>2, <1>3, Turns
<1>5. metas[Toggle] \in Metas
  BY <1>3, <1>4 DEF Sided
<1>6. m \in Metas /\ m.txnid = metas[Toggle].txnid
  BY <1>2, <1>5 DEF Metas
<1> HIDE DEF m
<1>7. \A ns : ns = [metas EXCEPT ![Toggle] = m] =>
         /\ Sided(ns) /\ Newest(ns) = Newest(metas) /\ ns[1 - Toggle] = metas[1 - Toggle]
         /\ ns[Toggle] = m
  BY ZenonT(60), <1>3, <1>4, <1>6, NewestFailed
<1>8. /\ Sided(metas') /\ Newest(metas') = Newest(metas)
      /\ metas'[1 - Toggle] = metas[1 - Toggle] /\ metas'[Toggle] = m
  BY <1>1, <1>7
<1>9. Newest(metas)' = Newest(metas)
  BY <1>8 DEF Newest
<1>10. \A x \in 0 .. 1 : metas'[x].txnid = metas[x].txnid
  <2>1. \A x \in 0 .. 1 : x = Toggle \/ x = 1 - Toggle
    BY <1>4
  <2> QED
    BY <1>6, <1>8, <2>1
<1> QED
  BY <1>3, <1>4, <1>8, <1>9, <1>10

(* What a power loss leaves of pages and meta pages.                       *)
LEMMA PowerLossFacts ==
    ASSUME Shape, Numbers, MetaRel, PowerLoss
    PROVE  /\ Sided(metas') /\ diskMetas' = metas'
           /\ Newest(metas)' \in {Newest(metas), Newest(diskMetas)}
           /\ Newest(diskMetas)' = Newest(metas)'
           /\ mti_txnid' = Newest(metas)'.txnid /\ mti_txnid' \in Nat
           /\ Newest(metas)' = metas'[mti_txnid' % 2]
           /\ \A x \in 0 .. 1 : metas'[x] \in {metas[x], diskMetas[x]}
           /\ file' \in [Page -> Contents] /\ disk' = file'
           /\ \A p \in Page : file'[p] \in {file[p], disk[p]}
<1>1. PICK lost \in SUBSET {p \in Page : file[p] # disk[p]},
           old \in SUBSET {m \in 0 .. 1 : metas[m] # diskMetas[m]} :
          /\ file' = [p \in Page |-> IF p \in lost THEN disk[p] ELSE file[p]]
          /\ metas' = [m \in 0 .. 1 |-> IF m \in old THEN diskMetas[m] ELSE metas[m]]
  BY DEF PowerLoss
<1>2. file \in [Page -> Contents] /\ disk \in [Page -> Contents] /\ disk' = file'
      /\ diskMetas' = metas' /\ mti_txnid' = Newest(metas').txnid
  BY DEF Shape, PowerLoss
<1>3. file' \in [Page -> Contents] /\ \A p \in Page : file'[p] \in {file[p], disk[p]}
  BY <1>1, <1>2
<1>4. Sided(metas) /\ Sided(diskMetas)
  BY MetaFacts
<1>5. metas' \in [0 .. 1 -> Metas] /\ \A x \in 0 .. 1 : metas'[x] \in {metas[x], diskMetas[x]}
  BY <1>1, <1>4 DEF Sided
<1>6. Sided(metas') /\ Newest(metas') \in {Newest(metas), Newest(diskMetas)}
  BY <1>5, DiskFacts
<1>7. Newest(metas') = metas'[Newest(metas').txnid % 2] /\ Newest(metas').txnid \in Nat
  BY <1>6, NewestFacts DEF Sided
<1>8. Newest(metas)' = Newest(metas') /\ Newest(diskMetas)' = Newest(metas')
  BY <1>2 DEF Newest
<1> QED
  BY <1>2, <1>3, <1>5, <1>6, <1>7, <1>8

-----------------------------------------------------------------------------
(* The steps.                                                              *)

(* A transaction that begins has done nothing.                             *)
LEMMA BeginFacts ==
    ASSUME Shape, Numbers, NEW flag \in BOOLEAN, Begin(flag)
    PROVE  /\ pc = "idle" /\ wmutex = "free" /\ pc' = "open" /\ wmutex' = "held" /\ begun' = begun + 1
           /\ begun' \in Ids /\ mti_txnid + 1 \in Ids
           /\ UNCHANGED <<disks, mti_txnid, fatal, writes, readers, scenario>>
           /\ Newest(metas).txnid = mti_txnid /\ Newest(metas) = metas[mti_txnid % 2]
           /\ txn' \in Txns
           /\ txn'.id = mti_txnid + 1 /\ txn'.pgoldest = txn.pgoldest
           /\ txn'.root = Newest(metas).root /\ txn'.freeRoot = Newest(metas).freeRoot
           /\ txn'.next = Newest(metas).last + 1
           /\ txn'.buf = <<>> /\ txn'.freed = {} /\ txn'.loose = <<>> /\ txn'.pghead = {}
           /\ txn'.pglast = 0 /\ txn'.dropped = 0 /\ txn'.saved = 0 /\ txn'.headId = 0
           /\ txn'.room = 0 /\ txn'.rounds = 0 /\ ~txn'.error
<1>1. /\ pc = "idle" /\ wmutex = "free" /\ pc' = "open" /\ wmutex' = "held" /\ begun' = begun + 1
      /\ begun < MaxTxns
      /\ UNCHANGED <<disks, mti_txnid, fatal, writes, readers, scenario>>
      /\ txn' = [NoTxn EXCEPT !.id = mti_txnid + 1, !.noMetaSync = flag,
                              !.pgoldest = txn.pgoldest,
                              !.root = metas[mti_txnid % 2].root,
                              !.freeRoot = metas[mti_txnid % 2].freeRoot,
                              !.next = metas[mti_txnid % 2].last + 1]
  BY DEF Begin
<1>2. Newest(metas).txnid = mti_txnid /\ Newest(metas) = metas[mti_txnid % 2]
  BY <1>1, MetaFacts
<1>3. begun' \in Ids /\ mti_txnid + 1 \in Ids
  BY SMTT(40), <1>1, MetaFacts, Bounds DEF Numbers
<1> DEFINE m == Newest(metas)
<1>4. m \in Metas
  BY MetaFacts
<1>5. m.root \in Place /\ m.freeRoot \in Place /\ m.last + 1 \in 2 .. MaxPg /\ txn.pgoldest \in Ids
  BY ZenonT(60), <1>4, PagesOfType, Bounds DEF Metas, Place, Shape, Txns
<1>6. txn' = [NoTxn EXCEPT !.id = mti_txnid + 1, !.noMetaSync = flag,
                           !.pgoldest = txn.pgoldest,
                           !.root = m.root, !.freeRoot = m.freeRoot, !.next = m.last + 1]
  BY <1>1, <1>2
<1> HIDE DEF m
<1>7. /\ txn'.id = mti_txnid + 1 /\ txn'.pgoldest = txn.pgoldest
      /\ txn'.root = m.root /\ txn'.freeRoot = m.freeRoot /\ txn'.next = m.last + 1
      /\ txn'.buf = <<>> /\ txn'.freed = {} /\ txn'.loose = <<>> /\ txn'.pghead = {}
      /\ txn'.pglast = 0 /\ txn'.dropped = 0 /\ txn'.saved = 0 /\ txn'.headId = 0
      /\ txn'.room = 0 /\ txn'.rounds = 0 /\ ~txn'.error
  BY <1>6 DEF NoTxn
<1>8. txn' = [id |-> mti_txnid + 1, noMetaSync |-> flag, root |-> m.root, freeRoot |-> m.freeRoot,
              next |-> m.last + 1, buf |-> <<>>,
              freed |-> {}, loose |-> <<>>, pghead |-> {}, pglast |-> 0, error |-> FALSE,
              dropped |-> 0, saved |-> 0, headId |-> 0, room |-> 0, more |-> 1,
              rounds |-> 0, page |-> Invalid, pgoldest |-> txn.pgoldest]
  BY ZenonT(60), <1>6 DEF NoTxn
<1>9. 0 \in Ids /\ <<>> \in Bufs /\ <<>> \in Seq(Page) /\ Invalid \in Place
  BY Bounds, EmptyMaps DEF Place
<1>10. txn' \in Txns
  BY <1>3, <1>5, <1>8, <1>9 DEF Txns
<1> QED
  BY <1>1, <1>2, <1>3, <1>7, <1>10 DEF m

(* No transaction, with the me_pgoldest of the last one or none.           *)
LEMMA NoTxnType ==
    ASSUME NEW n \in Ids
    PROVE  /\ [NoTxn EXCEPT !.pgoldest = n] \in Txns /\ NoTxn \in Txns
           /\ [NoTxn EXCEPT !.pgoldest = n].pgoldest = n /\ NoTxn.pgoldest = 0
           /\ [NoTxn EXCEPT !.pgoldest = n].rounds = 0 /\ NoTxn.rounds = 0
<1>1. 0 \in Ids /\ <<>> \in Bufs /\ <<>> \in Seq(Page) /\ Invalid \in Place /\ 2 \in 2 .. MaxPg
  BY Bounds, EmptyMaps DEF Place
<1>2. NoTxn \in Txns
  BY <1>1 DEF NoTxn, Txns
<1>3. [NoTxn EXCEPT !.pgoldest = n] \in Txns
  BY <1>2 DEF Txns
<1> QED
  BY <1>2, <1>3 DEF NoTxn

(* Where the transaction ends: nothing of it is left but me_pgoldest.      *)
LEMMA EndFacts ==
    ASSUME Shape, Numbers, txn' \in {NoTxn, [NoTxn EXCEPT !.pgoldest = txn.pgoldest]}
    PROVE  /\ txn' \in Txns /\ txn'.pgoldest \in {0, txn.pgoldest} /\ txn'.rounds = 0
           /\ txn'.pgoldest <= txn.pgoldest /\ txn'.pgoldest <= mti_txnid
<1>1. txn.pgoldest \in Ids /\ txn.pgoldest \in Nat /\ txn.pgoldest <= mti_txnid
  BY SMTT(40), Bounds DEF Shape, TypeOK, Numbers
<1>2. mti_txnid \in Nat
  BY MetaFacts
<1>3. txn' \in Txns /\ txn'.pgoldest \in {0, txn.pgoldest} /\ txn'.rounds = 0
  BY <1>1, NoTxnType
<1> QED
  BY <1>1, <1>2, <1>3

(* Every step keeps the txnids in order.                                   *)
LEMMA NumbersStep ==
    ASSUME Shape, Numbers, MetaRel, Stage, Next
    PROVE  Numbers'
<1>1. /\ Sided(metas) /\ Sided(diskMetas) /\ mti_txnid \in Nat /\ begun \in Nat /\ txn.pgoldest \in Nat
      /\ \A x \in 0 .. 1 : metas[x].txnid <= begun /\ diskMetas[x].txnid <= begun
      /\ txn \in Txns
  <2>1. Sided(metas) /\ Sided(diskMetas) /\ mti_txnid \in Nat /\ begun \in Nat
    BY MetaFacts
  <2>2. txn \in Txns /\ txn.pgoldest \in Nat
    BY Bounds DEF Shape, TypeOK
  <2>3. \A x \in 0 .. 1 : metas[x].txnid <= begun /\ diskMetas[x].txnid <= begun
    BY DEF Numbers, Numbered
  <2> QED
    BY <2>1, <2>2, <2>3
<1>2. ASSUME NEW flag \in BOOLEAN, Begin(flag) PROVE Numbers'
  <2>1. /\ pc = "idle" /\ wmutex = "free" /\ pc' = "open" /\ wmutex' = "held" /\ begun' = begun + 1
        /\ UNCHANGED <<disks, mti_txnid>>
        /\ Newest(metas).txnid = mti_txnid
        /\ txn'.id = mti_txnid + 1 /\ txn'.pgoldest = txn.pgoldest /\ txn'.pglast = 0
    BY <1>2, BeginFacts
  <2>2. mti_txnid <= begun /\ txn.pgoldest <= mti_txnid /\ metas[mti_txnid % 2].txnid = mti_txnid
    BY DEF Numbers
  <2>3. \A x \in 0 .. 1 : metas[x].txnid \in Nat /\ diskMetas[x].txnid \in Nat
    BY SMTT(40), <1>1, Bounds DEF Sided, Metas
  <2>4. \A x \in 0 .. 1 : (Numbered(metas[x], x) /\ Numbered(diskMetas[x], x))'
    <3> TAKE x \in 0 .. 1
    <3>1. metas[x].txnid <= begun + 1 /\ diskMetas[x].txnid <= begun + 1
      BY <1>1, <2>3
    <3>2. Numbered(metas[x], x) /\ Numbered(diskMetas[x], x)
      BY DEF Numbers
    <3> QED
      BY <2>1, <3>1, <3>2 DEF Numbered, disks
  <2>5. (Newest(metas).txnid = mti_txnid)'
    BY <2>1 DEF Newest, disks
  <2> QED
    BY <1>1, <2>1, <2>2, <2>4, <2>5 DEF Numbers, disks
<1>3. ASSUME UNCHANGED <<metas, diskMetas, mti_txnid, wmutex, begun>>,
             pc # "idle", pc # "publish", pc' \notin {"idle", "publish"},
             txn'.id = txn.id, txn'.pglast < txn'.id, txn'.pgoldest <= mti_txnid
      PROVE  Numbers'
  BY <1>3 DEF Numbers, Numbered, Newest
<1>4. CASE Works
  <2>1. /\ pc \in {"open", "save"} /\ pc' \in {"open", "save"} /\ Proceeds(txn, txn')
        /\ UNCHANGED <<metas, diskMetas, mti_txnid, wmutex, begun>>
    BY <1>4 DEF Works, Working, disks, locks
  <2>2. Begun(txn') /\ txn'.id = txn.id
    BY <2>1 DEF Proceeds
  <2>3. txn'.pglast < txn'.id /\ txn'.pgoldest < txn'.id /\ txn'.pgoldest \in Nat
    BY <2>2, BegunFacts
  <2>4. txn'.pgoldest <= mti_txnid
    BY <1>1, <2>1, <2>2, <2>3 DEF Numbers
  <2> QED
    BY <1>3, <2>1, <2>2, <2>3, <2>4
<1>5. CASE Spoils
  <2>1. /\ pc = "open" /\ pc' = "open" /\ Begun(txn') /\ txn'.id = txn.id
        /\ UNCHANGED <<metas, diskMetas, mti_txnid, wmutex, begun>>
    BY <1>5 DEF Spoils, disks, locks
  <2>2. txn'.pglast < txn'.id /\ txn'.pgoldest < txn'.id /\ txn'.pgoldest \in Nat
    BY <2>1, BegunFacts
  <2>3. txn'.pgoldest <= mti_txnid
    BY SMTT(40), <1>1, <2>1, <2>2 DEF Numbers
  <2> QED
    BY <1>3, <2>1, <2>2, <2>3
<1>6. ASSUME UNCHANGED <<metas, diskMetas, mti_txnid, begun>>, pc # "idle", pc' = "idle",
             txn' \in {NoTxn, [NoTxn EXCEPT !.pgoldest = txn.pgoldest]},
             wmutex' = "dead" \/ (wmutex' = "free" /\ pc # "publish")
      PROVE  Numbers'
  <2>1. txn'.pgoldest <= mti_txnid
    BY <1>6, EndFacts
  <2> QED
    BY ZenonT(60), <1>6, <2>1, MetaFacts DEF Numbers, Numbered, Newest
<1>7. CASE Ends
  BY <1>6, <1>7 DEF Ends, disks
<1>8. CASE Fills
  <2>1. /\ pc = "save" /\ pc' = "flush" /\ txn'.id = txn.id /\ txn'.pglast = txn.pglast
        /\ txn'.pgoldest = txn.pgoldest
        /\ UNCHANGED <<metas, diskMetas, mti_txnid, wmutex, begun>>
    BY <1>8 DEF Fills, disks, locks
  <2> QED
    BY <1>3, <2>1 DEF Numbers
<1>9. CASE Flush
  BY <1>3, <1>9 DEF Flush, locks, Numbers
<1>10. CASE FlushFails
  BY <1>6, <1>10 DEF FlushFails, EndTxn
<1>11. CASE Sync
  BY <1>11 DEF Sync, locks, Numbers, Numbered, Newest
<1>12. CASE WriteMeta
  <2>1. /\ pc = "meta" /\ pc' = "publish" /\ UNCHANGED <<mti_txnid, wmutex, txn, begun>>
    BY <1>12 DEF WriteMeta, locks
  <2>2. /\ Newest(metas)' = NewMeta /\ Sided(metas') /\ Sided(diskMetas')
        /\ metas'[mti_txnid % 2] = metas[mti_txnid % 2]
        /\ \A x \in 0 .. 1 : metas'[x] \in {metas[x], NewMeta} /\ diskMetas'[x] \in {metas[x], NewMeta}
    BY <1>12, WriteMetaFacts
  <2>3. NewMeta.txnid = mti_txnid + 1 /\ NewMeta.txnid <= begun
    BY <2>1, NewMetaFacts DEF Numbers
  <2>4. \A x \in 0 .. 1 : (Numbered(metas[x], x) /\ Numbered(diskMetas[x], x))'
    <3> TAKE x \in 0 .. 1
    <3>1. metas'[x].txnid <= begun /\ diskMetas'[x].txnid <= begun
      BY <1>1, <2>2, <2>3
    <3> QED
      BY <2>1, <2>2, <3>1 DEF Sided, Numbered
  <2> QED
    BY <2>1, <2>2, <2>3, <2>4 DEF Numbers
<1>13. CASE MetaFails
  <2>1. /\ pc = "meta" /\ pc' = "idle" /\ UNCHANGED <<mti_txnid, diskMetas, begun>> /\ wmutex' = "free"
        /\ txn' \in {NoTxn, [NoTxn EXCEPT !.pgoldest = txn.pgoldest]}
    BY <1>13 DEF MetaFails, EndTxn
  <2>2. /\ Newest(metas)' = Newest(metas) /\ Sided(metas')
        /\ metas'[mti_txnid % 2] = metas[mti_txnid % 2]
        /\ Newest(metas).txnid = mti_txnid
        /\ \A x \in 0 .. 1 : metas'[x].txnid = metas[x].txnid
    BY <1>13, MetaFailsFacts
  <2>3. txn'.pgoldest <= mti_txnid
    BY <2>1, EndFacts
  <2>4. \A x \in 0 .. 1 : (Numbered(metas[x], x) /\ Numbered(diskMetas[x], x))'
    BY <2>1, <2>2 DEF Numbered, Numbers
  <2> QED
    BY <2>1, <2>2, <2>3, <2>4 DEF Numbers
<1>14. CASE Publish
  <2>1. /\ pc = "publish" /\ pc' = "idle" /\ mti_txnid' = txn.id /\ wmutex' = "free"
        /\ UNCHANGED <<disks, begun>>
        /\ txn' \in {NoTxn, [NoTxn EXCEPT !.pgoldest = txn.pgoldest]}
    BY <1>14 DEF Publish, EndTxn
  <2>2. txn'.pgoldest <= mti_txnid
    BY <2>1, EndFacts
  <2>3. txn.id = mti_txnid + 1 /\ txn.id <= begun /\ Newest(metas).txnid = txn.id
    BY <2>1 DEF Numbers
  <2>4. metas[txn.id % 2].txnid = txn.id
    BY <2>3, MetaFacts
  <2>5. \A x \in 0 .. 1 : (Numbered(metas[x], x) /\ Numbered(diskMetas[x], x))'
    BY <2>1 DEF Numbered, Numbers, disks
  <2>6. Newest(metas)' = Newest(metas)
    BY <2>1 DEF Newest, disks
  <2>7. txn'.pgoldest <= txn.id
    <3>1. txn'.pgoldest \in {0, txn.pgoldest}
      BY <2>1, EndFacts
    <3>2. txn.pgoldest \in Nat /\ txn.pgoldest <= mti_txnid
      BY <1>1 DEF Numbers
    <3> QED
      BY SMTT(40), <1>1, <2>3, <3>1, <3>2
  <2> QED
    BY <2>1, <2>3, <2>4, <2>5, <2>6, <2>7 DEF Numbers, disks
<1>15. CASE RecoverMutex
  <2>1. /\ wmutex = "dead" /\ wmutex' = "free" /\ mti_txnid' = Newest(metas).txnid
        /\ UNCHANGED <<disks, pc, txn, begun>>
    BY <1>15 DEF RecoverMutex
  <2>2. pc = "idle" /\ mti_txnid' \in {mti_txnid, mti_txnid + 1}
    BY <2>1 DEF Numbers
  <2>3. metas[mti_txnid' % 2].txnid = mti_txnid'
    BY <2>1, MetaFacts
  <2>4. mti_txnid' <= begun
    BY <1>1, <2>1, MetaFacts
  <2>5. Newest(metas)' = Newest(metas)
    BY <2>1 DEF Newest, disks
  <2>6. txn.pgoldest <= mti_txnid'
    BY <1>1, <2>2 DEF Numbers
  <2>7. \A x \in 0 .. 1 : (Numbered(metas[x], x) /\ Numbered(diskMetas[x], x))'
    BY <2>1 DEF Numbered, Numbers, disks
  <2> QED
    BY <2>1, <2>2, <2>3, <2>4, <2>5, <2>6, <2>7 DEF Numbers, disks
<1>16. CASE Reopen \/ Reads
  <2>1. UNCHANGED <<disks, mti_txnid, wmutex, pc, txn, begun>>
    BY SMTT(40), <1>16 DEF Reopen, Reads, locks
  <2> QED
    BY <2>1 DEF Numbers, Numbered, Newest, disks
<1>17. CASE PowerLoss
  <2>1. wmutex' = "free" /\ pc' = "idle" /\ txn' = NoTxn /\ begun' = begun
    BY <1>17 DEF PowerLoss
  <2>2. /\ Sided(metas') /\ diskMetas' = metas'
        /\ mti_txnid' = Newest(metas)'.txnid /\ mti_txnid' \in Nat
        /\ Newest(metas)' = metas'[mti_txnid' % 2]
        /\ \A x \in 0 .. 1 : metas'[x] \in {metas[x], diskMetas[x]}
    BY <1>17, PowerLossFacts
  <2>3. \A x \in 0 .. 1 : metas'[x].txnid <= begun
    BY <1>1, <2>2
  <2>4. \A x \in 0 .. 1 : (Numbered(metas[x], x) /\ Numbered(diskMetas[x], x))'
    BY <2>1, <2>2, <2>3 DEF Numbered, Sided
  <2>5. mti_txnid' <= begun
    BY <2>2, <2>3, Turns
  <2>6. txn'.pgoldest = 0
    BY <2>1 DEF NoTxn
  <2>7. /\ metas'[mti_txnid' % 2].txnid = mti_txnid' /\ Newest(metas)'.txnid = mti_txnid'
        /\ txn'.pgoldest <= mti_txnid'
    BY <2>2, <2>6
  <2> QED
    BY ZenonT(60), <2>1, <2>4, <2>5, <2>7 DEF Numbers
<1> QED
  BY <1>2, <1>4, <1>5, <1>7, <1>8, <1>9, <1>10, <1>11, <1>12, <1>13, <1>14, <1>15, <1>16, <1>17, Kinds

(* Pages written to the file.                                              *)
LEMMA WriteFacts ==
    ASSUME Shape, NEW ps \in SUBSET DOMAIN txn.buf
    PROVE  /\ Write(file, ps) \in [Page -> Contents]
           /\ \A p \in Page : p \notin DOMAIN txn.buf => Write(file, ps)[p] = file[p]
           /\ Write(file, DOMAIN txn.buf) = Image(txn)
<1>1. txn.buf \in Bufs
  BY DEF Shape, Txns
<1>2. \A p \in DOMAIN txn.buf : p \in Page /\ txn.buf[p] \in Contents
  BY <1>1 DEF Bufs
<1>3. file \in [Page -> Contents]
  BY DEF Shape
<1> QED
  BY <1>2, <1>3 DEF Write, Image, At

(* What a transaction's type says of the types the runs check.             *)
LEMMA TxnTyped ==
    ASSUME NEW t \in Txns
    PROVE  /\ t.pgoldest \in Ids /\ t.id \in 0 .. MaxTxns + 1 /\ DOMAIN t.buf \subseteq Page
           /\ t.freed \subseteq Page /\ ToSet(t.loose) \subseteq Page /\ t.pghead \subseteq Page
<1>1. /\ t.pgoldest \in Ids /\ t.id \in Ids /\ t.buf \in Bufs /\ t.freed \in SUBSET Page
      /\ t.loose \in Seq(Page) /\ t.pghead \in SUBSET Page
  BY DEF Txns
<1>2. t.id \in 0 .. MaxTxns + 1
  BY <1>1, Bounds
<1>3. DOMAIN t.buf \subseteq Page
  BY <1>1 DEF Bufs
<1>4. ToSet(t.loose) \subseteq Page
  BY <1>1 DEF ToSet
<1> QED
  BY <1>1, <1>2, <1>3, <1>4

(* A fresh environment has the types, and its txnids are 0.                *)
LEMMA InitShape == Init => Shape /\ Numbers
<1> SUFFICES ASSUME Init PROVE Shape /\ Numbers
  OBVIOUS
<1>1. Blank \in Contents /\ 0 \in Ids /\ Invalid = 0 /\ 1 \in 1 .. MaxPg - 1
  BY BlankType, Bounds
<1>2. file \in [Page -> Contents] /\ disk \in [Page -> Contents]
  BY <1>1 DEF Init
<1>3. \A m : m = [txnid |-> 0, root |-> Invalid, freeRoot |-> Invalid, last |-> 1] =>
         m \in Metas /\ m.txnid = 0
  BY <1>1 DEF Metas
<1>4. \A x \in 0 .. 1 : metas[x] \in Metas /\ metas[x].txnid = 0
  BY <1>3 DEF Init
<1>5. metas \in [0 .. 1 -> Metas] /\ diskMetas = metas
  BY <1>4 DEF Init
<1>6. txn \in Txns /\ txn.pgoldest = 0
  BY <1>1, NoTxnType DEF Init
<1>7. TypeOK
  <2>1. /\ mti_txnid \in Ids /\ wmutex \in {"free", "held", "dead"} /\ fatal \in BOOLEAN
        /\ pc \in {"idle", "open", "save", "flush", "sync", "meta", "publish"}
        /\ rpc \in [Reader -> {"out", "load", "store", "check", "copy", "in"}]
        /\ slot \in [Reader -> Ids \cup {NoSlot}]
        /\ rroot \in [Reader -> Page \cup {Invalid}]
    BY <1>1 DEF Init
  <2> QED
    BY <1>5, <1>6, <2>1, TxnTyped DEF TypeOK
<1>8. Shape
  <2>1. begun \in Ids /\ writes \in 0 .. MaxWrites /\ rload \in [Reader -> Ids] /\ scenario \in Scenarios
    BY <1>1, Bounds DEF Init
  <2> QED
    BY <1>2, <1>6, <1>7, <2>1 DEF Shape
<1>9. Newest(metas).txnid = 0
  BY <1>4 DEF Newest
<1>10. Numbers
  <2>1. wmutex = "free" /\ pc = "idle" /\ mti_txnid = 0 /\ begun = 0
    BY DEF Init
  <2>2. 0 % 2 \in 0 .. 1
    BY Turns
  <2>3. \A x \in 0 .. 1 : Numbered(metas[x], x) /\ Numbered(diskMetas[x], x)
    BY <1>4, <1>5, <2>1 DEF Numbered
  <2>4. metas[mti_txnid % 2].txnid = mti_txnid /\ txn.pgoldest <= mti_txnid /\ mti_txnid <= begun
    BY <1>4, <1>6, <2>1, <2>2
  <2> QED
    BY <1>9, <2>1, <2>3, <2>4 DEF Numbers
<1> QED
  BY <1>8, <1>10

(* Every step keeps the types.                                             *)
LEMMA ShapeStep ==
    ASSUME Shape, Numbers, MetaRel, Stage, Next
    PROVE  Shape'
<1>0. /\ txn \in Txns /\ file \in [Page -> Contents] /\ disk \in [Page -> Contents]
      /\ metas \in [0 .. 1 -> Metas] /\ diskMetas \in [0 .. 1 -> Metas]
      /\ mti_txnid \in Ids /\ wmutex \in {"free", "held", "dead"} /\ fatal \in BOOLEAN
      /\ pc \in {"idle", "open", "save", "flush", "sync", "meta", "publish"}
      /\ begun \in Ids /\ writes \in 0 .. MaxWrites /\ scenario \in Scenarios
      /\ txn.pgoldest \in Ids /\ txn.id \in Ids
  BY SMTT(40) DEF Shape, TypeOK, Txns
<1>1. txn' \in Txns
  <2>1. ASSUME NEW flag \in BOOLEAN, Begin(flag) PROVE txn' \in Txns
    BY <2>1, BeginFacts
  <2>2. CASE Works \/ Spoils
    BY <2>2 DEF Works, Spoils, Proceeds, Begun
  <2>3. CASE Ends \/ FlushFails \/ MetaFails \/ Publish \/ PowerLoss
    <3>1. txn' \in {NoTxn, [NoTxn EXCEPT !.pgoldest = txn.pgoldest]}
      BY <2>3 DEF Ends, FlushFails, MetaFails, Publish, PowerLoss, EndTxn
    <3> QED
      BY <3>1, EndFacts
  <2>4. CASE Fills
    BY <2>4 DEF Fills
  <2>5. CASE Flush \/ Sync \/ WriteMeta \/ RecoverMutex \/ Reopen \/ Reads
    BY <1>0, <2>5 DEF Flush, Sync, WriteMeta, RecoverMutex, Reopen, Reads
  <2> QED
    BY <2>1, <2>2, <2>3, <2>4, <2>5, Kinds
<1>2. file' \in [Page -> Contents] /\ disk' \in [Page -> Contents]
  <2>1. CASE Flush \/ FlushFails
    <3>1. PICK ps \in SUBSET DOMAIN txn.buf : file' = Write(file, ps) /\ disk' = disk
      BY <2>1 DEF Flush, FlushFails
    <3> QED
      BY <1>0, <3>1, WriteFacts
  <2>2. CASE PowerLoss
    BY <2>2, PowerLossFacts
  <2>3. CASE Sync \/ WriteMeta \/ MetaFails
    BY SMTT(40), <1>0, <2>3 DEF Sync, WriteMeta, MetaFails
  <2>4. CASE \/ \E flag \in BOOLEAN : Begin(flag)
             \/ Works \/ Spoils \/ Ends \/ Fills \/ Publish \/ RecoverMutex \/ Reopen \/ Reads
    BY ZenonT(60), <1>0, <2>4 DEF Begin, Works, Spoils, Ends, Fills, Publish, RecoverMutex, Reopen, Reads, disks
  <2> QED
    BY <2>1, <2>2, <2>3, <2>4, Kinds
<1>3. metas' \in [0 .. 1 -> Metas] /\ diskMetas' \in [0 .. 1 -> Metas]
  <2>1. CASE WriteMeta
    BY <1>0, <2>1, WriteMetaFacts DEF Sided
  <2>2. CASE MetaFails
    <3>1. diskMetas' = diskMetas
      BY <2>2 DEF MetaFails
    <3> QED
      BY <1>0, <2>2, <3>1, MetaFailsFacts DEF Sided
  <2>3. CASE PowerLoss
    BY <2>3, PowerLossFacts DEF Sided
  <2>4. CASE Flush \/ FlushFails \/ Sync
    BY SMTT(40), <1>0, <2>4 DEF Flush, FlushFails, Sync
  <2>5. CASE \/ \E flag \in BOOLEAN : Begin(flag)
             \/ Works \/ Spoils \/ Ends \/ Fills \/ Publish \/ RecoverMutex \/ Reopen \/ Reads
    BY ZenonT(60), <1>0, <2>5 DEF Begin, Works, Spoils, Ends, Fills, Publish, RecoverMutex, Reopen, Reads, disks
  <2> QED
    BY SMTT(40), <2>1, <2>2, <2>3, <2>4, <2>5, Kinds
<1>4. mti_txnid' \in Ids
  <2>1. CASE Publish
    BY <1>0, <2>1 DEF Publish
  <2>2. CASE RecoverMutex
    BY <2>2, MetaFacts DEF RecoverMutex, Metas
  <2>3. CASE PowerLoss
    <3>1. mti_txnid' = Newest(metas)'.txnid /\ Newest(metas)' \in {Newest(metas), Newest(diskMetas)}
      BY SMTT(40), <2>3, PowerLossFacts
    <3> QED
      BY <3>1, MetaFacts DEF Metas
  <2>4. CASE \/ \E flag \in BOOLEAN : Begin(flag)
             \/ Works \/ Spoils \/ Ends \/ Fills \/ Flush \/ FlushFails \/ Sync
             \/ WriteMeta \/ MetaFails \/ Reopen \/ Reads
    BY ZenonT(60), <1>0, <2>4 DEF Begin, Works, Spoils, Ends, Fills, Flush, FlushFails, Sync, WriteMeta, MetaFails,
                      Reopen, Reads, locks
  <2> QED
    BY <2>1, <2>2, <2>3, <2>4, Kinds
<1>5. begun' \in Ids /\ writes' \in 0 .. MaxWrites /\ scenario' \in Scenarios
  <2>1. ASSUME NEW flag \in BOOLEAN, Begin(flag) PROVE begun' \in Ids /\ writes' = writes /\ scenario' = scenario
    BY <2>1, BeginFacts
  <2>2. CASE Works
    BY <1>0, <2>2 DEF Works
  <2>3. CASE \/ Spoils \/ Ends \/ Fills \/ Flush \/ FlushFails \/ Sync \/ PowerLoss \/ RecoverMutex
             \/ WriteMeta \/ MetaFails \/ Publish \/ Reopen \/ Reads
    BY <1>0, <2>3 DEF Spoils, Ends, Fills, Flush, FlushFails, Sync, WriteMeta, MetaFails, RecoverMutex,
                      PowerLoss, Publish, Reopen, Reads
  <2> QED
    BY <1>0, <2>1, <2>2, <2>3, Kinds
<1>6. /\ wmutex' \in {"free", "held", "dead"} /\ fatal' \in BOOLEAN
      /\ pc' \in {"idle", "open", "save", "flush", "sync", "meta", "publish"}
  <2>1. ASSUME NEW flag \in BOOLEAN, Begin(flag) PROVE wmutex' = "held" /\ pc' = "open" /\ fatal' = fatal
    BY <2>1, BeginFacts
  <2>2. CASE Works \/ Spoils \/ Fills \/ Flush \/ Sync \/ WriteMeta \/ Reads
    BY <1>0, <2>2 DEF Works, Spoils, Fills, Flush, Sync, WriteMeta, Reads, locks
  <2>3. CASE Ends \/ FlushFails \/ MetaFails \/ Publish \/ PowerLoss \/ RecoverMutex \/ Reopen
    BY <1>0, <2>3 DEF Ends, FlushFails, MetaFails, Publish, PowerLoss, RecoverMutex, Reopen, EndTxn
  <2> QED
    BY <1>0, <2>1, <2>2, <2>3, Kinds
<1>7. /\ rpc' \in [Reader -> {"out", "load", "store", "check", "copy", "in"}]
      /\ slot' \in [Reader -> Ids \cup {NoSlot}]
      /\ rroot' \in [Reader -> Page \cup {Invalid}]
      /\ rload' \in [Reader -> Ids]
  <2>0. /\ rpc \in [Reader -> {"out", "load", "store", "check", "copy", "in"}]
        /\ slot \in [Reader -> Ids \cup {NoSlot}]
        /\ rroot \in [Reader -> Page \cup {Invalid}]
        /\ rload \in [Reader -> Ids]
    BY DEF Shape, TypeOK
  <2>1. ASSUME NEW r \in Reader, ReaderNext(r) PROVE <1>7!1 /\ <1>7!2 /\ <1>7!3 /\ <1>7!4
    <3>1. CASE BeginRead(r) \/ EndRead(r)
      BY <2>0, <3>1 DEF BeginRead, EndRead
    <3>2. CASE LoadTxnid(r)
      BY <1>0, <2>0, <3>2 DEF LoadTxnid
    <3>3. CASE StoreSlot(r) \/ CheckTxnid(r)
      BY <2>0, <3>3 DEF StoreSlot, CheckTxnid
    <3>4. CASE CopyMeta(r)
      <4>1. slot[r] \in Int
        BY <2>0, Bounds DEF NoSlot
      <4>2. slot[r] % 2 \in 0 .. 1
        BY <4>1
      <4>3. metas[slot[r] % 2].root \in Page \cup {Invalid}
        BY <1>0, <4>2 DEF Metas
      <4> QED
        BY <2>0, <3>4, <4>3 DEF CopyMeta
    <3> QED
      BY <2>1, <3>1, <3>2, <3>3, <3>4 DEF ReaderNext
  <2>2. CASE Reads
    BY <2>1, <2>2 DEF Reads
  <2>3. CASE PowerLoss
    BY <2>0, <2>3 DEF PowerLoss
  <2>4. CASE WriteMeta
    BY SMTT(40), <2>0, <2>4 DEF WriteMeta
  <2>5. CASE \/ \E flag \in BOOLEAN : Begin(flag)
             \/ Works \/ Spoils \/ Ends \/ Fills \/ Flush \/ FlushFails \/ Sync
             \/ MetaFails \/ Publish \/ RecoverMutex \/ Reopen
    BY ZenonT(60), <2>0, <2>5 DEF Begin, Works, Spoils, Ends, Fills, Flush, FlushFails, Sync, MetaFails,
                      Publish, RecoverMutex, Reopen, readers
  <2> QED
    BY <2>2, <2>3, <2>4, <2>5, Kinds
<1>8. TypeOK'
  <2>1. /\ (txn.pgoldest \in Ids /\ txn.id \in 0 .. MaxTxns + 1 /\ DOMAIN txn.buf \subseteq Page)'
        /\ (txn.freed \subseteq Page /\ ToSet(txn.loose) \subseteq Page /\ txn.pghead \subseteq Page)'
    BY <1>1, TxnTyped
  <2> QED
    BY SMTT(40), <1>3, <1>4, <1>6, <1>7, <2>1 DEF TypeOK
<1> QED
  BY <1>1, <1>2, <1>5, <1>7, <1>8 DEF Shape

(* Every step keeps the disk's meta pages no more than one behind.         *)
LEMMA MetaRelStep ==
    ASSUME Shape, Numbers, MetaRel, Stage, Next
    PROVE  MetaRel'
<1>1. /\ Sided(metas) /\ Sided(diskMetas) /\ Newest(metas) = metas[Newest(metas).txnid % 2]
      /\ Newest(metas).txnid \in Nat
      /\ \A x \in 0 .. 1 : metas[x].txnid <= Newest(metas).txnid
  BY MetaFacts, NewestFacts DEF Sided
<1>2. CASE Sync
  <2>1. diskMetas' = metas /\ metas' = metas
    BY <1>2 DEF Sync
  <2>2. Newest(metas)' = Newest(metas)
    BY <2>1 DEF Newest
  <2>3. 1 - (Newest(metas).txnid % 2) \in 0 .. 1
    BY <1>1, Turns
  <2> QED
    BY <1>1, <2>1, <2>2, <2>3 DEF MetaRel
<1>3. CASE WriteMeta
  <2> DEFINE x == NewMeta.txnid % 2
  <2>1. /\ Newest(metas)' = NewMeta
        /\ metas'[x] = NewMeta /\ metas'[1 - x] = Newest(metas)
        /\ diskMetas = metas /\ (diskMetas' = diskMetas \/ diskMetas' = metas')
        /\ Newest(metas).txnid = mti_txnid /\ Newest(metas) = metas[mti_txnid % 2]
    BY <1>3, WriteMetaFacts
  <2>2. NewMeta.txnid = mti_txnid + 1 /\ mti_txnid \in Nat
    BY <1>3, NewMetaFacts, MetaFacts DEF WriteMeta
  <2>3. x \in 0 .. 1 /\ mti_txnid % 2 = 1 - x
    BY <2>2, Turns
  <2> HIDE DEF x
  <2>4. CASE diskMetas' = metas'
    <3>1. diskMetas'[x] = metas'[x] /\ diskMetas'[1 - x].txnid <= metas'[x].txnid
      BY <2>1, <2>2, <2>4
    <3> QED
      BY <2>1, <3>1 DEF MetaRel, x
  <2>5. CASE diskMetas' = metas
    <3>1. diskMetas'[1 - x] = metas'[1 - x]
      BY <2>1, <2>3, <2>5
    <3>2. metas'[1 - x].txnid = metas'[x].txnid - 1
      BY <2>1, <2>2
    <3>3. diskMetas'[x].txnid <= metas'[1 - x].txnid
      BY <1>1, <2>1, <2>3, <2>5
    <3> QED
      BY <2>1, <3>1, <3>2, <3>3 DEF MetaRel, x
  <2> QED
    BY <2>1, <2>4, <2>5
<1>4. CASE MetaFails
  <2>1. /\ diskMetas' = diskMetas /\ diskMetas = metas
    BY <1>4 DEF MetaFails, Stage
  <2>2. /\ Newest(metas)' = Newest(metas)
        /\ metas'[mti_txnid % 2] = metas[mti_txnid % 2]
        /\ Newest(metas).txnid = mti_txnid /\ Newest(metas) = metas[mti_txnid % 2]
    BY <1>4, MetaFailsFacts
  <2>3. 1 - (mti_txnid % 2) \in 0 .. 1 /\ mti_txnid % 2 \in 0 .. 1
    BY MetaFacts
  <2>4. /\ diskMetas'[mti_txnid % 2] = metas'[mti_txnid % 2]
        /\ diskMetas'[1 - (mti_txnid % 2)].txnid <= metas'[mti_txnid % 2].txnid
    BY <1>1, <2>1, <2>2, <2>3
  <2>5. Newest(metas)'.txnid % 2 = mti_txnid % 2
    BY <2>2
  <2> QED
    BY <2>4, <2>5 DEF MetaRel
<1>5. CASE PowerLoss
  <2>1. Sided(metas') /\ diskMetas' = metas' /\ Newest(metas)' = Newest(metas')
    BY <1>5, PowerLossFacts DEF Newest
  <2> DEFINE n == Newest(metas').txnid
  <2>2. Newest(metas') = metas'[n % 2] /\ n \in Nat /\ \A x \in 0 .. 1 : metas'[x].txnid <= n
    BY <2>1, NewestFacts DEF Sided
  <2>3. 1 - (n % 2) \in 0 .. 1
    <3> HIDE DEF n
    <3> QED
      BY SMTT(40), <2>2, Turns
  <2> QED
    BY <2>1, <2>2, <2>3 DEF MetaRel
<1>6. CASE \/ \E flag \in BOOLEAN : Begin(flag)
           \/ Works \/ Spoils \/ Ends \/ Fills \/ Publish \/ RecoverMutex \/ Reopen \/ Reads
           \/ Flush \/ FlushFails
  <2>1. metas' = metas /\ diskMetas' = diskMetas
    BY ZenonT(60), <1>6 DEF Begin, Works, Spoils, Ends, Fills, Publish, RecoverMutex, Reopen, Reads, disks,
                Flush, FlushFails
  <2> QED
    BY ZenonT(60), <2>1 DEF MetaRel, Newest
<1> QED
  BY SMTT(40), <1>2, <1>3, <1>4, <1>5, <1>6, Kinds

(* What a transaction sees, where the file stays as it is.                 *)
LEMMA SameFile ==
    ASSUME file' = file
    PROVE  /\ Image(txn)' = Image(txn') /\ Records(txn)' = Records(txn')
           /\ SaveOk(txn)' <=> SaveOk(txn')
           /\ OpenOk(txn)' <=> OpenOk(txn')
           /\ Fresh(txn)' <=> Fresh(txn')
<1>1. Image(txn)' = Image(txn')
  BY DEF Image, At
<1>2. Records(txn)' = Records(txn')
  BY DEF Records, At
<1>3. Fresh(txn)' <=> Fresh(txn')
  BY DEF Fresh
<1>4. OpenOk(txn)' <=> OpenOk(txn')
  BY <1>2 DEF OpenOk
<1>5. SaveOk(txn)' <=> SaveOk(txn')
  BY <1>2 DEF SaveOk, Phase, Dropping, LeftOver
<1> QED
  BY <1>1, <1>2, <1>3, <1>4, <1>5

(* Every step leaves the transaction what the next stage needs.            *)
LEMMA StageStep ==
    ASSUME Inv, Next
    PROVE  Stage'
<1>0. Shape /\ Numbers /\ MetaRel /\ Stage /\ Kept(Newest(metas))
  BY DEF Inv
<1>1. ASSUME NEW flag \in BOOLEAN, Begin(flag) PROVE Stage'
  <2> DEFINE m == Newest(metas)
  <2>1. /\ pc' = "open" /\ file' = file
        /\ m.txnid = mti_txnid
        /\ txn' \in Txns
        /\ txn'.id = mti_txnid + 1
        /\ txn'.root = m.root /\ txn'.freeRoot = m.freeRoot
        /\ txn'.next = m.last + 1
        /\ txn'.buf = <<>> /\ txn'.freed = {} /\ txn'.loose = <<>> /\ txn'.pghead = {}
        /\ txn'.pglast = 0 /\ txn'.dropped = 0 /\ txn'.saved = 0 /\ txn'.headId = 0
        /\ txn'.room = 0 /\ txn'.rounds = 0 /\ ~txn'.error
    BY <1>0, <1>1, BeginFacts DEF disks
  <2>2. Whole(file, m) /\ m \in Metas /\ file \in [Page -> Contents]
    BY <1>0, MetaFacts DEF Kept, Shape
  <2> HIDE DEF m
  <2>3. Image(txn)' = file
    BY <2>1, <2>2, EmptyMaps DEF Image, At
  <2>4. Records(txn') = RecordsIn(file, m.freeRoot)
    BY <2>1, EmptyMaps DEF Records, RecordsIn, At
  <2>5. mti_txnid \in Nat
    BY <1>0, MetaFacts
  <2>6. Dated(Records(txn'), txn'.id - 1)
    <3>0. txn'.id = mti_txnid + 1 /\ m.txnid = mti_txnid
      BY <2>1
    <3>1. txn'.id - 1 = m.txnid
      BY <2>5, <3>0
    <3>2. Dated(RecordsIn(file, m.freeRoot), m.txnid)
      BY <2>2 DEF Whole
    <3> QED
      BY <2>4, <3>1, <3>2
  <2>7. Once(file, txn') /\ Missing(file, txn') = {}
    BY <2>1, <2>2, AsOpening DEF Whole
  <2>8. Fresh(txn') /\ OpenOk(txn')
    BY <2>1 DEF Fresh, OpenOk
  <2> QED
    BY <2>1, <2>3, <2>6, <2>7, <2>8, SameFile DEF Stage, Working, Written
<1>2. CASE Works
  <2>1. /\ file' = file /\ pc' \in {"open", "save"} /\ Proceeds(txn, txn') /\ txn'.rounds <= 2
        /\ pc' = "open" => Fresh(txn') /\ OpenOk(txn') /\ Dated(Records(txn'), txn'.id - 1)
        /\ pc' = "save" => SaveOk(txn') /\ Dated(Records(txn'), txn'.id)
        /\ Working
    BY <1>2 DEF Works, disks
  <2>2. Once(Image(txn'), txn') /\ ~txn'.error
    BY <2>1 DEF Proceeds, Working
  <2>3. Missing(Image(txn'), txn') = {}
    BY <1>0, <2>1 DEF Proceeds, LosesNone, Stage
  <2> QED
    BY <2>1, <2>2, <2>3, SameFile DEF Stage, Working, Written
<1>3. CASE Spoils
  BY <1>0, <1>3 DEF Spoils, Stage, Working, Written
<1>4. CASE Ends \/ FlushFails \/ MetaFails \/ Publish \/ PowerLoss
  <2>1. pc' = "idle" /\ txn' \in {NoTxn, [NoTxn EXCEPT !.pgoldest = txn.pgoldest]}
    BY <1>4 DEF Ends, FlushFails, MetaFails, Publish, PowerLoss, EndTxn
  <2>2. txn'.rounds = 0
    BY <1>0, <2>1, EndFacts
  <2> QED
    BY <2>1, <2>2 DEF Stage, Working, Written
<1>5. CASE Fills
  BY <1>5, SameFile DEF Fills, Stage, Working, Written, disks
<1>6. CASE Flush
  <2>1. pc = "flush" /\ pc' = "sync" /\ file' = Image(txn) /\ txn' = txn
    BY <1>0, <1>6, WriteFacts DEF Flush
  <2>2. Image(txn)' = Image(txn)
    BY <2>1 DEF Image, At
  <2> QED
    BY <1>0, <2>1, <2>2 DEF Stage, Working, Written
<1>7. CASE Sync
  <2>1. /\ pc = "sync" /\ pc' = "meta" /\ file' = file /\ txn' = txn /\ disk' = file
        /\ metas' = metas /\ diskMetas' = metas
    BY <1>7 DEF Sync
  <2>2. Image(txn)' = Image(txn)
    BY <2>1 DEF Image, At
  <2> QED
    BY <1>0, <2>1, <2>2 DEF Stage, Working, Written
<1>8. CASE WriteMeta
  BY <1>0, <1>8 DEF WriteMeta, Stage, Working, Written
<1>9. CASE RecoverMutex \/ Reopen \/ Reads
  <2>1. UNCHANGED <<disks, pc, txn>>
    BY <1>9 DEF RecoverMutex, Reopen, Reads
  <2> QED
    BY <1>0, <2>1, SameFile DEF Stage, Working, Written, disks
<1> QED
  BY SMTT(40), <1>0, <1>1, <1>2, <1>3, <1>4, <1>5, <1>6, <1>7, <1>8, <1>9, Kinds

-----------------------------------------------------------------------------
(* What is kept stays kept.                                                *)

(* A flush writes none of the pages of the meta page.                      *)
LEMMA KeptFile ==
    ASSUME Shape, Numbers, Stage, Next, ~PowerLoss, NEW m \in Metas, Kept(m)
    PROVE  /\ file' \in [Page -> Contents]
           /\ \A p \in PagesOf(file, m) : file'[p] = file[p]
<1>1. file \in [Page -> Contents] /\ PagesOf(file, m) \subseteq Page
  BY PagesOfType DEF Shape
<1>2. CASE Flush \/ FlushFails
  <2>1. PICK ps \in SUBSET DOMAIN txn.buf : file' = Write(file, ps)
    BY <1>2 DEF Flush, FlushFails
  <2>2. PagesOf(file, m) \cap DOMAIN txn.buf = {}
    BY <1>2 DEF Kept, Guard, Flush, FlushFails
  <2> QED
    BY <1>1, <2>1, <2>2, WriteFacts
<1>3. CASE ~(Flush \/ FlushFails)
  <2>1. file' = file
    BY ZenonT(60), <1>3, Kinds DEF Begin, Works, Spoils, Ends, Fills, Publish, RecoverMutex, Reopen, Reads, disks,
                       Sync, WriteMeta, MetaFails
  <2> QED
    BY SMTT(40), <1>1, <2>1
<1> QED
  BY <1>2, <1>3

(* What no step but a power loss changes in the newest meta page.          *)
LEMMA NewestSame ==
    ASSUME Shape, Numbers, Next, ~PowerLoss, ~WriteMeta
    PROVE  Newest(metas)' = Newest(metas)
<1>1. CASE MetaFails
  BY SMTT(40), <1>1, MetaFailsFacts
<1>2. CASE ~MetaFails
  <2>1. metas' = metas
    BY ZenonT(60), <1>2 DEF Next, WriterNext, Faults, ReaderNext, Begin, Put, Del, WriteFails, Abort, Commit,
                SaveDrop, SaveFreed, SaveReserve, SaveStep, SaveFill, SaveFails, Flush, Sync, Publish,
                FlushFails, SyncFails, Die, RecoverMutex, Reopen, disks,
                BeginRead, LoadTxnid, StoreSlot, CheckTxnid, CopyMeta, EndRead
  <2> QED
    BY SMTT(40), <2>1 DEF Newest
<1> QED
  BY <1>1, <1>2

(* What is kept from the transactions stays kept, over every step but a    *)
(* power loss.                                                             *)
LEMMA GuardStep ==
    ASSUME Inv, Next, ~PowerLoss, NEW CONSTANT P \in SUBSET Page, NEW CONSTANT s \in Int, Guard(P, s),
           Working => txn.pgoldest <= s /\ Oldest(txn) <= s /\ s <= txn.id
    PROVE  Guard(P, s)'
<1>0. Shape /\ Numbers /\ MetaRel /\ Stage /\ Kept(Newest(metas))
  BY DEF Inv
<1>1. /\ Keeps(file, Opening(Newest(metas)), P, s)
      /\ Working => Keeps(Image(txn), txn, P, s)
      /\ Written => Keeps(Image(txn), Opening(MetaFor(txn)), P, s)
      /\ Working \/ pc = "flush" => P \cap DOMAIN txn.buf = {}
  BY DEF Guard
<1>2. ~WriteMeta => Keeps(file', Opening(Newest(metas)'), P, s)
  <2> DEFINE m == Newest(metas)
  <2>1. m \in Metas /\ file \in [Page -> Contents]
    BY <1>0, MetaFacts DEF Shape
  <2>2. file' \in [Page -> Contents] /\ \A p \in PagesOf(file, m) : file'[p] = file[p]
    BY <1>0, <2>1, KeptFile
  <2>3. Keeps(file', Opening(m), P, s)
    <3> HIDE DEF m
    <3> SUFFICES ASSUME Keeps(file, Opening(m), P, s) PROVE Keeps(file', Opening(m), P, s)
      BY <1>1 DEF m
    <3> QED
      BY <2>1, <2>2, SamePages
  <2>4. ~WriteMeta => m' = m
    BY <1>0, NewestSame
  <2> QED
    BY <2>3, <2>4
<1>3. ASSUME NEW flag \in BOOLEAN, Begin(flag) PROVE Guard(P, s)'
  <2> DEFINE m == Newest(metas)
  <2>1. /\ pc' = "open" /\ file' = file /\ metas' = metas
        /\ m.txnid = mti_txnid
        /\ txn'.id = mti_txnid + 1
        /\ txn'.root = m.root /\ txn'.freeRoot = m.freeRoot
        /\ txn'.next = m.last + 1
        /\ txn'.buf = <<>> /\ txn'.freed = {} /\ txn'.loose = <<>> /\ txn'.pghead = {}
        /\ txn'.pglast = 0
    BY <1>0, <1>3, BeginFacts DEF disks
  <2>2. file \in [Page -> Contents]
    BY <1>0 DEF Shape
  <2>3. Image(txn)' = file
    BY <2>1, <2>2, EmptyMaps DEF Image, At
  <2>4. txn'.id = m.txnid + 1
    BY <2>1
  <2>5. Keeps(file, txn', P, s)
    <3>1. Keeps(file, Opening(m), P, s)
      BY <1>1
    <3> HIDE DEF m
    <3> QED
      BY <2>1, <2>4, <3>1, AsOpening
  <2>6. P \cap DOMAIN txn'.buf = {}
    BY <2>1, EmptyMaps
  <2>7. m' = m
    BY <2>1 DEF Newest
  <2> QED
    BY <1>1, <2>1, <2>3, <2>5, <2>6, <2>7 DEF Guard, Written
<1>4. CASE Works
  <2>1. /\ file' = file /\ metas' = metas /\ pc' \in {"open", "save"} /\ Working
        /\ Begun(txn') /\ Safe(txn, txn')
    BY <1>4 DEF Works, disks, Proceeds
  <2>2. txn \in Txns /\ txn' \in Txns
    BY <1>0, <2>1 DEF Shape, Begun
  <2>3. Held(txn, P, s)
    BY <1>0, <1>1, <2>1, <2>2, HeldKeeps
  <2>4. Held(txn', P, s)
    BY <2>1, <2>3 DEF Safe
  <2>5. P \cap DOMAIN txn'.buf = {} /\ Keeps(Image(txn'), txn', P, s)
    BY <1>0, <2>2, <2>4, HeldKeeps
  <2>6. Image(txn)' = Image(txn')
    BY <2>1, SameFile
  <2>7. Newest(metas)' = Newest(metas)
    BY <2>1 DEF Newest
  <2> QED
    BY <1>1, <2>1, <2>5, <2>6, <2>7 DEF Guard, Written
<1>5. CASE Spoils \/ Ends \/ FlushFails \/ MetaFails \/ Publish
  <2>1. ~Working' /\ ~Written' /\ pc' # "flush"
    BY <1>5 DEF Spoils, Ends, FlushFails, MetaFails, Publish, EndTxn, Working, Written
  <2>2. ~WriteMeta
    BY <1>5 DEF Spoils, Working, Ends, FlushFails, MetaFails, Publish, WriteMeta, EndTxn
  <2> QED
    BY <1>2, <2>1, <2>2 DEF Guard
<1>6. CASE Fills
  <2>1. /\ pc = "save" /\ pc' = "flush" /\ file' = file /\ metas' = metas
        /\ DOMAIN txn'.buf \subseteq DOMAIN txn.buf
        /\ Held(txn, P, s) /\ s <= txn.id => Keeps(Image(txn'), Opening(MetaFor(txn')), P, s)
    BY <1>6 DEF Fills, disks
  <2>2. Working /\ txn \in Txns
    BY <1>0, <2>1 DEF Working, Stage, Shape
  <2>3. Held(txn, P, s) /\ s <= txn.id
    BY <1>0, <1>1, <2>2, HeldKeeps
  <2>4. Keeps(Image(txn)', Opening(MetaFor(txn)'), P, s)
    BY <2>1, <2>3, SameFile DEF MetaFor
  <2>5. Newest(metas)' = Newest(metas)
    BY <2>1 DEF Newest
  <2> QED
    BY <1>1, <2>1, <2>2, <2>4, <2>5 DEF Guard, Working
<1>7. CASE Flush
  <2>1. pc = "flush" /\ pc' = "sync" /\ txn' = txn /\ file' = Image(txn)
    BY <1>0, <1>7, WriteFacts DEF Flush
  <2>2. Image(txn)' = Image(txn)
    BY <2>1 DEF Image, At
  <2>3. ~WriteMeta
    BY <2>1 DEF WriteMeta
  <2> QED
    BY <1>1, <1>2, <2>1, <2>2, <2>3 DEF Guard, Working, Written
<1>8. CASE Sync
  <2>1. pc = "sync" /\ pc' = "meta" /\ txn' = txn /\ file' = file /\ metas' = metas
    BY <1>8 DEF Sync
  <2>2. Image(txn)' = Image(txn) /\ Newest(metas)' = Newest(metas)
    BY <2>1 DEF Image, At, Newest
  <2> QED
    BY <1>1, <2>1, <2>2 DEF Guard, Working, Written
<1>9. CASE WriteMeta
  <2>1. pc = "meta" /\ pc' = "publish" /\ file' = file
    BY <1>9 DEF WriteMeta
  <2>2. Newest(metas)' = MetaFor(txn)
    BY <1>0, <1>9, WriteMetaFacts, NewMetaFacts
  <2>3. Image(txn) = file
    BY <1>0, <2>1 DEF Stage
  <2> QED
    BY <1>1, <2>1, <2>2, <2>3 DEF Guard, Working, Written
<1>10. CASE RecoverMutex \/ Reopen \/ Reads
  <2>1. pc' = pc /\ txn' = txn /\ file' = file /\ metas' = metas
    BY <1>10 DEF RecoverMutex, Reopen, Reads, disks
  <2>2. Image(txn)' = Image(txn) /\ Newest(metas)' = Newest(metas)
    BY <2>1 DEF Image, At, Newest
  <2> QED
    BY <1>1, <2>1, <2>2 DEF Guard, Working, Written
<1> QED
  BY <1>0, <1>3, <1>4, <1>5, <1>6, <1>7, <1>8, <1>9, <1>10, Kinds

(* The transaction that writes comes right after the meta page of the last *)
(* commit, and it looked for the oldest reader no later than that.         *)
LEMMA Before ==
    ASSUME Shape, Numbers, MetaRel, Stage, Working, NEW m \in {Newest(metas), Newest(diskMetas)}
    PROVE  /\ m.txnid + 1 \in Int
           /\ txn.pgoldest <= m.txnid + 1 /\ Oldest(txn) <= m.txnid + 1 /\ m.txnid + 1 <= txn.id
<1>1. /\ mti_txnid \in Nat /\ txn.id = mti_txnid + 1 /\ Newest(metas).txnid = mti_txnid
      /\ Newest(diskMetas).txnid \in Nat
  BY MetaFacts DEF Working, Numbers
<1>2. m.txnid = mti_txnid \/ m.txnid = mti_txnid - 1
  BY <1>1, DiskFacts
<1>3. txn.pgoldest <= mti_txnid /\ txn.pgoldest \in Int
  BY Bounds DEF Numbers, Shape, Txns
<1>4. Oldest(txn) \in Int /\ Oldest(txn) <= txn.id - 1
  <2>1. Begun(txn) /\ txn.id \in Int
    BY <1>1, WorkFacts DEF Working
  <2> QED
    BY <1>1, <2>1, OldestFacts
<1>5. Oldest(txn) <= mti_txnid
  BY <1>1, <1>4
<1> HIDE DEF Working
<1> QED
  BY <1>1, <1>2, <1>3, <1>4, <1>5

(* What a meta page refers to stays as it is while it may be needed.       *)
LEMMA KeptStep ==
    ASSUME Inv, Next, ~PowerLoss, NEW CONSTANT m \in Metas,
           m \in {Newest(metas), Newest(diskMetas)}
    PROVE  Kept(m)'
<1>0. Shape /\ Numbers /\ MetaRel /\ Stage /\ Kept(m)
  BY DEF Inv
<1>1. file \in [Page -> Contents] /\ PagesOf(file, m) \in SUBSET Page /\ m.txnid \in Nat
  BY <1>0, PagesOfType DEF Shape
<1>2. file' \in [Page -> Contents] /\ \A p \in PagesOf(file, m) : file'[p] = file[p]
  BY <1>0, KeptFile
<1>3. PICK P \in SUBSET Page : P = PagesOf(file, m)
  BY <1>1
<1>4. PagesOf(file', m) = P /\ Whole(file', m)
  BY <1>0, <1>1, <1>2, <1>3, SamePages DEF Kept
<1>5. Guard(P, m.txnid + 1)'
  <2>1. Guard(P, m.txnid + 1)
    BY <1>0, <1>3 DEF Kept
  <2>2. PICK s \in Int : s = m.txnid + 1
    BY <1>1
  <2>3. Working => txn.pgoldest <= s /\ Oldest(txn) <= s /\ s <= txn.id
    BY <1>0, <2>2, Before
  <2>4. Guard(P, s)'
    BY <2>1, <2>2, <2>3, GuardStep
  <2> QED
    BY <2>2, <2>4
<1>6. \A p \in P : file'[p] = disk'[p]
  <2>1. CASE Sync
    BY <1>1, <2>1 DEF Sync
  <2>2. CASE ~Sync
    <3>1. disk' = disk
      BY ZenonT(60), <1>0, <2>2, Kinds DEF Begin, Works, Spoils, Ends, Fills, Publish, RecoverMutex, Reopen, Reads,
                               disks, WriteMeta, MetaFails, Flush, FlushFails
    <3> QED
      BY SMTT(40), <1>0, <1>2, <1>3, <3>1 DEF Kept
  <2> QED
    BY <2>1, <2>2
<1> QED
  BY <1>4, <1>5, <1>6 DEF Kept

(* The new meta page refers to what was synced.                            *)
LEMMA KeptNew ==
    ASSUME Inv, WriteMeta
    PROVE  Kept(Newest(metas))'
<1>0. Shape /\ Numbers /\ MetaRel /\ Stage
  BY DEF Inv
<1>1. /\ pc = "meta" /\ pc' = "publish" /\ file' = file /\ disk' = disk
  BY DEF WriteMeta
<1>2. PICK m \in Metas : m = NewMeta
  BY <1>0, NewMetaFacts
<1>3. Newest(metas)' = m /\ m = MetaFor(txn)
  BY <1>0, <1>2, WriteMetaFacts, NewMetaFacts
<1>4. Whole(file, m) /\ disk = file /\ file \in [Page -> Contents]
  BY <1>0, <1>1, <1>3 DEF Stage, Written, Shape
<1>5. Keeps(file, Opening(m), PagesOf(file, m), m.txnid + 1)
  BY <1>4, KeepsOwn
<1>6. ~Working' /\ ~Written' /\ pc' # "flush"
  BY <1>1 DEF Working, Written
<1> QED
  BY <1>1, <1>3, <1>4, <1>5, <1>6 DEF Kept, Guard

(* A power loss leaves one of the two newest meta pages, and its pages.    *)
LEMMA KeptLost ==
    ASSUME Inv, PowerLoss
    PROVE  Kept(Newest(metas))' /\ Newest(diskMetas)' = Newest(metas)'
<1>0. Shape /\ Numbers /\ MetaRel /\ Stage
  BY DEF Inv
<1>1. /\ Newest(metas)' \in {Newest(metas), Newest(diskMetas)}
      /\ Newest(diskMetas)' = Newest(metas)'
      /\ file' \in [Page -> Contents] /\ disk' = file'
      /\ \A p \in Page : file'[p] \in {file[p], disk[p]}
  BY <1>0, PowerLossFacts
<1>2. PICK m \in Metas : m = Newest(metas)'
  BY <1>0, <1>1, MetaFacts
<1>3. Kept(m)
  BY <1>1, <1>2 DEF Inv
<1>4. file \in [Page -> Contents] /\ PagesOf(file, m) \subseteq Page
  BY <1>0, PagesOfType DEF Shape
<1>5. \A p \in PagesOf(file, m) : file'[p] = file[p]
  BY <1>1, <1>3, <1>4 DEF Kept
<1>6. Whole(file', m)
  BY <1>1, <1>3, <1>4, <1>5, SamePages DEF Kept
<1>7. Keeps(file', Opening(m), PagesOf(file', m), m.txnid + 1)
  BY <1>1, <1>6, KeepsOwn
<1>8. ~Working' /\ ~Written' /\ pc' # "flush"
  BY DEF PowerLoss, Working, Written
<1> QED
  BY <1>1, <1>2, <1>6, <1>7, <1>8 DEF Kept, Guard

(* Every step keeps the newest meta pages' pages, in the file and on disk. *)
LEMMA KeptNext ==
    ASSUME Inv, Next
    PROVE  Kept(Newest(metas))' /\ Kept(Newest(diskMetas))'
<1>0. Shape /\ Numbers /\ MetaRel /\ Stage
  BY DEF Inv
<1>1. PICK m \in Metas : m = Newest(metas)
  BY <1>0, MetaFacts
<1>2. PICK d \in Metas : d = Newest(diskMetas)
  BY <1>0, MetaFacts
<1>3. ~PowerLoss => Kept(m)' /\ Kept(d)'
  BY <1>1, <1>2, KeptStep
<1>4. CASE PowerLoss
  BY <1>4, KeptLost DEF Kept
<1>5. CASE WriteMeta
  <2>1. Kept(Newest(metas))'
    BY <1>5, KeptNew
  <2>2. diskMetas = metas /\ (diskMetas' = diskMetas \/ diskMetas' = metas')
    BY <1>0, <1>5, WriteMetaFacts
  <2>3. CASE diskMetas' = diskMetas
    <3>1. Newest(diskMetas)' = m
      BY <1>1, <2>2, <2>3 DEF Newest
    <3>2. ~PowerLoss
      BY <1>5 DEF WriteMeta, PowerLoss
    <3> QED
      BY <1>3, <2>1, <3>1, <3>2 DEF Kept
  <2>4. CASE diskMetas' = metas'
    <3>1. Newest(diskMetas)' = Newest(metas)'
      BY <2>4 DEF Newest
    <3> QED
      BY <2>1, <3>1 DEF Kept
  <2> QED
    BY <2>2, <2>3, <2>4
<1>6. CASE ~PowerLoss /\ ~WriteMeta
  <2>1. Newest(metas)' = m
    BY <1>0, <1>1, <1>6, NewestSame
  <2>2. CASE Sync
    <3>1. diskMetas' = metas
      BY <2>2 DEF Sync
    <3>2. Newest(diskMetas)' = m
      BY <1>1, <3>1 DEF Newest
    <3> QED
      BY <1>3, <1>6, <2>1, <3>2 DEF Kept
  <2>3. CASE ~Sync
    <3>1. diskMetas' = diskMetas
      BY ZenonT(60), <1>0, <1>6, <2>3, Kinds DEF Begin, Works, Spoils, Ends, Fills, Publish, RecoverMutex, Reopen,
                                     Reads, disks, MetaFails, Flush, FlushFails
    <3>2. Newest(diskMetas)' = d
      BY <1>2, <3>1 DEF Newest
    <3> QED
      BY SMTT(40), <1>3, <1>6, <2>1, <3>2 DEF Kept
  <2> QED
    BY <2>2, <2>3
<1> QED
  BY <1>4, <1>5, <1>6

(* A fresh environment: two meta pages alike, and nothing in the file.     *)
LEMMA InitInv == Init => Inv
<1> SUFFICES ASSUME Init PROVE Inv
  OBVIOUS
<1> DEFINE m == [txnid |-> 0, root |-> Invalid, freeRoot |-> Invalid, last |-> 1]
<1>1. Shape /\ Numbers
  BY InitShape
<1>2. metas = [x \in 0 .. 1 |-> m] /\ diskMetas = metas /\ pc = "idle" /\ txn = NoTxn /\ disk = file
  BY DEF Init
<1>3. m.txnid = 0 /\ m.root = Invalid /\ m.freeRoot = Invalid /\ m.last = 1
  OBVIOUS
<1> HIDE DEF m
<1>4. Newest(metas) = m /\ Newest(diskMetas) = m
  BY <1>2 DEF Newest
<1>5. PagesOf(file, m) = {}
  BY <1>3 DEF PagesOf, TreePages
<1>6. Whole(file, m)
  <2> DEFINE o == Opening(m)
  <2>1. /\ o.root = Invalid /\ o.freeRoot = Invalid
        /\ o.pghead = {} /\ o.freed = {} /\ o.loose = <<>> /\ o.next = 2
    BY <1>3, OpeningFields
  <2> HIDE DEF o
  <2>2. RecordsIn(file, o.freeRoot) = <<>> /\ RecordsIn(file, m.freeRoot) = <<>>
    BY <1>3, <2>1 DEF RecordsIn
  <2>3. \A p \in Page : \A i \in Spot : ~Has(file, o, p, i)
    BY <2>1, <2>2, EmptyMaps, Bounds DEF Has, TreePages, Pool, ToSet
  <2>4. Once(file, o)
    BY <2>1, <2>3 DEF Once, Branching
  <2>5. Missing(file, o) = {}
    BY <2>1, Bounds DEF Missing
  <2> QED
    BY <2>2, <2>4, <2>5, EmptyMaps DEF Whole, Dated, o
<1>7. MetaRel
  <2>1. 0 % 2 = 0
    OBVIOUS
  <2> QED
    BY <1>2, <1>3, <1>4, <2>1 DEF MetaRel
<1>8. Stage
  BY <1>2 DEF Stage, Working, Written, NoTxn
<1>9. Kept(m)
  BY <1>2, <1>5, <1>6 DEF Kept, Guard, Keeps, Working, Written
<1> QED
  BY <1>1, <1>4, <1>7, <1>8, <1>9 DEF Inv

(* Every step keeps the invariant.                                         *)
LEMMA InvStep ==
    ASSUME Inv, [Next]_vars
    PROVE  Inv'
<1>1. CASE Next
  <2>1. Shape' /\ Numbers' /\ MetaRel'
    BY <1>1, ShapeStep, NumbersStep, MetaRelStep DEF Inv
  <2>2. Stage'
    BY <1>1, StageStep
  <2>3. Kept(Newest(metas))' /\ Kept(Newest(diskMetas))'
    BY <1>1, KeptNext
  <2> QED
    BY <2>1, <2>2, <2>3 DEF Inv
<1>2. CASE UNCHANGED vars
  <2>1. /\ file' = file /\ disk' = disk /\ metas' = metas /\ diskMetas' = diskMetas
        /\ mti_txnid' = mti_txnid /\ wmutex' = wmutex /\ fatal' = fatal /\ pc' = pc /\ txn' = txn
        /\ begun' = begun /\ writes' = writes /\ rpc' = rpc /\ slot' = slot /\ rload' = rload
        /\ rroot' = rroot /\ scenario' = scenario
    BY SMTT(40), <1>2 DEF vars, disks, locks, readers
  <2>2. Shape'
    BY SMTT(40), <2>1 DEF Inv, Shape, TypeOK
  <2>3. Numbers' /\ MetaRel'
    BY ZenonT(60), <2>1 DEF Inv, Numbers, MetaRel, Numbered, Newest
  <2>4. Stage'
    BY <2>1, SameFile DEF Inv, Stage, Working, Written
  <2>5. Newest(metas)' = Newest(metas) /\ Newest(diskMetas)' = Newest(diskMetas) /\ Image(txn)' = Image(txn)
    BY <2>1 DEF Newest, Image, At
  <2>6. PagesOf(file, Newest(metas))' = PagesOf(file, Newest(metas))
    BY <2>1, <2>5 DEF PagesOf, TreePages
  <2>7. PagesOf(file, Newest(diskMetas))' = PagesOf(file, Newest(diskMetas))
    BY <2>1, <2>5 DEF PagesOf, TreePages
  <2>8. Kept(Newest(metas))'
    BY <2>1, <2>5, <2>6 DEF Inv, Kept, Guard, Working, Written
  <2>9. Kept(Newest(diskMetas))'
    BY <2>1, <2>5, <2>7 DEF Inv, Kept, Guard, Working, Written
  <2> QED
    BY <2>2, <2>3, <2>4, <2>8, <2>9 DEF Inv
<1> QED
  BY <1>1, <1>2

(* The invariant holds at every step.                                      *)
LEMMA InvHolds == Spec => []Inv
BY InitInv, InvStep, PTL DEF Spec

-----------------------------------------------------------------------------
(* The readers' invariant.                                                 *)

(* What is kept from a transaction is kept from one that reads fewer       *)
(* records, and so is each part of it.                                     *)
LEMMA GuardLess ==
    ASSUME Shape, Numbers, NEW P, NEW Q \in SUBSET P, NEW n \in Int, NEW s \in Int, s <= n, Guard(P, n)
    PROVE  Guard(Q, s)
<1>1. PICK m \in Metas : m = Newest(metas)
  BY MetaFacts
<1>2. file \in [Page -> Contents] /\ txn \in Txns
  BY DEF Shape
<1>3. ASSUME NEW g \in [Page -> Contents], NEW t, t.freeRoot \in Place, Keeps(g, t, P, n)
      PROVE  Keeps(g, t, Q, s)
  <2>1. DOMAIN RecordsIn(g, t.freeRoot) \subseteq Int
    <3>1. CASE t.freeRoot = Invalid
      BY <3>1, EmptyMaps DEF RecordsIn
    <3>2. CASE t.freeRoot # Invalid
      <4>1. g[t.freeRoot].recs \in Recs
        BY <1>3, <3>2 DEF Place, Contents
      <4>2. DOMAIN g[t.freeRoot].recs \subseteq Ids
        BY <4>1 DEF Recs
      <4>3. Ids \subseteq Int
        BY Bounds
      <4> QED
        BY <3>2, <4>2, <4>3 DEF RecordsIn
    <3> QED
      BY <3>1, <3>2
  <2> QED
    BY <1>3, <2>1, KeepsLess
<1>4. Opening(m).freeRoot \in Place /\ Opening(MetaFor(txn)).freeRoot \in Place /\ txn.freeRoot \in Place
  BY ZenonT(60), <1>1, <1>2, PagesOfType, OpeningFields DEF MetaFor, Txns
<1>5. Image(txn) \in [Page -> Contents]
  BY <1>2, ImageFacts
<1>6. Keeps(file, Opening(m), Q, s)
  BY <1>1, <1>2, <1>3, <1>4 DEF Guard
<1>7. Working => Keeps(Image(txn), txn, Q, s)
  BY <1>3, <1>4, <1>5 DEF Guard
<1>8. Written => Keeps(Image(txn), Opening(MetaFor(txn)), Q, s)
  BY <1>3, <1>4, <1>5 DEF Guard
<1>9. Working \/ pc = "flush" => Q \cap DOMAIN txn.buf = {}
  BY DEF Guard
<1> QED
  BY <1>1, <1>6, <1>7, <1>8, <1>9 DEF Guard

(* The tree of the newest meta page is kept.                               *)
LEMMA NewestGuard ==
    Inv => \A s \in Int : s <= Newest(metas).txnid + 1 => Guard(TreePages(file, Newest(metas).root), s)
<1> SUFFICES ASSUME Inv, NEW s \in Int, s <= Newest(metas).txnid + 1
             PROVE  Guard(TreePages(file, Newest(metas).root), s)
  OBVIOUS
<1>1. Shape /\ Numbers /\ Guard(PagesOf(file, Newest(metas)), Newest(metas).txnid + 1)
  BY DEF Inv, Kept
<1>2. TreePages(file, Newest(metas).root) \in SUBSET PagesOf(file, Newest(metas))
  BY DEF PagesOf
<1>3. Newest(metas).txnid + 1 \in Int
  BY <1>1, MetaFacts
<1> QED
  BY <1>1, <1>2, <1>3, GuardLess

(* A tree kept from the transaction that writes stays as it is, and kept.  *)
LEMMA TreeStep ==
    ASSUME Inv, Next, ~PowerLoss, NEW CONSTANT root \in Place, NEW CONSTANT s \in Int,
           Guard(TreePages(file, root), s),
           Working => txn.pgoldest <= s /\ Oldest(txn) <= s /\ s <= txn.id
    PROVE  /\ Tree(file', root) = Tree(file, root)
           /\ TreePages(file', root) = TreePages(file, root)
           /\ Guard(TreePages(file, root), s)'
<1>0. Shape /\ Numbers /\ MetaRel /\ Stage
  BY DEF Inv
<1>1. file \in [Page -> Contents] /\ TreePages(file, root) \subseteq Page
  BY <1>0, TreeType DEF Shape
<1>2. PICK P \in SUBSET Page : P = TreePages(file, root)
  BY <1>1
<1>3. \A p \in P : file'[p] = file[p]
  <2>1. CASE Flush \/ FlushFails
    <3>1. PICK ps \in SUBSET DOMAIN txn.buf : file' = Write(file, ps)
      BY <2>1 DEF Flush, FlushFails
    <3>2. P \cap DOMAIN txn.buf = {}
      BY <1>2, <2>1 DEF Guard, Flush, FlushFails
    <3> QED
      BY <1>0, <1>2, <3>1, <3>2, WriteFacts
  <2>2. CASE ~(Flush \/ FlushFails)
    <3>1. file' = file
      BY ZenonT(60), <1>0, <2>2, Kinds DEF Begin, Works, Spoils, Ends, Fills, Publish, RecoverMutex, Reopen, Reads,
                               disks, Sync, WriteMeta, MetaFails
    <3> QED
      BY SMTT(40), <3>1
  <2> QED
    BY <2>1, <2>2
<1>4. TreePages(file', root) = P /\ Tree(file', root) = Tree(file, root)
  <2>1. file' \in [Page -> Contents]
    BY <1>0, ShapeStep DEF Shape
  <2> QED
    BY <1>1, <1>2, <1>3, <2>1, Unaffected
<1>5. Guard(P, s)'
  BY <1>2, GuardStep
<1> QED
  BY <1>2, <1>4, <1>5

(* The last commit is one before the transaction that writes.              *)
LEMMA CurrentBefore ==
    ASSUME Shape, Numbers, MetaRel, Stage
    PROVE  /\ mti_txnid + 1 \in Int /\ metas[mti_txnid % 2].root \in Place /\ Newest(metas).root \in Place
           /\ Working => /\ txn.pgoldest <= mti_txnid + 1 /\ Oldest(txn) <= mti_txnid + 1
                         /\ mti_txnid + 1 <= txn.id
<1>1. /\ mti_txnid \in Nat /\ metas[mti_txnid % 2] \in Metas /\ Newest(metas) \in Metas
  BY MetaFacts
<1>2. metas[mti_txnid % 2].root \in Place /\ Newest(metas).root \in Place
  BY <1>1 DEF Metas, Place
<1>3. CASE Working
  <2>1. Newest(metas).txnid = mti_txnid
    BY <1>3, MetaFacts DEF Working, Numbers
  <2> QED
    BY <1>1, <1>2, <1>3, <2>1, Before
<1> QED
  BY <1>1, <1>2, <1>3

(* A slot a reader holds comes before the transaction that writes too.     *)
LEMMA SlotBefore ==
    ASSUME Shape, Numbers, Stage, NEW r \in Reader, SlotKept(r), rpc[r] \in {"copy", "in"}
    PROVE  /\ slot[r] \in Nat /\ slot[r] % 2 \in 0 .. 1 /\ SlotRead(r) \in Place /\ rroot[r] \in Place
           /\ txn.pgoldest <= slot[r] /\ slot[r] <= mti_txnid
           /\ pc # "idle" => Oldest(txn) <= slot[r] /\ slot[r] <= txn.id
<1>1. slot[r] # NoSlot /\ txn.pgoldest <= slot[r] /\ slot[r] <= mti_txnid
  BY DEF SlotKept
<1>2. slot[r] \in Nat
  BY <1>1, Bounds DEF Shape, TypeOK
<1>3. slot[r] % 2 \in 0 .. 1
  BY <1>2, Turns
<1>4. rroot[r] \in Place
  BY DEF Shape, TypeOK, Place
<1>5. SlotRead(r) \in Place
  BY <1>3 DEF SlotRead, Shape, TypeOK, Metas, Place
<1>6. ASSUME pc # "idle" PROVE Oldest(txn) <= slot[r] /\ slot[r] <= txn.id
  <2>1. Begun(txn)
    BY <1>6, WorkFacts
  <2>2. txn.id = mti_txnid + 1 /\ mti_txnid \in Nat
    BY <1>6, MetaFacts
  <2> QED
    BY <1>1, <1>2, <2>1, <2>2, OldestFacts
<1> QED
  BY <1>1, <1>2, <1>3, <1>4, <1>5, <1>6

(* The newest meta page is on the side of its txnid.                       *)
LEMMA NewestSide ==
    Shape /\ Numbers => Newest(metas) = metas[Newest(metas).txnid % 2] /\ Newest(metas).txnid \in Nat
BY MetaFacts

(* The tree of the last commit stays kept, also where a new one is made.   *)
LEMMA CurrentStep ==
    ASSUME Inv, Next, CurrentKept
    PROVE  CurrentKept'
<1>0. Shape /\ Numbers /\ MetaRel /\ Stage
  BY DEF Inv
<1>1. CASE mti_txnid' = mti_txnid /\ ~PowerLoss
  <2>1. PICK root \in Place : root = metas[mti_txnid % 2].root
    BY <1>0, CurrentBefore
  <2>2. metas'[mti_txnid % 2] = metas[mti_txnid % 2]
    <3>1. CASE WriteMeta \/ MetaFails
      BY <1>0, <3>1, WriteMetaFacts, MetaFailsFacts
    <3>2. CASE ~(WriteMeta \/ MetaFails)
      <4>1. metas' = metas
        BY ZenonT(60), <1>0, <1>1, <3>2, Kinds DEF Begin, Works, Spoils, Ends, Fills, Publish, RecoverMutex, Reopen,
                                       Reads, disks, Sync, Flush, FlushFails
      <4> QED
        BY SMTT(40), <4>1
    <3> QED
      BY <3>1, <3>2
  <2>3. PICK s \in Int : s = mti_txnid + 1
    BY <1>0, CurrentBefore
  <2>4. Guard(TreePages(file, root), s)
    BY <2>1, <2>3 DEF CurrentKept
  <2>5. Working => txn.pgoldest <= s /\ Oldest(txn) <= s /\ s <= txn.id
    BY <1>0, <2>3, CurrentBefore
  <2>6. Guard(TreePages(file, root), s)'
    BY <1>1, <2>4, <2>5, TreeStep
  <2>7. metas'[mti_txnid' % 2].root = root /\ mti_txnid' + 1 = s
    BY <1>1, <2>1, <2>2, <2>3
  <2> QED
    BY <2>6, <2>7 DEF CurrentKept
<1>2. CASE Publish \/ RecoverMutex \/ PowerLoss
  <2>1. Inv'
    BY InvStep
  <2>2. Numbers' /\ Shape'
    BY <2>1 DEF Inv
  <2>3. (Shape /\ Numbers => /\ Newest(metas) = metas[Newest(metas).txnid % 2]
                             /\ Newest(metas).txnid \in Nat)'
    BY NewestSide, PTL
  <2>4. mti_txnid' = Newest(metas)'.txnid
    <3>1. CASE Publish
      <4>1. pc = "publish" /\ pc' = "idle" /\ wmutex' = "free"
        BY <3>1 DEF Publish, EndTxn
      <4> QED
        BY <2>2, <4>1 DEF Numbers
    <3>2. CASE RecoverMutex
      <4>1. wmutex' = "free" /\ metas' = metas /\ mti_txnid' = Newest(metas).txnid
        BY <3>2 DEF RecoverMutex, disks
      <4> QED
        BY <4>1 DEF Newest
    <3>3. CASE PowerLoss
      BY <1>0, <3>3, PowerLossFacts
    <3> QED
      BY <1>2, <3>1, <3>2, <3>3
  <2>5. (Inv => \A s \in Int : s <= Newest(metas).txnid + 1 =>
                   Guard(TreePages(file, Newest(metas).root), s))'
    BY NewestGuard, PTL
  <2>6. \A n \in Nat : n + 1 \in Int /\ n + 1 <= n + 1
    OBVIOUS
  <2>7. Guard(TreePages(file, Newest(metas).root), mti_txnid + 1)'
    BY <2>1, <2>2, <2>3, <2>4, <2>5, <2>6
  <2>8. Newest(metas)' = metas'[mti_txnid' % 2]
    BY <2>2, <2>3, <2>4
  <2> QED
    BY <2>7, <2>8 DEF CurrentKept
<1>3. CASE ~(Publish \/ RecoverMutex \/ PowerLoss)
  <2>1. mti_txnid' = mti_txnid
    BY ZenonT(60), <1>0, <1>3, Kinds DEF Begin, Works, Spoils, Ends, Fills, Reopen, Reads, locks, Sync, Flush,
                             FlushFails, WriteMeta, MetaFails
  <2> QED
    BY SMTT(40), <1>1, <1>3, <2>1
<1> QED
  BY <1>2, <1>3

(* Looking for the oldest reader again does not go past a reader there is. *)
LEMMA OldestStays ==
    ASSUME Inv, Next, ~PowerLoss, NEW s \in Nat, txn.pgoldest <= s, pc # "idle" => Oldest(txn) <= s
    PROVE  txn'.pgoldest <= s
<1>0. Shape /\ Numbers /\ MetaRel /\ Stage
  BY DEF Inv
<1>1. ASSUME NEW flag \in BOOLEAN, Begin(flag) PROVE txn'.pgoldest <= s
  BY <1>0, <1>1, BeginFacts
<1>2. CASE Works
  <2>1. Working /\ Begun(txn') /\ Safe(txn, txn')
    BY <1>2 DEF Works, Proceeds
  <2>2. txn \in Txns /\ txn' \in Txns /\ s \in Int /\ {} \in SUBSET Page
    BY <1>0, <2>1 DEF Shape, Begun
  <2>3. Oldest(txn) <= s
    BY <2>1 DEF Working
  <2>4. Held(txn, {}, s)
    <3>1. {} \cap DOMAIN txn.buf = {} /\ Keeps(Image(txn), txn, {}, s)
      BY DEF Keeps
    <3> QED
      BY <1>0, <2>2, <2>3, <3>1, HeldKeeps
  <2>5. Held(txn', {}, s)
    BY <2>1, <2>2, <2>4 DEF Safe
  <2> QED
    BY <1>0, <2>2, <2>5, HeldKeeps
<1>3. CASE Spoils
  BY <1>3 DEF Spoils, Working
<1>4. CASE Ends \/ FlushFails \/ MetaFails \/ Publish
  <2>1. txn' \in {NoTxn, [NoTxn EXCEPT !.pgoldest = txn.pgoldest]}
    BY <1>4 DEF Ends, FlushFails, MetaFails, Publish, EndTxn
  <2>2. txn'.pgoldest \in {0, txn.pgoldest}
    BY <1>0, <2>1, EndFacts
  <2> QED
    BY <2>2
<1>5. CASE Fills \/ Flush \/ Sync \/ WriteMeta \/ RecoverMutex \/ Reopen \/ Reads
  <2>1. txn'.pgoldest = txn.pgoldest
    BY <1>5 DEF Fills, Flush, Sync, WriteMeta, RecoverMutex, Reopen, Reads
  <2> QED
    BY <2>1
<1> QED
  BY <1>0, <1>1, <1>2, <1>3, <1>4, <1>5, Kinds

(* What the steps of a writer, without a failed write of a meta page or a  *)
(* power loss, change for a reader.                                        *)
LEMMA RootsStep ==
    ASSUME Inv, Next, ~PowerLoss, ~MetaFails
    PROVE  /\ mti_txnid' \in Nat /\ mti_txnid <= mti_txnid'
           /\ metas'[mti_txnid' % 2].root \in {metas[mti_txnid % 2].root, Newest(metas).root}
           /\ ~WriteMeta => metas' = metas /\ Newest(metas)' = Newest(metas)
           /\ WriteMeta => /\ file' = file /\ Newest(metas)'.root = txn.root
                           /\ \A x \in 0 .. 1 : metas'[x] \in {metas[x], NewMeta}
                           /\ NewMeta.root = txn.root /\ Newest(metas)' = NewMeta
                           /\ NewMeta.txnid = mti_txnid + 1
<1>0. Shape /\ Numbers /\ MetaRel /\ Stage
  BY DEF Inv
<1>1. /\ mti_txnid \in Nat /\ Newest(metas) = metas[Newest(metas).txnid % 2]
      /\ Newest(metas).txnid \in Nat /\ mti_txnid <= Newest(metas).txnid
      /\ pc # "idle" => txn.id = mti_txnid + 1
  <2>1. mti_txnid <= Newest(metas).txnid
    BY <1>0, MetaFacts DEF Numbers
  <2> QED
    BY <1>0, <2>1, MetaFacts
<1>2. CASE WriteMeta
  <2>1. pc = "meta" /\ file' = file /\ mti_txnid' = mti_txnid
    BY <1>2 DEF WriteMeta, locks
  <2>2. NewMeta.root = txn.root /\ NewMeta.txnid = mti_txnid + 1
    BY SMTT(40), <1>0, <1>1, <2>1, NewMetaFacts
  <2> QED
    BY <1>0, <1>1, <1>2, <2>1, <2>2, WriteMetaFacts
<1>3. CASE Publish
  <2>1. /\ metas' = metas /\ mti_txnid' = txn.id /\ pc = "publish"
    BY <1>3 DEF Publish, disks
  <2>2. mti_txnid' = Newest(metas).txnid
    BY SMTT(40), <1>0, <1>1, <2>1 DEF Numbers
  <2> QED
    BY ZenonT(60), <1>1, <2>1, <2>2 DEF Newest, WriteMeta
<1>4. CASE RecoverMutex
  <2>1. metas' = metas /\ mti_txnid' = Newest(metas).txnid /\ pc' = pc /\ wmutex = "dead"
    BY <1>4 DEF RecoverMutex, disks
  <2>2. ~WriteMeta
    BY <1>0, <2>1 DEF WriteMeta, Numbers
  <2> QED
    BY ZenonT(60), <1>1, <2>1, <2>2 DEF Newest
<1>5. CASE ~(WriteMeta \/ Publish \/ RecoverMutex)
  <2>1. metas' = metas /\ mti_txnid' = mti_txnid
    BY ZenonT(60), <1>0, <1>5, Kinds DEF Begin, Works, Spoils, Ends, Fills, Reopen, Reads, locks, disks, Sync, Flush,
                             FlushFails
  <2> QED
    BY SMTT(40), <1>1, <1>5, <2>1 DEF Newest
<1> QED
  BY <1>2, <1>3, <1>4, <1>5

(* The same after a step.                                                  *)
LEMMA NextGuard ==
    Inv' => (\A s \in Int : s <= Newest(metas).txnid + 1 => Guard(TreePages(file, Newest(metas).root), s))'
BY NewestGuard, PTL

(* A reader that takes no step finds what it needs where it was, or, where *)
(* its side of the meta pages was written, what the commit put there.      *)
LEMMA AttendedStep ==
    ASSUME Inv, Next, ~PowerLoss, ~MetaFails, CurrentKept, NEW CONSTANT r \in Reader, Attended(r),
           rpc'[r] = rpc[r], slot'[r] = slot[r], rroot'[r] = rroot[r], view'[r] = view[r],
           current[r] \subseteq current'[r],
           WriteMeta /\ Begins(r) => Tree(file, txn.root) \in current'[r]
    PROVE  Attended(r)'
<1>0. Shape /\ Numbers /\ MetaRel /\ Stage
  BY DEF Inv
<1>1. /\ mti_txnid' \in Nat /\ mti_txnid <= mti_txnid'
      /\ metas'[mti_txnid' % 2].root \in {metas[mti_txnid % 2].root, Newest(metas).root}
      /\ ~WriteMeta => metas' = metas /\ Newest(metas)' = Newest(metas)
      /\ WriteMeta => /\ file' = file /\ Newest(metas)'.root = txn.root
                      /\ \A x \in 0 .. 1 : metas'[x] \in {metas[x], NewMeta}
                      /\ NewMeta.root = txn.root /\ Newest(metas)' = NewMeta
                      /\ NewMeta.txnid = mti_txnid + 1
  BY RootsStep
<1>2. /\ mti_txnid \in Nat /\ mti_txnid <= Newest(metas).txnid
  <2>1. mti_txnid <= Newest(metas).txnid
    BY <1>0, MetaFacts DEF Numbers
  <2> QED
    BY <1>0, <2>1, MetaFacts
<1>3. PICK c \in Place : c = metas[mti_txnid % 2].root
  BY <1>0, CurrentBefore
<1>4. PICK n \in Place : n = Newest(metas).root
  BY <1>0, CurrentBefore
<1>5. PICK e \in Int : e = mti_txnid + 1
  BY <1>2
<1>6. Working => txn.pgoldest <= e /\ Oldest(txn) <= e /\ e <= txn.id
  BY <1>0, <1>5, CurrentBefore
<1>7. Tree(file', c) = Tree(file, c)
  BY <1>3, <1>5, <1>6, TreeStep DEF CurrentKept
<1>8. Tree(file', n) = Tree(file, n)
  <2>1. e <= Newest(metas).txnid + 1
    BY <1>0, <1>2, <1>5, MetaFacts
  <2>2. Guard(TreePages(file, n), e)
    BY <1>4, <2>1, NewestGuard
  <2> QED
    BY <1>6, <2>2, TreeStep
<1>9. Offered(r)'
  <2> SUFFICES ASSUME Begins(r)'
               PROVE  /\ Tree(file', metas'[mti_txnid' % 2].root) \in current'[r]
                      /\ Tree(file', Newest(metas)'.root) \in current'[r]
    BY DEF Offered
  <2>1. Begins(r)
    BY DEF Begins
  <2>2. Tree(file, c) \in current'[r] /\ Tree(file, n) \in current'[r]
    BY <1>3, <1>4, <2>1 DEF Attended, Offered
  <2>3. Tree(file', metas'[mti_txnid' % 2].root) \in current'[r]
    BY <1>1, <1>3, <1>4, <1>7, <1>8, <2>2
  <2>4. Tree(file', Newest(metas)'.root) \in current'[r]
    BY <1>1, <1>4, <1>8, <2>1, <2>2
  <2> QED
    BY <2>3, <2>4
<1>10. rpc[r] \in {"copy", "in"} =>
         /\ slot[r] \in Nat /\ slot[r] % 2 \in 0 .. 1 /\ SlotRead(r) \in Place /\ rroot[r] \in Place
         /\ txn.pgoldest <= slot[r] /\ slot[r] <= mti_txnid
         /\ pc # "idle" => Oldest(txn) <= slot[r] /\ slot[r] <= txn.id
  BY <1>0, SlotBefore DEF Attended
<1>11. SlotKept(r)'
  <2> SUFFICES ASSUME rpc[r] \in {"copy", "in"}
               PROVE  slot[r] # NoSlot /\ txn'.pgoldest <= slot[r] /\ slot[r] <= mti_txnid'
    BY DEF SlotKept
  <2>1. txn'.pgoldest <= slot[r]
    <3>1. PICK k \in Nat : k = slot[r]
      BY <1>10
    <3>2. txn.pgoldest <= k /\ (pc # "idle" => Oldest(txn) <= k)
      BY <1>10, <3>1
    <3> QED
      BY <3>1, <3>2, OldestStays
  <2>2. slot[r] <= mti_txnid'
    BY <1>1, <1>2, <1>10
  <2>3. slot[r] # NoSlot
    BY <1>10 DEF NoSlot
  <2> QED
    BY <2>1, <2>2, <2>3
<1>12. \A root \in Place : rpc[r] \in {"copy", "in"} /\ Guard(TreePages(file, root), slot[r]) =>
          Tree(file', root) = Tree(file, root) /\ (Guard(TreePages(file, root), slot[r]))'
  <2> SUFFICES ASSUME NEW CONSTANT root \in Place, rpc[r] \in {"copy", "in"}, Guard(TreePages(file, root), slot[r])
               PROVE  Tree(file', root) = Tree(file, root) /\ (Guard(TreePages(file, root), slot[r]))'
    OBVIOUS
  <2>1. PICK k \in Int : k = slot[r]
    BY <1>10
  <2>2. Working => txn.pgoldest <= k /\ Oldest(txn) <= k /\ k <= txn.id
    BY <1>10, <2>1 DEF Working
  <2>3. Guard(TreePages(file, root), k)
    BY <2>1
  <2>4. Tree(file', root) = Tree(file, root) /\ (Guard(TreePages(file, root), k))'
    BY <2>2, <2>3, TreeStep
  <2> QED
    BY <2>1, <2>4
<1>13. Copies(r)'
  <2> SUFFICES ASSUME rpc[r] = "copy"
               PROVE  /\ Tree(file', metas'[slot[r] % 2].root) \in current'[r]
                      /\ (Guard(TreePages(file, SlotRead(r)), slot[r]))'
    BY DEF Copies, SlotRead
  <2>1. PICK root \in Place : root = metas[slot[r] % 2].root
    BY <1>10 DEF SlotRead
  <2>2. Tree(file, root) \in current[r] /\ Guard(TreePages(file, root), slot[r])
    BY <2>1 DEF Attended, Copies, SlotRead
  <2>3. Tree(file', root) = Tree(file, root) /\ (Guard(TreePages(file, root), slot[r]))'
    BY <1>12, <2>2
  <2>4. CASE metas'[slot[r] % 2] = metas[slot[r] % 2]
    <3>1. metas'[slot[r] % 2].root = root
      BY <2>1, <2>4
    <3> QED
      BY <2>2, <2>3, <3>1 DEF SlotRead
  <2>5. CASE metas'[slot[r] % 2] # metas[slot[r] % 2]
    <3>1. WriteMeta /\ metas'[slot[r] % 2] = NewMeta
      BY <1>1, <1>10, <2>5
    <3>2. metas'[slot[r] % 2].root = txn.root /\ Newest(metas)'.root = txn.root
      BY <1>1, <3>1
    <3>3. Tree(file', txn.root) \in current'[r]
      BY <1>1, <3>1 DEF Begins
    <3>4. Inv'
      BY InvStep
    <3>5. (\A s \in Int : s <= Newest(metas).txnid + 1 =>
               Guard(TreePages(file, Newest(metas).root), s))'
      BY <3>4, NextGuard
    <3>6. slot[r] \in Int /\ slot[r] <= Newest(metas)'.txnid + 1
      BY <1>1, <1>2, <1>10, <3>1
    <3>7. (Guard(TreePages(file, Newest(metas).root), slot[r]))'
      BY <3>5, <3>6
    <3> QED
      BY <3>2, <3>3, <3>7 DEF SlotRead
  <2> QED
    BY <2>4, <2>5
<1>14. Reading(r)'
  <2> SUFFICES ASSUME rpc[r] = "in"
               PROVE  /\ Tree(file', rroot[r]) = view[r] /\ view[r] \in current'[r]
                      /\ (Guard(TreePages(file, rroot[r]), slot[r]))'
    BY DEF Reading
  <2>1. PICK root \in Place : root = rroot[r]
    BY <1>10
  <2>2. Tree(file, root) = view[r] /\ view[r] \in current[r] /\ Guard(TreePages(file, root), slot[r])
    BY <2>1 DEF Attended, Reading
  <2>3. Tree(file', root) = Tree(file, root) /\ (Guard(TreePages(file, root), slot[r]))'
    BY <1>12, <2>2
  <2> QED
    BY <2>1, <2>2, <2>3
<1> QED
  BY <1>9, <1>11, <1>13, <1>14 DEF Attended

(* What the readers do does not touch what is kept.                        *)
LEMMA SameGuard ==
    ASSUME UNCHANGED <<file, metas, pc, txn>>, NEW CONSTANT P, NEW CONSTANT s
    PROVE  Guard(P, s)' <=> Guard(P, s)
<1>1. Image(txn)' = Image(txn) /\ Newest(metas)' = Newest(metas)
  BY DEF Image, At, Newest
<1> QED
  BY <1>1 DEF Guard, Working, Written

(* A reader's own step: the slot it checked to be the last commit's keeps  *)
(* the tree it goes on to copy.                                            *)
LEMMA OwnStep ==
    ASSUME Inv, CurrentKept, NEW CONSTANT r \in Reader, Attended(r), ReaderNext(r),
           DOMAIN view = Reader, DOMAIN current = Reader
    PROVE  Attended(r)'
<1>0. Shape /\ Numbers /\ MetaRel /\ Stage
  BY DEF Inv
<1>1. /\ UNCHANGED <<disks, locks, pc, txn, begun, writes, scenario>>
      /\ file' = file /\ metas' = metas /\ pc' = pc /\ txn' = txn /\ mti_txnid' = mti_txnid
  BY DEF ReaderNext, BeginRead, LoadTxnid, StoreSlot, CheckTxnid, CopyMeta, EndRead, disks, locks
<1>2. Newest(metas)' = Newest(metas)
  BY <1>1 DEF Newest
<1>3. /\ rpc \in [Reader -> {"out", "load", "store", "check", "copy", "in"}]
      /\ slot \in [Reader -> Ids \cup {NoSlot}] /\ rroot \in [Reader -> Page \cup {Invalid}]
  BY <1>0 DEF Shape, TypeOK
<1>4. CASE BeginRead(r)
  <2>1. /\ rpc' = [rpc EXCEPT ![r] = "load"]
        /\ current' = [current EXCEPT ![r] = {Tree(file, metas[mti_txnid % 2].root),
                                              Tree(file, Newest(metas).root)}]
    BY <1>4 DEF BeginRead
  <2> QED
    BY <1>1, <1>2, <1>3, <2>1 DEF Attended, Offered, Begins, SlotKept, Copies, Reading
<1>5. CASE LoadTxnid(r) \/ StoreSlot(r)
  <2>1. rpc[r] \in {"load", "store"} /\ rpc'[r] \in {"store", "check"} /\ current' = current
    BY <1>3, <1>5 DEF LoadTxnid, StoreSlot
  <2> QED
    BY <1>1, <1>2, <2>1 DEF Attended, Offered, Begins, SlotKept, Copies, Reading
<1>6. CASE CheckTxnid(r)
  <2>1. /\ rpc[r] = "check" /\ rpc'[r] = (IF slot[r] = mti_txnid THEN "copy" ELSE "load")
        /\ current' = current /\ slot' = slot
    BY <1>3, <1>6 DEF CheckTxnid
  <2>2. Offered(r)'
    BY <1>1, <1>2, <2>1 DEF Attended, Offered, Begins
  <2>3. SlotKept(r)'
    <3>1. mti_txnid \in Nat /\ txn.pgoldest <= mti_txnid
      BY <1>0, MetaFacts DEF Numbers
    <3>2. mti_txnid # NoSlot /\ mti_txnid <= mti_txnid
      BY <3>1 DEF NoSlot
    <3> QED
      BY <1>1, <2>1, <3>1, <3>2 DEF SlotKept
  <2>4. Copies(r)'
    <3> SUFFICES ASSUME slot[r] = mti_txnid
                 PROVE  /\ Tree(file, metas[mti_txnid % 2].root) \in current[r]
                        /\ (Guard(TreePages(file, SlotRead(r)), slot[r]))'
      BY <1>1, <2>1 DEF Copies, SlotRead
    <3>1. PICK P : P = TreePages(file, metas[mti_txnid % 2].root)
      OBVIOUS
    <3>2. PICK s \in Nat : s = mti_txnid
      BY <1>0, MetaFacts
    <3>3. P \in SUBSET P /\ s \in Int /\ s + 1 \in Int /\ s <= s + 1
      OBVIOUS
    <3>4. Guard(P, s)
      BY <1>0, <3>1, <3>2, <3>3, GuardLess DEF CurrentKept
    <3>5. Guard(P, s)'
      BY <1>1, <3>4, SameGuard
    <3>6. TreePages(file, SlotRead(r))' = P /\ slot'[r] = s
      BY <1>1, <2>1, <3>1, <3>2 DEF SlotRead
    <3>7. (Guard(TreePages(file, SlotRead(r)), slot[r]))'
      BY <3>5, <3>6
    <3> QED
      BY <2>1, <3>7 DEF Attended, Offered, Begins
  <2> QED
    BY <2>1, <2>2, <2>3, <2>4 DEF Attended, Reading
<1>7. CASE CopyMeta(r)
  <2>1. /\ rpc[r] = "copy" /\ slot' = slot /\ current' = current
        /\ rroot' = [rroot EXCEPT ![r] = SlotRead(r)]
        /\ view' = [view EXCEPT ![r] = Tree(file, SlotRead(r))]
    BY <1>7 DEF CopyMeta, SlotRead
  <2>2. rpc'[r] = "in"
    BY <1>3, <1>7 DEF CopyMeta
  <2>3. rroot'[r] = SlotRead(r) /\ view'[r] = Tree(file, SlotRead(r))
    BY <1>3, <2>1
  <2>4. view'[r] \in current[r] /\ Guard(TreePages(file, SlotRead(r)), slot[r])
    BY <2>1, <2>3 DEF Attended, Copies
  <2>5. PICK P : P = TreePages(file, SlotRead(r))
    OBVIOUS
  <2>6. PICK s : s = slot[r]
    OBVIOUS
  <2>7. Guard(P, s)'
    BY <1>1, <2>4, <2>5, <2>6, SameGuard
  <2>8. TreePages(file, rroot[r])' = P /\ slot'[r] = s
    BY <1>1, <2>1, <2>3, <2>5, <2>6
  <2>9. (Guard(TreePages(file, rroot[r]), slot[r]))'
    BY <2>7, <2>8
  <2>10. Reading(r)'
    BY <1>1, <2>1, <2>3, <2>4, <2>9 DEF Reading
  <2>11. SlotKept(r)'
    BY <1>1, <2>1, <2>2 DEF Attended, SlotKept
  <2> QED
    BY <2>2, <2>10, <2>11 DEF Attended, Offered, Begins, Copies
<1>8. CASE EndRead(r)
  <2>1. rpc'[r] = "out"
    BY SMTT(40), <1>3, <1>8 DEF EndRead
  <2> QED
    BY <2>1 DEF Attended, Offered, Begins, SlotKept, Copies, Reading
<1> QED
  BY <1>4, <1>5, <1>6, <1>7, <1>8 DEF ReaderNext

(* Without failed writes of a meta page, the readers keep their snapshots. *)
LEMMA ReadStep ==
    ASSUME Inv, ReadInv, Next
    PROVE  ReadInv'
<1>1. scenario' = scenario
  BY ZenonT(60) DEF Next, WriterNext, Faults, ReaderNext, Begin, Put, Del, WriteFails, Abort, Commit,
         SaveDrop, SaveFreed, SaveReserve, SaveStep, SaveFill, SaveFails, Flush, Sync, WriteMeta, Publish,
         FlushFails, SyncFails, MetaFails, Die, PowerLoss, RecoverMutex, Reopen,
         BeginRead, LoadTxnid, StoreSlot, CheckTxnid, CopyMeta, EndRead
<1> SUFFICES ASSUME "meta" \notin scenario.failures
             PROVE  Snapshots'
  BY <1>1 DEF ReadInv
<1>2. Snapshots /\ ~MetaFails /\ Shape /\ Numbers /\ Stage
  BY DEF ReadInv, MetaFails, Inv
<1>3. CurrentKept'
  BY <1>2, CurrentStep DEF Snapshots
<1>4. CASE PowerLoss
  <2>1. DOMAIN view' = Reader /\ DOMAIN current' = Reader /\ \A r \in Reader : rpc'[r] = "out"
    BY <1>2, <1>4 DEF PowerLoss, Snapshots
  <2>2. \A r \in Reader : Attended(r)'
    BY <2>1 DEF Attended, Offered, Begins, SlotKept, Copies, Reading
  <2> QED
    BY <1>3, <2>1, <2>2 DEF Snapshots
<1>5. CASE Reads
  <2>1. PICK q \in Reader : ReaderNext(q)
    BY <1>5 DEF Reads
  <2>2. pc' = pc /\ UNCHANGED <<disks, locks>>
    BY <1>5 DEF Reads
  <2>3. ~WriteMeta
    BY <2>2 DEF WriteMeta
  <2>4. CASE PowerLoss
    BY <1>4, <2>4
  <2>5. CASE ~PowerLoss
    <3>1. DOMAIN view = Reader /\ DOMAIN current = Reader /\ \A r \in Reader : Attended(r)
      BY <1>2 DEF Snapshots
    <3>2. DOMAIN view' = Reader /\ DOMAIN current' = Reader
      BY <2>1, <3>1 DEF ReaderNext, BeginRead, LoadTxnid, StoreSlot, CheckTxnid, CopyMeta, EndRead
    <3>3. Attended(q)'
      BY <1>2, <2>1, <3>1, OwnStep DEF Snapshots
    <3>4. ASSUME NEW CONSTANT r \in Reader, r # q PROVE Attended(r)'
      <4>1. /\ rpc'[r] = rpc[r] /\ slot'[r] = slot[r] /\ rroot'[r] = rroot[r] /\ view'[r] = view[r]
            /\ current'[r] = current[r]
        BY <1>2, <2>1, <3>1, <3>4 DEF ReaderNext, BeginRead, LoadTxnid, StoreSlot, CheckTxnid, CopyMeta,
                                      EndRead, Shape, TypeOK
      <4> QED
        BY SMTT(40), <1>2, <2>3, <2>5, <3>1, <4>1, AttendedStep DEF Snapshots
    <3> QED
      BY <1>3, <3>2, <3>3, <3>4 DEF Snapshots
  <2> QED
    BY <2>4, <2>5
<1>6. CASE ~PowerLoss /\ ~Reads
  <2>1. /\ rpc' = rpc /\ slot' = slot /\ rroot' = rroot /\ view' = view
        /\ current' = current \/ (WriteMeta /\ Visible)
        /\ WriteMeta => Visible
    BY ZenonT(60), <1>2, <1>6, Kinds DEF Begin, Works, Spoils, Ends, Fills, Publish, RecoverMutex, Reopen, readers,
                             Sync, Flush, FlushFails, WriteMeta
  <2>2. DOMAIN view' = Reader /\ DOMAIN current' = Reader
    BY <1>2, <2>1 DEF Snapshots, Visible
  <2>3. ASSUME NEW CONSTANT r \in Reader PROVE Attended(r)'
    <3>1. current[r] \subseteq current'[r] /\ (WriteMeta /\ Begins(r) => Tree(file, txn.root) \in current'[r])
      BY <2>1 DEF Visible, Begins
    <3> QED
      BY <1>2, <1>6, <2>1, <3>1, AttendedStep DEF Snapshots
  <2> QED
    BY SMTT(40), <1>3, <2>2, <2>3 DEF Snapshots
<1> QED
  BY SMTT(40), <1>4, <1>5, <1>6

(* No reader has begun.                                                    *)
LEMMA InitRead == Init => ReadInv
<1> SUFFICES ASSUME Init PROVE Snapshots
  BY DEF ReadInv
<1>1. DOMAIN view = Reader /\ DOMAIN current = Reader /\ \A r \in Reader : rpc[r] = "out"
  BY DEF Init
<1>2. \A r \in Reader : Attended(r)
  BY <1>1 DEF Attended, Offered, Begins, SlotKept, Copies, Reading
<1>3. CurrentKept
  <2>1. Inv /\ Numbers /\ Shape
    BY InitInv DEF Inv
  <2>2. Newest(metas) = metas[mti_txnid % 2] /\ Newest(metas).txnid = mti_txnid /\ mti_txnid \in Nat
    BY <2>1, MetaFacts DEF Init
  <2>3. mti_txnid + 1 \in Int /\ mti_txnid + 1 <= mti_txnid + 1
    BY <2>2
  <2> QED
    BY <2>1, <2>2, <2>3, NewestGuard DEF CurrentKept
<1> QED
  BY <1>1, <1>2, <1>3 DEF Snapshots

(* A step that changes nothing.                                            *)
LEMMA ReadStutter ==
    ASSUME Inv, ReadInv, UNCHANGED vars
    PROVE  ReadInv'
<1> SUFFICES ASSUME Snapshots PROVE Snapshots'
  BY DEF ReadInv, vars
<1>1. /\ UNCHANGED <<file, metas, pc, txn>> /\ mti_txnid' = mti_txnid
      /\ rpc' = rpc /\ slot' = slot /\ rroot' = rroot /\ view' = view /\ current' = current
  BY DEF vars, disks, locks, readers
<1>2. Newest(metas)' = Newest(metas)
  BY <1>1 DEF Newest
<1>3. \A P, s : Guard(P, s)' <=> Guard(P, s)
  BY <1>1, SameGuard
<1>4. CurrentKept'
  BY <1>1, <1>3 DEF Snapshots, CurrentKept
<1>5. ASSUME NEW CONSTANT r \in Reader PROVE Attended(r)'
  <2>1. Attended(r)
    BY DEF Snapshots
  <2>2. Offered(r)' /\ SlotKept(r)'
    BY <1>1, <1>2, <2>1 DEF Attended, Offered, Begins, SlotKept
  <2>3. Copies(r)'
    BY <1>1, <1>3, <2>1 DEF Attended, Copies, SlotRead
  <2>4. Reading(r)'
    BY <1>1, <1>3, <2>1 DEF Attended, Reading
  <2> QED
    BY <2>2, <2>3, <2>4 DEF Attended
<1> QED
  BY <1>1, <1>4, <1>5 DEF Snapshots

(* The readers' invariant is one.                                          *)
LEMMA ReadHolds == Spec => []ReadInv
<1>1. Inv /\ ReadInv /\ [Next]_vars => ReadInv'
  BY ReadStep, ReadStutter
<1> QED
  BY InitRead, InvHolds, <1>1, PTL DEF Spec

-----------------------------------------------------------------------------
(* What it comes to.                                                       *)

(* Every variable stays in its type, over every crash: txnids do not pass  *)
(* the transactions begun, and no page number leaves the map.              *)
THEOREM TypeCorrect == Spec => []TypeOK
<1>1. Inv => TypeOK
  BY DEF Inv, Shape
<1> QED
  BY InvHolds, <1>1, PTL

(* mdb.c, mdb_mutex_failed: "Keep mti_txnid updated, otherwise next writer *)
(* can overwrite data which latest meta page refers to."  Who takes the    *)
(* writer's mutex finds the txnid of the newest meta page in the lock file,*)
(* also after a writer that died between its meta page and the lock file.  *)
THEOREM LockFileFollows == Spec => []TxnidUpdated
<1>1. Inv => TxnidUpdated
  BY MetaFacts DEF Inv, Numbers, TxnidUpdated
<1> QED
  BY InvHolds, <1>1, PTL

(* mdb_page_alloc: no page a reader's tree stands on is taken, over any    *)
(* number of commits, dead writers and failed writes, as long as no write  *)
(* of a meta page fails.                                                   *)
THEOREM ReadersKeepSnapshots == Spec => []("meta" \notin scenario.failures => SnapshotIntact)
<1>1. ReadInv => ("meta" \notin scenario.failures => SnapshotIntact)
  BY DEF ReadInv, Snapshots, Attended, Reading, SnapshotIntact
<1> QED
  BY ReadHolds, <1>1, PTL

(* mdb_txn_renew0: a reader that found its slot to be the last commit's    *)
(* copies a meta page that was current since it began, even where the page *)
(* is written between.                                                     *)
THEOREM ReadersReadCommits == Spec => []("meta" \notin scenario.failures => SnapshotIsCommitted)
<1>1. ReadInv => ("meta" \notin scenario.failures => SnapshotIsCommitted)
  BY DEF ReadInv, Snapshots, Attended, Reading, SnapshotIsCommitted
<1> QED
  BY ReadHolds, <1>1, PTL

(* The next transaction may read every record of a meta page that is whole.*)
LEMMA WholeRecords ==
    ASSUME NEW g \in [Page -> Contents], NEW m \in Metas, Whole(g, m)
    PROVE  LET recs == RecordsIn(g, m.freeRoot)
           IN  /\ Pool(g, Opening(m)) = DOMAIN recs /\ DOMAIN recs \subseteq Ids
               /\ \A i \in DOMAIN recs : recs[i] \subseteq Page
<1> DEFINE o == Opening(m)
           recs == RecordsIn(g, m.freeRoot)
<1>1. o.freeRoot = m.freeRoot /\ o.pglast = 0 /\ o.id = m.txnid + 1
  BY OpeningFields
<1>2. m.freeRoot \in Place /\ m.txnid \in Nat
  BY PagesOfType
<1>3. Dated(recs, m.txnid)
  BY DEF Whole
<1> HIDE DEF o
<1>4. /\ DOMAIN recs \subseteq Ids /\ \A i \in DOMAIN recs : recs[i] \subseteq Page
  <2>1. CASE m.freeRoot = Invalid
    BY <2>1, EmptyMaps DEF RecordsIn
  <2>2. CASE m.freeRoot # Invalid
    <3>1. g[m.freeRoot].recs \in Recs
      BY <1>2, <2>2 DEF Place, Contents
    <3> QED
      BY <2>2, <3>1 DEF RecordsIn, Recs
  <2> QED
    BY <2>1, <2>2
<1>5. \A i \in DOMAIN recs : i \in Pool(g, o)
  <2> SUFFICES ASSUME NEW i \in DOMAIN recs PROVE i \in Pool(g, o)
    OBVIOUS
  <2>1. i \in Nat /\ 0 < i /\ i <= m.txnid
    BY <1>3, <1>4, Bounds DEF Dated
  <2>2. i # m.txnid + 1
    BY <1>2, <2>1
  <2> QED
    BY <1>1, <2>1, <2>2 DEF Pool
<1>6. Pool(g, o) = DOMAIN recs
  BY <1>1, <1>5 DEF Pool
<1> QED
  BY <1>4, <1>6 DEF o

(* Places that are those of a transaction, where no page is in two and no  *)
(* page is in none, make up its pages.                                     *)
LEMMA Parted ==
    ASSUME NEW g, NEW t, Once(g, t), Missing(g, t) = {}, t.next \in 2 .. MaxPg, NEW parts,
           \A q \in parts : q[1] \in Spot /\ \A p \in q[2] : p \in Page /\ Has(g, t, p, q[1]),
           \A p \in Page : \A i \in Spot : Has(g, t, p, i) => \E q \in parts : p \in q[2]
    PROVE  Partition(parts, 2 .. t.next - 1)
<1>1. ASSUME NEW q \in parts, NEW p \in q[2] PROVE p \in 2 .. t.next - 1
  <2>1. p \in Page /\ p < t.next
    BY <1>1 DEF Once
  <2> QED
    BY <2>1, Bounds
<1>2. ASSUME NEW p \in 2 .. t.next - 1 PROVE \E q \in parts : p \in q[2]
  <2>1. p \in Page /\ p < t.next
    BY Bounds
  <2>2. PICK i \in Spot : Has(g, t, p, i)
    BY <2>1 DEF Missing
  <2> QED
    BY <2>1, <2>2
<1>3. UNION {q[2] : q \in parts} = 2 .. t.next - 1
  BY ZenonT(60), <1>1, <1>2
<1>4. ASSUME NEW q \in parts, NEW r \in parts, q[1] # r[1] PROVE q[2] \cap r[2] = {}
  BY <1>4 DEF Once
<1> QED
  BY <1>3, <1>4 DEF Partition

(* Every page of a meta page that is whole is in its tree, is the root of  *)
(* the freeDB or is in one record of it.                                   *)
LEMMA WholeParted ==
    ASSUME NEW g \in [Page -> Contents], NEW m \in Metas, Whole(g, m)
    PROVE  Audit(g, m)
<1> DEFINE o == Opening(m)
           recs == RecordsIn(g, m.freeRoot)
           parts == {<<-1, TreePages(g, m.root)>>, <<-2, {m.freeRoot} \ {Invalid}>>}
                       \cup Recorded(recs, DOMAIN recs)
<1>1. /\ o.root = m.root /\ o.freeRoot = m.freeRoot /\ o.next = m.last + 1
      /\ o.pghead = {} /\ o.freed = {} /\ o.loose = <<>>
  BY OpeningFields
<1>2. /\ TreePages(g, m.root) \subseteq Page /\ m.freeRoot \in Place
      /\ m.last \in Nat /\ o.next \in 2 .. MaxPg
  <2>1. TreePages(g, m.root) \subseteq Page /\ m.freeRoot \in Place /\ m.last + 1 \in 2 .. MaxPg
    BY PagesOfType
  <2>2. m.last \in Nat
    BY Bounds DEF Metas
  <2> QED
    BY <1>1, <2>1, <2>2
<1>3. /\ Pool(g, o) = DOMAIN recs /\ DOMAIN recs \subseteq Ids
      /\ \A i \in DOMAIN recs : recs[i] \subseteq Page
  BY WholeRecords
<1>4. Once(g, o) /\ Missing(g, o) = {}
  BY DEF Whole
<1> HIDE DEF o, recs
<1>5. -1 \in Spot /\ -2 \in Spot /\ Ids \subseteq Spot
  BY Bounds DEF Spot
<1>6. RecordsIn(g, o.freeRoot) = recs /\ ToSet(o.loose) = {}
  BY <1>1 DEF recs, ToSet
<1>7. ASSUME NEW q \in parts
      PROVE  q[1] \in Spot /\ \A p \in q[2] : p \in Page /\ Has(g, o, p, q[1])
  <2>1. CASE q = <<-1, TreePages(g, m.root)>>
    BY <1>1, <1>2, <1>5, <2>1 DEF Has
  <2>2. CASE q = <<-2, {m.freeRoot} \ {Invalid}>>
    BY <1>1, <1>2, <1>5, <2>2 DEF Has, Place
  <2>3. ASSUME NEW i \in DOMAIN recs, q = <<i, recs[i]>>
        PROVE  q[1] \in Spot /\ \A p \in q[2] : p \in Page /\ Has(g, o, p, q[1])
    BY <1>3, <1>5, <1>6, <2>3 DEF Has
  <2> QED
    BY <2>1, <2>2, <2>3 DEF Recorded
<1>8. ASSUME NEW p \in Page, NEW i \in Spot, Has(g, o, p, i) PROVE \E q \in parts : p \in q[2]
  <2>0. <<-1, TreePages(g, m.root)>> \in parts /\ <<-2, {m.freeRoot} \ {Invalid}>> \in parts
    OBVIOUS
  <2>1. CASE p \in TreePages(g, m.root)
    BY <2>0, <2>1
  <2>2. CASE p = m.freeRoot
    BY <2>0, <2>2, Bounds
  <2>3. CASE i \in DOMAIN recs /\ p \in recs[i]
    <3>1. <<i, recs[i]>> \in parts
      BY <2>3 DEF Recorded
    <3> HIDE DEF parts
    <3> QED
      BY <2>3, <3>1
  <2> HIDE DEF parts
  <2> QED
    BY <1>1, <1>3, <1>6, <1>8, <2>1, <2>2, <2>3 DEF Has
<1> HIDE DEF parts
<1>9. Partition(parts, 2 .. o.next - 1)
  BY <1>2, <1>4, <1>7, <1>8, Parted
<1>10. o.next - 1 = m.last
  BY <1>1, <1>2
<1> QED
  BY <1>9, <1>10 DEF Audit, parts, recs

(* And every page of a transaction is there besides among those it took,   *)
(* those it freed or the loose ones.                                       *)
LEMMA TxnParted ==
    ASSUME Shape, Once(Image(txn), txn), Missing(Image(txn), txn) = {}
    PROVE  TxnOnce
<1> DEFINE f == Image(txn)
           recs == RecordsIn(f, txn.freeRoot)
           ids == {id \in DOMAIN recs : txn.pglast < id /\ id # txn.id}
           parts == {<<-1, TreePages(f, txn.root)>>, <<-2, {txn.freeRoot} \ {Invalid}>>,
                     <<-3, txn.pghead>>, <<-4, txn.freed>>, <<-5, ToSet(txn.loose)>>}
                       \cup Recorded(recs, ids)
<1>1. txn \in Txns
  BY DEF Shape
<1>2. /\ txn.root \in Place /\ txn.freeRoot \in Place /\ txn.next \in 2 .. MaxPg
      /\ txn.pghead \subseteq Page /\ txn.freed \subseteq Page
  BY <1>1 DEF Txns
<1>3. f \in [Page -> Contents] /\ recs = Records(txn)
  BY <1>1, ImageFacts
<1>4. /\ TreePages(f, txn.root) \subseteq Page /\ ToSet(txn.loose) \subseteq Page
      /\ \A i \in DOMAIN recs : i \in Ids /\ recs[i] \subseteq Page
  <2>1. TreePages(f, txn.root) \subseteq Page
    BY <1>2, <1>3, TreeType
  <2>2. recs \in Recs
    BY <1>1, <1>3, RecordsType
  <2>3. ToSet(txn.loose) \subseteq Page
    BY DEF Shape, TypeOK
  <2> QED
    BY <2>1, <2>2, <2>3 DEF Recs
<1>5. ids = Pool(f, txn)
  BY DEF Pool
<1>6. {-1, -2, -3, -4, -5} \subseteq Spot /\ Ids \subseteq Spot
  BY Bounds DEF Spot
<1> HIDE DEF f, ids
<1>7. ASSUME NEW q \in parts
      PROVE  q[1] \in Spot /\ \A p \in q[2] : p \in Page /\ Has(f, txn, p, q[1])
  <2>1. CASE q = <<-1, TreePages(f, txn.root)>>
    BY <1>4, <1>6, <2>1 DEF Has
  <2>2. CASE q = <<-2, {txn.freeRoot} \ {Invalid}>>
    BY <1>2, <1>6, <2>2 DEF Has, Place
  <2>3. CASE q = <<-3, txn.pghead>>
    BY <1>2, <1>6, <2>3 DEF Has
  <2>4. CASE q = <<-4, txn.freed>>
    BY <1>2, <1>6, <2>4 DEF Has
  <2>5. CASE q = <<-5, ToSet(txn.loose)>>
    BY <1>4, <1>6, <2>5 DEF Has
  <2>6. ASSUME NEW i \in ids, q = <<i, recs[i]>>
        PROVE  q[1] \in Spot /\ \A p \in q[2] : p \in Page /\ Has(f, txn, p, q[1])
    <3>1. i \in DOMAIN recs
      BY <1>5 DEF Pool
    <3> QED
      BY <1>4, <1>5, <1>6, <2>6, <3>1 DEF Has
  <2> HIDE DEF recs
  <2> QED
    BY <2>1, <2>2, <2>3, <2>4, <2>5, <2>6 DEF Recorded
<1>8. ASSUME NEW p \in Page, NEW i \in Spot, Has(f, txn, p, i) PROVE \E q \in parts : p \in q[2]
  <2>0. /\ <<-1, TreePages(f, txn.root)>> \in parts /\ <<-2, {txn.freeRoot} \ {Invalid}>> \in parts
        /\ <<-3, txn.pghead>> \in parts /\ <<-4, txn.freed>> \in parts
        /\ <<-5, ToSet(txn.loose)>> \in parts
    OBVIOUS
  <2>1. CASE p \in TreePages(f, txn.root)
    <3> HIDE DEF parts
    <3> QED
      BY <2>0, <2>1
  <2>2. CASE p = txn.freeRoot
    <3> HIDE DEF parts
    <3> QED
      BY <2>0, <2>2, Bounds
  <2>3. CASE p \in txn.pghead \/ p \in txn.freed \/ p \in ToSet(txn.loose)
    <3> HIDE DEF parts
    <3> QED
      BY <2>0, <2>3
  <2>4. CASE i \in ids /\ p \in recs[i]
    <3> HIDE DEF recs
    <3>1. <<i, recs[i]>> \in parts
      BY <2>4 DEF Recorded
    <3> HIDE DEF parts
    <3> QED
      BY <2>4, <3>1
  <2> HIDE DEF parts
  <2> QED
    BY <1>5, <1>8, <2>1, <2>2, <2>3, <2>4 DEF Has
<1> HIDE DEF parts
<1>9. Once(f, txn) /\ Missing(f, txn) = {}
  BY DEF f
<1>10. Partition(parts, 2 .. txn.next - 1)
  BY <1>2, <1>7, <1>8, <1>9, Parted
<1> QED
  BY <1>10 DEF TxnOnce, parts, recs, ids, f, Image

(* mdb_audit: over any number of transactions, failed writes, dead writers *)
(* and power losses no page of the file or of the disk is lost, none is    *)
(* used twice, and in a transaction each is in one of its lists besides.   *)
THEOREM NoPageLost == Spec => []PagesOnce
<1>1. Inv => PagesOnce
  <2> SUFFICES ASSUME Inv PROVE PagesOnce
    OBVIOUS
  <2>1. /\ Shape /\ Numbers /\ Stage /\ TypeOK
        /\ file \in [Page -> Contents] /\ disk \in [Page -> Contents]
        /\ Kept(Newest(metas)) /\ Kept(Newest(diskMetas))
    BY DEF Inv, Shape
  <2>2. Newest(metas) \in Metas /\ Newest(diskMetas) \in Metas
    BY <2>1, MetaFacts
  <2>3. CommittedOnce
    <3>1. Whole(file, Newest(metas)) /\ Whole(disk, Newest(diskMetas))
      BY <2>1, <2>2, SamePages DEF Kept
    <3> QED
      BY <2>1, <2>2, <3>1, WholeParted DEF CommittedOnce
  <2>4. CASE Working
    <3>1. Once(Image(txn), txn) /\ Missing(Image(txn), txn) = {}
      BY <2>1, <2>4 DEF Stage
    <3> QED
      BY <2>1, <2>3, <3>1, TxnParted DEF PagesOnce
  <2>5. CASE ~Working
    <3>1. TxnOnce
      BY <2>5 DEF TxnOnce, Working
    <3> QED
      BY <2>1, <2>3, <3>1 DEF PagesOnce
  <2> QED
    BY <2>4, <2>5
<1> QED
  BY InvHolds, <1>1, PTL

-----------------------------------------------------------------------------
(* The refinement of LmdbStoreSpec.                                        *)

(* What is on disk of the newest meta page there is what the file has.     *)
LEMMA OnDisk ==
    ASSUME Shape, NEW m \in Metas, Kept(m)
    PROVE  Tree(disk, m.root) = Tree(file, m.root)
<1>1. file \in [Page -> Contents] /\ disk \in [Page -> Contents]
  BY DEF Shape
<1>2. \A p \in PagesOf(file, m) : disk[p] = file[p]
  BY DEF Kept
<1> QED
  BY <1>1, <1>2, SamePages

(* What is committed and durable, in the file.                             *)
LEMMA StoreIs ==
    Inv => /\ Tree(disk, Newest(diskMetas).root) = Tree(file, Newest(diskMetas).root)
           /\ Newest(diskMetas) \in Metas /\ Newest(metas) \in Metas
<1> SUFFICES ASSUME Inv
             PROVE  /\ Tree(disk, Newest(diskMetas).root) = Tree(file, Newest(diskMetas).root)
                    /\ Newest(diskMetas) \in Metas /\ Newest(metas) \in Metas
  OBVIOUS
<1>1. Shape /\ Numbers /\ Kept(Newest(diskMetas))
  BY DEF Inv
<1>2. Newest(diskMetas) \in Metas /\ Newest(metas) \in Metas
  BY <1>1, MetaFacts
<1> QED
  BY <1>1, <1>2, OnDisk

(* What is durable after a step, in the file.                              *)
LEMMA StoreNext == Inv' => Tree(disk, Newest(diskMetas).root)' = Tree(file', Newest(diskMetas)'.root)
<1>1. (Inv => Tree(disk, Newest(diskMetas).root) = Tree(file, Newest(diskMetas).root))'
  BY StoreIs, PTL
<1>2. Tree(file, Newest(diskMetas).root)' = Tree(file', Newest(diskMetas)'.root)
  BY DEF Tree
<1> QED
  BY <1>1, <1>2

(* No step but a power loss touches the content of either meta page.       *)
LEMMA ContentStays ==
    ASSUME Inv, Next, ~PowerLoss, NEW m \in {Newest(metas), Newest(diskMetas)}
    PROVE  Tree(file', m.root) = Tree(file, m.root)
<1>1. Shape /\ Numbers /\ Stage /\ Kept(m)
  BY DEF Inv
<1>2. m \in Metas
  BY <1>1, MetaFacts
<1>3. file \in [Page -> Contents] /\ file' \in [Page -> Contents]
      /\ \A p \in PagesOf(file, m) : file'[p] = file[p]
  BY <1>1, <1>2, KeptFile DEF Shape
<1> QED
  BY <1>2, <1>3, SamePages

(* The variables of the abstract store.                                    *)
Stored  == Tree(file, Newest(metas).root)
Durable == Tree(disk, Newest(diskMetas).root)

(* A commit and a sync apart, no step changes what is stored and durable.  *)
LEMMA StoredStays ==
    ASSUME Inv, Inv', Next, ~PowerLoss, ~WriteMeta
    PROVE  Stored' = Stored /\ (~Sync => Durable' = Durable) /\ (Sync => Durable' = Stored)
<1>1. Shape /\ Numbers /\ Stage
  BY DEF Inv
<1>2. Newest(metas)' = Newest(metas)
  BY <1>1, NewestSame
<1>3. Tree(file', Newest(metas).root) = Tree(file, Newest(metas).root)
  BY ContentStays
<1>4. Stored' = Stored
  BY <1>2, <1>3 DEF Stored, Tree
<1>5. Durable' = Tree(file', Newest(diskMetas)'.root)
  BY StoreNext DEF Durable
<1>6. ASSUME ~Sync PROVE Durable' = Durable
  <2>1. diskMetas' = diskMetas
    BY ZenonT(60), <1>1, <1>6, Kinds DEF Begin, Works, Spoils, Ends, Fills, Publish, RecoverMutex, Reopen,
                             Reads, disks, MetaFails, Flush, FlushFails
  <2>2. Newest(diskMetas)' = Newest(diskMetas)
    BY <2>1 DEF Newest
  <2>3. Tree(file', Newest(diskMetas).root) = Tree(file, Newest(diskMetas).root)
    BY ContentStays
  <2> QED
    BY SMTT(40), <1>5, <2>2, <2>3, StoreIs DEF Durable
<1>7. ASSUME Sync PROVE Durable' = Stored
  <2>1. diskMetas' = metas
    BY <1>7 DEF Sync
  <2>2. Newest(diskMetas)' = Newest(metas)
    BY <2>1 DEF Newest
  <2> QED
    BY <1>3, <1>5, <2>2 DEF Stored
<1> QED
  BY <1>4, <1>6, <1>7

(* What a transaction makes of the database gives every key a value.       *)
LEMMA TreeValues ==
    ASSUME NEW g \in [Page -> Contents], NEW root \in Place
    PROVE  Tree(g, root) \in [Key -> 0 .. MaxWrites]
<1>1. ASSUME NEW k \in Key, root # Invalid, g[root].child[k] # Invalid
      PROVE  g[g[root].child[k]].val \in 0 .. MaxWrites
  <2>1. g[root].child[k] \in Page
    BY <1>1, TreeType DEF Place
  <2> QED
    BY <2>1 DEF Contents
<1>2. Absent \in 0 .. MaxWrites
  BY Bounds DEF Absent
<1> QED
  BY <1>1, <1>2 DEF Tree

(* A transaction is none only where there are no keys.                     *)
LEMMA PendingIs ==
    ASSUME Shape
    PROVE  /\ pc = "idle" => Pending = Store!NoTxn
           /\ pc # "idle" => Pending = Tree(Image(txn), txn.root)
           /\ pc # "idle" /\ Key # {} => Pending # Store!NoTxn
<1>1. pc = "idle" => Pending = Store!NoTxn
  BY DEF Pending, Store!NoTxn
<1>2. pc # "idle" => Pending = Tree(Image(txn), txn.root)
  BY DEF Pending, Image
<1>3. ASSUME pc # "idle", NEW k \in Key PROVE Pending # Store!NoTxn
  <2>1. txn \in Txns /\ txn.root \in Place /\ Image(txn) \in [Page -> Contents]
    BY ImageFacts DEF Shape, Txns
  <2>2. Tree(Image(txn), txn.root) \in [Key -> 0 .. MaxWrites]
    BY <2>1, TreeValues
  <2>3. Pending[k] \in 0 .. MaxWrites
    BY <1>2, <1>3, <2>2
  <2>4. Store!NoTxn[k] = -1
    BY DEF Store!NoTxn
  <2>5. -1 \notin 0 .. MaxWrites
    BY Bounds
  <2> QED
    BY <2>3, <2>4, <2>5
<1> QED
  BY <1>1, <1>2, <1>3

(* What a step makes of the content of the transaction.                    *)
LEMMA PendingNext ==
    /\ pc' = "idle" => Pending' = Store!NoTxn
    /\ pc' # "idle" /\ file' = file => Pending' = Tree(Image(txn'), txn'.root)
    /\ pc' # "idle" => Pending' = Tree(Image(txn)', txn'.root)
<1>1. pc' = "idle" => Pending' = Store!NoTxn
  BY DEF Pending, Store!NoTxn
<1>2. pc' # "idle" => Pending' = Tree(Image(txn)', txn'.root)
  BY DEF Pending, Image, Tree
<1>3. file' = file => Image(txn)' = Image(txn')
  BY DEF Image, At
<1> QED
  BY <1>1, <1>2, <1>3

(* A transaction begins on the content last committed.                     *)
LEMMA BeginStores ==
    ASSUME Inv, Inv', Next, NEW flag \in BOOLEAN, Begin(flag)
    PROVE  Store!Next
<1>1. Shape /\ Numbers
  BY DEF Inv
<1>2. /\ pc = "idle" /\ pc' = "open" /\ file' = file /\ txn' \in Txns
      /\ txn'.root = Newest(metas).root /\ txn'.buf = <<>>
  BY <1>1, BeginFacts DEF disks
<1>3. ~PowerLoss /\ ~WriteMeta /\ ~Sync
  BY <1>2 DEF PowerLoss, WriteMeta, Sync
<1>4. Stored' = Stored /\ Durable' = Durable
  BY <1>3, StoredStays
<1>5. Image(txn') = file
  <2>1. \A p \in Page : At(txn', p) = file[p]
    BY <1>2, EmptyMaps DEF At
  <2>2. file = [p \in Page |-> file[p]]
    BY <1>1 DEF Shape
  <2> QED
    BY <2>1, <2>2 DEF Image
<1>6. Pending' = Stored
  BY <1>2, <1>5, PendingNext DEF Stored
<1>7. Pending = Store!NoTxn
  BY <1>1, <1>2, PendingIs
<1>8. txn'.noMetaSync \in BOOLEAN
  BY <1>2 DEF Txns
<1>9. Store!Begin
  BY <1>4, <1>6, <1>7, <1>8 DEF Store!Begin, Stored, Durable
<1> QED
  BY <1>9 DEF Store!Next

(* One that goes on writes one key, or nothing that can be seen.           *)
LEMMA WorksStores ==
    ASSUME Inv, Inv', Next, Works \/ Spoils \/ Fills
    PROVE  Store!Next \/ UNCHANGED Store!store
<1>1. Shape
  BY DEF Inv
<1>2. /\ pc # "idle" /\ pc' # "idle" /\ file' = file
      /\ txn'.noMetaSync = txn.noMetaSync /\ Effect
  BY DEF Works, Working, Spoils, Fills, disks, Proceeds, Effect
<1>3. ~PowerLoss /\ ~WriteMeta /\ ~Sync
  BY DEF Works, Working, Spoils, Fills, PowerLoss, WriteMeta, Sync
<1>4. Stored' = Stored /\ Durable' = Durable
  BY <1>3, StoredStays
<1>5. Pending = Tree(Image(txn), txn.root) /\ Pending' = Tree(Image(txn'), txn'.root)
  BY <1>1, <1>2, PendingIs, PendingNext
<1>6. CASE Pending' = Pending
  BY <1>2, <1>4, <1>6 DEF Store!store, Stored, Durable
<1>7. CASE Pending' # Pending
  <2>1. PICK k \in Key, v \in 0 .. MaxWrites : Pending' = [Pending EXCEPT ![k] = v]
    BY <1>2, <1>5, <1>7 DEF Effect
  <2>2. v \in (1 .. MaxWrites) \cup {Store!Absent}
    BY Bounds DEF Store!Absent
  <2>3. Pending # Store!NoTxn
    BY <1>1, <1>2, <2>1, PendingIs
  <2>4. Store!Write
    BY <1>2, <1>4, <2>1, <2>2, <2>3 DEF Store!Write, Stored, Durable
  <2> QED
    BY <2>4 DEF Store!Next
<1> QED
  BY <1>6, <1>7

(* However it ends before its meta page is written, nothing is stored.     *)
LEMMA EndsStores ==
    ASSUME Inv, Inv', Next, ~PowerLoss, Ends \/ FlushFails \/ MetaFails \/ Publish
    PROVE  Store!Next
<1>1. Shape
  BY DEF Inv
<1>2. pc' = "idle" /\ txn' \in {NoTxn, [NoTxn EXCEPT !.pgoldest = txn.pgoldest]}
  BY DEF Ends, FlushFails, MetaFails, Publish, EndTxn
<1>3. txn'.noMetaSync = FALSE
  BY <1>2 DEF NoTxn
<1>4. ~WriteMeta /\ ~Sync
  BY <1>2 DEF WriteMeta, Sync
<1>5. Stored' = Stored /\ Durable' = Durable
  BY <1>4, StoredStays
<1>6. Pending' = Store!NoTxn
  BY <1>2, PendingNext
<1>7. Store!Abort
  BY <1>3, <1>5, <1>6 DEF Store!Abort, Stored, Durable
<1> QED
  BY <1>7 DEF Store!Next

(* The pages flushed are those the transaction sees.                       *)
LEMMA FlushStores ==
    ASSUME Inv, Inv', Next, Flush \/ Sync \/ RecoverMutex \/ Reopen \/ Reads, ~PowerLoss
    PROVE  Store!Next \/ UNCHANGED Store!store
<1>1. Shape
  BY DEF Inv
<1>2. txn' = txn /\ ~WriteMeta /\ (pc' = "idle" <=> pc = "idle")
  <2>1. CASE Flush \/ Sync
    BY <2>1 DEF Flush, Sync, WriteMeta
  <2>2. CASE RecoverMutex \/ Reopen \/ Reads
    BY <2>2 DEF RecoverMutex, Reopen, Reads, WriteMeta
  <2> QED
    BY <2>1, <2>2
<1>3. Stored' = Stored /\ (~Sync => Durable' = Durable) /\ (Sync => Durable' = Stored)
  BY <1>2, StoredStays
<1>4. Image(txn)' = Image(txn)
  <2>1. CASE Flush
    <3>1. \A p \in Page : p \notin DOMAIN txn.buf => file'[p] = file[p]
      <4>1. file' = Write(file, DOMAIN txn.buf)
        BY <2>1 DEF Flush
      <4> QED
        BY <1>1, <4>1, WriteFacts
    <3> QED
      BY <1>2, <3>1 DEF Image, At
  <2>2. CASE ~Flush
    <3>1. file' = file
      BY <2>2 DEF Sync, RecoverMutex, Reopen, Reads, disks
    <3> QED
      BY <1>2, <3>1 DEF Image, At
  <2> QED
    BY <2>1, <2>2
<1>5. Pending' = Pending
  BY <1>1, <1>2, <1>4, PendingIs, PendingNext
<1>6. CASE Sync
  <2>1. Store!Sync
    BY <1>2, <1>3, <1>5, <1>6 DEF Store!Sync, Stored, Durable
  <2> QED
    BY <2>1 DEF Store!Next
<1>7. CASE ~Sync
  BY <1>2, <1>3, <1>5, <1>7 DEF Store!store, Stored, Durable
<1> QED
  BY <1>6, <1>7

(* The meta page written commits what the transaction made, to the disk    *)
(* too unless it is MDB_NOMETASYNC.                                        *)
LEMMA MetaStores ==
    ASSUME Inv, Inv', Next, WriteMeta
    PROVE  Store!Next \/ UNCHANGED Store!store
<1>1. Shape /\ Numbers /\ Stage
  BY DEF Inv
<1>2. /\ pc = "meta" /\ pc' = "publish" /\ txn' = txn /\ file' = file /\ disk' = disk
      /\ diskMetas' = IF txn.noMetaSync THEN diskMetas ELSE [diskMetas EXCEPT ![Toggle] = NewMeta]
      /\ metas' = [metas EXCEPT ![Toggle] = NewMeta]
  BY DEF WriteMeta
<1>3. /\ Newest(metas)' = NewMeta /\ NewMeta.root = txn.root /\ diskMetas = metas
  BY <1>1, WriteMetaFacts, NewMetaFacts
<1>4. Image(txn) = file /\ disk = file
  BY <1>1, <1>2 DEF Stage
<1>5. Pending = Tree(file, txn.root) /\ Pending' = Pending
  BY SMTT(40), <1>1, <1>2, <1>4, PendingIs, PendingNext DEF Image, At
<1>6. Stored' = Pending
  BY <1>2, <1>3, <1>5 DEF Stored, Tree
<1>7. Durable' = IF txn.noMetaSync THEN Stored ELSE Pending
  <2>1. CASE txn.noMetaSync
    <3>1. Newest(diskMetas)' = Newest(metas)
      BY SMTT(40), <1>2, <1>3, <2>1 DEF Newest
    <3> QED
      BY <1>2, <1>4, <2>1, <3>1 DEF Durable, Stored, Tree
  <2>2. CASE ~txn.noMetaSync
    <3>1. Newest(diskMetas)' = Newest(metas)'
      BY <1>2, <1>3, <2>2 DEF Newest
    <3>2. Durable' = Tree(disk', Newest(diskMetas)'.root)
      BY ZenonT(60) DEF Durable, Tree
    <3>3. disk' = file /\ Newest(diskMetas)'.root = txn.root
      BY <1>2, <1>3, <1>4, <3>1
    <3> QED
      BY ZenonT(60), <1>5, <2>2, <3>2, <3>3
  <2> QED
    BY <2>1, <2>2
<1>8. CASE Key # {}
  <2>1. Pending # Store!NoTxn
    BY <1>1, <1>2, <1>8, PendingIs
  <2>2. Store!Commit
    BY <1>2, <1>5, <1>6, <1>7, <2>1 DEF Store!Commit, Stored, Durable
  <2> QED
    BY <2>2 DEF Store!Next
<1>9. CASE Key = {}
  <2>1. \A g, root, h, other : Tree(g, root) = Tree(h, other)
    BY <1>9 DEF Tree
  <2>2. Stored' = Stored /\ Durable' = Durable
    BY <1>5, <1>6, <1>7, <2>1 DEF Stored, Durable
  <2> QED
    BY <1>2, <1>5, <2>2 DEF Store!store, Stored, Durable
<1> QED
  BY <1>8, <1>9

(* A power loss leaves what was stored, or what was durable.               *)
LEMMA LossStores ==
    ASSUME Inv, Inv', PowerLoss
    PROVE  Store!Next
<1>1. Shape /\ Numbers /\ MetaRel
  BY DEF Inv
<1>2. /\ Newest(metas)' \in {Newest(metas), Newest(diskMetas)}
      /\ Newest(diskMetas)' = Newest(metas)'
      /\ file' \in [Page -> Contents] /\ disk' = file'
      /\ \A p \in Page : file'[p] \in {file[p], disk[p]}
  BY <1>1, PowerLossFacts
<1>3. PICK m \in Metas : m = Newest(metas)'
  BY <1>1, <1>2, MetaFacts
<1>4. Kept(m)
  BY <1>2, <1>3 DEF Inv
<1>5. file \in [Page -> Contents] /\ PagesOf(file, m) \subseteq Page
  BY <1>1, PagesOfType DEF Shape
<1>6. \A p \in PagesOf(file, m) : file'[p] = file[p]
  BY <1>2, <1>4, <1>5 DEF Kept
<1>7. Tree(file', m.root) = Tree(file, m.root)
  BY SMTT(40), <1>2, <1>5, <1>6, SamePages
<1>8. Stored' = Tree(file, m.root) /\ Durable' = Tree(file, m.root)
  <2>1. /\ Stored' = Tree(file', Newest(metas)'.root)
        /\ Durable' = Tree(disk', Newest(diskMetas)'.root)
    BY ZenonT(60) DEF Stored, Durable, Tree
  <2>2. Newest(diskMetas)' = m /\ Newest(metas)' = m /\ disk' = file'
    BY ZenonT(60), <1>2, <1>3
  <2> QED
    BY ZenonT(60), <1>7, <2>1, <2>2
<1>9. Tree(file, m.root) \in {Stored, Durable}
  BY <1>2, <1>3, StoreIs DEF Stored, Durable
<1>10. pc' = "idle" /\ txn' = NoTxn
  BY DEF PowerLoss
<1>11. Pending' = Store!NoTxn /\ txn'.noMetaSync = FALSE
  BY <1>10, PendingNext DEF NoTxn
<1>12. Store!Crash
  BY <1>8, <1>9, <1>11 DEF Store!Crash, Stored, Durable
<1> QED
  BY <1>12 DEF Store!Next

(* Every step is one of the store's, or changes nothing of it.             *)
LEMMA StoreStep ==
    ASSUME Inv, Inv', [Next]_vars
    PROVE  [Store!Next]_(Store!store)
<1>1. Shape /\ Numbers /\ Stage
  BY DEF Inv
<1>2. CASE Next
  <2>1. ASSUME NEW flag \in BOOLEAN, Begin(flag) PROVE Store!Next
    BY <1>2, <2>1, BeginStores
  <2>2. CASE PowerLoss
    BY <2>2, LossStores
  <2>3. CASE ~PowerLoss
    BY SMTT(40), <1>1, <1>2, <2>1, <2>3, Kinds, WorksStores, EndsStores, FlushStores, MetaStores
  <2> QED
    BY <2>2, <2>3
<1>3. CASE UNCHANGED vars
  BY <1>3 DEF vars, disks, Store!store, Pending, Tree, At, Newest
<1> QED
  BY <1>2, <1>3

(* Write transactions are atomic, isolated and durable: whatever fails,    *)
(* dies or loses power, the pages and meta pages of mdb_txn_commit show    *)
(* one database, which changes by whole transactions, one at a time.       *)
THEOREM TransactionsAreAtomic == Spec => ImplementsStore
<1>1. Init => Store!Init
  <2> SUFFICES ASSUME Init PROVE Store!Init
    OBVIOUS
  <2>1. /\ pc = "idle" /\ txn = NoTxn /\ disk = file /\ diskMetas = metas
        /\ metas = [m \in 0 .. 1 |-> [txnid |-> 0, root |-> Invalid, freeRoot |-> Invalid, last |-> 1]]
    BY DEF Init
  <2>2. Newest(metas).root = Invalid
    BY <2>1 DEF Newest
  <2>3. Tree(file, Newest(metas).root) = [k \in Key |-> Store!Absent]
    BY <2>2 DEF Tree, Absent, Store!Absent
  <2> QED
    BY <2>1, <2>3 DEF Store!Init, Pending, Store!NoTxn, NoTxn
<1> QED
  BY <1>1, InvHolds, StoreStep, PTL DEF Spec, ImplementsStore, Store!Spec
=============================================================================
