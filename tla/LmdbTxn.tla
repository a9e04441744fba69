------------------------------ MODULE LmdbTxn ------------------------------
(***************************************************************************)
(* lmdb/mdb.c: write and read transactions of one LMDB environment, over   *)
(* the data file, the two meta pages and the lock file.                    *)
(*                                                                         *)
(* A write transaction copies every page it changes to a new page, found   *)
(* in the pages that earlier transactions freed and no reader needs        *)
(* (mdb_page_alloc) or at the end of the file, and records the pages it    *)
(* freed in the freeDB, itself a tree of such pages (mdb_freelist_save).   *)
(* It then writes its pages, syncs, and writes one of the meta pages       *)
(* (mdb_txn_commit).  A read transaction publishes the txnid it reads in   *)
(* the reader table and copies the meta page of it (mdb_txn_renew0).       *)
(*                                                                         *)
(* Abstractions.  The main tree is a root page over one leaf page per key, *)
(* the freeDB one leaf page, so that a record of it holds any number of    *)
(* page numbers.  A value is the number of the write that put it.          *)
(* Single pages only: no overflow pages, spilling or nesting.  The cached  *)
(* file is what processes see; a power loss keeps any part of what was     *)
(* written since the last sync.  A write of a meta page that fails does    *)
(* not reach the disk.                                                     *)
(***************************************************************************)
EXTENDS Integers, FiniteSets, FiniteSetsExt, Sequences, SequencesExt

CONSTANTS
    Key,
    Reader,        \* slots of the reader table
    MaxPg,         \* me_maxpg
    Scenarios,     \* what may happen beside the writer: see Scenario
    MaxTxns,       \* bound: write transactions begun
    MaxWrites      \* bound: puts and deletes, of all of them

Fault == {"flush", "sync", "meta", "die", "power"}

(* Of a behaviour: the faults there are, whether transactions may be begun *)
(* with MDB_NOMETASYNC, and a bound of the read transactions begun.        *)
Scenario == [failures : SUBSET Fault, flags : SUBSET BOOLEAN, reads : Nat]

ASSUME Assumptions ==
    /\ MaxPg \in Nat \ {0, 1, 2}
    /\ \A s \in Scenarios : s \in Scenario
    /\ {MaxTxns, MaxWrites} \subseteq Nat

Page    == 2 .. MaxPg - 1
Invalid == 0                      \* P_INVALID
Absent  == 0
Ids     == 0 .. MaxTxns           \* txnids
NoSlot  == -1                     \* (txnid_t)-1

(* A page is a leaf of the main tree (val), its root (child) or the leaf   *)
(* of the freeDB (recs: txnid to the pages that transaction freed).        *)
Blank == [val |-> Absent, child |-> [k \in Key |-> Invalid], recs |-> <<>>]

VARIABLES
    file, disk,         \* pages as processes see them, and as a power loss leaves them
    metas, diskMetas,   \* the two meta pages, likewise
    mti_txnid,          \* txnid of the last commit, in the lock file
    wmutex,             \* "free", "held", or "dead": its owner died
    fatal,              \* MDB_FATAL_ERROR
    pc,                 \* where the writer is
    txn,                \* its transaction
    begun, writes,      \* bounds: write transactions begun so far, writes made
    rpc, slot, rload, rroot,  \* of each reader: where it is, its slot, txnid loaded, root copied
    view,               \* history: the content a reader's root stood for when it copied it
    current,            \* history: the contents committed since a reader began to begin
    reads,              \* bound: read transactions begun so far
    scenario            \* which of the Scenarios this is

disks   == <<file, disk, metas, diskMetas>>
locks   == <<mti_txnid, wmutex, fatal>>
readers == <<rpc, slot, rload, rroot, view, current, reads>>
vars    == <<disks, locks, pc, txn, begun, writes, readers, scenario>>

Metas == [txnid : Ids, root : Page \cup {Invalid}, freeRoot : Page \cup {Invalid},
          last : 1 .. MaxPg - 1]

(* Content of the main tree under a root, in the pages f.                  *)
Tree(f, root) ==
    [k \in Key |-> IF root = Invalid \/ f[root].child[k] = Invalid THEN Absent
                   ELSE f[f[root].child[k]].val]

Newest(ms) == ms[IF ms[0].txnid < ms[1].txnid THEN 1 ELSE 0]

NoTxn ==
    [id |-> 0, noMetaSync |-> FALSE, root |-> Invalid, freeRoot |-> Invalid, next |-> 2, buf |-> <<>>,
     freed |-> {}, loose |-> <<>>, pghead |-> {}, pglast |-> 0, error |-> FALSE,
     dropped |-> 0, saved |-> 0, headId |-> 0, room |-> 0, more |-> 1,
     rounds |-> 0, page |-> Invalid, pgoldest |-> 0]

Init ==
    /\ file = [p \in Page |-> Blank]
    /\ disk = file
    /\ metas = [m \in 0 .. 1 |-> [txnid |-> 0, root |-> Invalid, freeRoot |-> Invalid, last |-> 1]]
    /\ diskMetas = metas
    /\ mti_txnid = 0
    /\ wmutex = "free"
    /\ fatal = FALSE
    /\ pc = "idle"
    /\ txn = NoTxn
    /\ begun = 0
    /\ writes = 0
    /\ rpc = [r \in Reader |-> "out"]
    /\ slot = [r \in Reader |-> NoSlot]
    /\ rload = [r \in Reader |-> 0]
    /\ rroot = [r \in Reader |-> Invalid]
    /\ view = [r \in Reader |-> Tree(file, Invalid)]
    /\ current = [r \in Reader |-> {}]
    /\ reads = 0
    /\ scenario \in Scenarios

-----------------------------------------------------------------------------
(* Pages of a transaction t.  A call that takes a page leaves its number in *)
(* t.page, or Invalid where there is none to take.                         *)

At(t, p) == IF p \in DOMAIN t.buf THEN t.buf[p] ELSE file[p]

Records(t) == IF t.freeRoot = Invalid THEN <<>> ELSE At(t, t.freeRoot).recs

SetPage(t, p, c) ==
    [t EXCEPT !.buf = [q \in DOMAIN t.buf \cup {p} |-> IF q = p THEN c ELSE t.buf[q]]]

(* Mutant: the readers are not looked at.                                  *)
Oldest_OwnOnly(t) == t.id - 1

(* mdb_find_oldest.                                                        *)
Oldest(t) == Min({t.id - 1} \cup {slot[r] : r \in {s \in Reader : slot[s] # NoSlot}})

(* The records mdb_page_alloc may read when the oldest reader is o.        *)
Usable(t, o) == {id \in DOMAIN Records(t) : t.pglast < id /\ id < o}

Filled(t, ids) == {id \in ids : Records(t)[id] # {}}

(* The loop of mdb_page_alloc reads records in the order of their txnids   *)
(* until one has pages, and looks for the oldest reader again only if the  *)
(* cached answer is in the way of one more.                                *)
LookAgain(t, usable) ==
    /\ Filled(t, usable) = {}
    /\ \/ t.pgoldest <= Max({t.pglast} \cup usable) + 1
       \/ \E id \in DOMAIN Records(t) : Max({t.pglast} \cup usable) < id

Look(t) ==
    [t EXCEPT !.pgoldest = IF LookAgain(t, Usable(t, @)) THEN Oldest(t) ELSE @]

ReadTo(t, id) == [t EXCEPT !.pghead = Records(t)[id], !.pglast = id]

Read(t, ids) ==
    IF ids = {} THEN t
    ELSE ReadTo(t, IF Filled(t, ids) = {} THEN Max(ids) ELSE Min(Filled(t, ids)))

Refill(t)   == Read(t, Usable(t, t.pgoldest))
Take(t, p)  == [SetPage(t, p, Blank) EXCEPT !.page = p]
NoPage(t)   == [t EXCEPT !.page = Invalid]

TakeNext(t) ==
    IF t.next + 1 < MaxPg THEN Take([t EXCEPT !.next = @ + 1], t.next) ELSE NoPage(t)

TakeFree(t) ==
    IF t.pghead = {} THEN TakeNext(t)
    ELSE Take([t EXCEPT !.pghead = @ \ {Min(@)}], Min(t.pghead))

(* mdb_page_alloc of one page: a loose page, the lowest free one, or the   *)
(* next of the file.                                                       *)
Alloc(t) ==
    IF t.loose # <<>> THEN Take([t EXCEPT !.loose = Tail(@)], Head(t.loose))
    ELSE TakeFree(IF t.pghead # {} THEN t ELSE Refill(Look(t)))

(* Mutant: the page copied is not freed.                                   *)
CopyTo_Leaks(t, p) == IF t.page = Invalid THEN t ELSE SetPage(t, t.page, At(t, p))

CopyTo(t, p) ==
    IF t.page = Invalid THEN t
    ELSE [SetPage(t, t.page, At(t, p)) EXCEPT !.freed = @ \cup {p}]

(* mdb_page_touch: a page the transaction has not dirtied is copied.       *)
Touch(t, p) == IF p \in DOMAIN t.buf THEN [t EXCEPT !.page = p] ELSE CopyTo(Alloc(t), p)

(* Touch a page or, where there is none, make a new one.                   *)
Own(t, p) == IF p = Invalid THEN Alloc(t) ELSE Touch(t, p)

(* The root of the main tree, or of the freeDB, made the transaction's.    *)
SetRoot(t) == IF t.page = Invalid THEN t ELSE [t EXCEPT !.root = t.page]
SetFree(t) == IF t.page = Invalid THEN t ELSE [t EXCEPT !.freeRoot = t.page]
OwnRoot(t) == SetRoot(Own(t, t.root))
OwnFree(t) == SetFree(Own(t, t.freeRoot))

-----------------------------------------------------------------------------
(* The write transaction.                                                  *)

(* mdb_txn_begin: with the mutex, on the meta page of the last commit.     *)
Begin(noMetaSync) ==
    LET meta == metas[mti_txnid % 2]
    IN  /\ pc = "idle"
        /\ wmutex = "free"
        /\ ~fatal
        /\ begun < MaxTxns
        /\ wmutex' = "held"
        /\ pc' = "open"
        /\ begun' = begun + 1
        /\ txn' = [NoTxn EXCEPT !.id = mti_txnid + 1, !.noMetaSync = noMetaSync,
                                !.pgoldest = txn.pgoldest,
                                !.root = meta.root, !.freeRoot = meta.freeRoot,
                                !.next = meta.last + 1]
        /\ UNCHANGED <<disks, mti_txnid, fatal, writes, readers, scenario>>

(* Mutant: the lock file is left as the dead writer left it.               *)
RecoverMutex_Forgets ==
    /\ wmutex = "dead"
    /\ wmutex' = "free"
    /\ UNCHANGED <<disks, mti_txnid, fatal, pc, txn, begun, writes, readers, scenario>>

(* mdb_mutex_failed: the owner of the mutex died; the lock file is put     *)
(* right from the meta pages, and the mutex can be locked.                 *)
RecoverMutex ==
    /\ wmutex = "dead"
    /\ wmutex' = "free"
    /\ mti_txnid' = Newest(metas).txnid
    /\ UNCHANGED <<disks, fatal, pc, txn, begun, writes, readers, scenario>>

Writing ==
    /\ pc = "open"
    /\ ~txn.error
    /\ writes < MaxWrites

Child(t, k) == IF t.root = Invalid THEN Invalid ELSE At(t, t.root).child[k]

SetChild(t, k, p) == SetPage(t, t.root, [t.buf[t.root] EXCEPT !.child[k] = p])

(* mdb_put: the path to the key is touched, the leaf made if there is none.*)
Put(k) ==
    /\ Writing
    /\ \E t1 \in {OwnRoot(txn)} :
          /\ t1.page # Invalid
          /\ \E t2 \in {Own(t1, Child(t1, k))} :
                /\ t2.page # Invalid
                /\ txn' = SetChild(SetPage(t2, t2.page, [Blank EXCEPT !.val = writes + 1]),
                                   k, t2.page)
    /\ writes' = writes + 1
    /\ UNCHANGED <<disks, locks, pc, begun, readers, scenario>>

(* mdb_del: the path is touched, the empty leaf becomes a loose page, and  *)
(* the root goes with the last key (mdb_rebalance).                        *)
Loosen(t, k) == [SetChild(t, k, Invalid) EXCEPT !.loose = <<t.page>> \o @]

DropRoot(t) ==
    IF \E k \in Key : Child(t, k) # Invalid THEN t
    ELSE [t EXCEPT !.root = Invalid, !.freed = @ \cup {t.root}]

Del(k) ==
    /\ Writing
    /\ Child(txn, k) # Invalid
    /\ \E t1 \in {OwnRoot(txn)} :
          /\ t1.page # Invalid
          /\ \E t2 \in {Touch(t1, Child(t1, k))} :
                /\ t2.page # Invalid
                /\ txn' = DropRoot(Loosen(t2, k))
    /\ writes' = writes + 1
    /\ UNCHANGED <<disks, locks, pc, begun, readers, scenario>>

(* MDB_MAP_FULL: a write that finds no page leaves MDB_TXN_ERROR.          *)
WriteFails ==
    /\ Writing
    /\ \E t1 \in {OwnRoot(txn)} :
          \/ /\ t1.page = Invalid
             /\ txn' = [t1 EXCEPT !.error = TRUE]
          \/ /\ t1.page # Invalid
             /\ \E k \in Key : \E t2 \in {Own(t1, Child(t1, k))} :
                   /\ t2.page = Invalid
                   /\ txn' = [t2 EXCEPT !.error = TRUE]
    /\ UNCHANGED <<disks, locks, pc, begun, writes, readers, scenario>>

(* mdb_txn_end: nothing of the transaction is kept but me_pgoldest, which  *)
(* is the environment's, and the mutex is free.                            *)
EndTxn ==
    /\ pc' = "idle"
    /\ txn' = [NoTxn EXCEPT !.pgoldest = txn.pgoldest]
    /\ wmutex' = "free"

(* mdb_txn_abort, and the commit of a transaction that failed or has       *)
(* written nothing.                                                        *)
Abort ==
    /\ pc = "open"
    /\ EndTxn
    /\ UNCHANGED <<disks, mti_txnid, fatal, begun, writes, readers, scenario>>

-----------------------------------------------------------------------------
(* mdb_freelist_save.                                                      *)

(* Loose pages go with the pages freed, out of the dirty list, unless      *)
(* there are records in use that can take them.                            *)
FreeLoose(t) ==
    IF t.pglast > 0 THEN t
    ELSE [t EXCEPT !.freed = @ \cup ToSet(t.loose), !.loose = <<>>,
                   !.buf = [p \in DOMAIN @ \ ToSet(t.loose) |-> @[p]]]

Commit ==
    /\ pc = "open"
    /\ ~txn.error
    /\ DOMAIN txn.buf # {}
    /\ \E t \in {IF txn.pglast > 0 THEN OwnFree(txn) ELSE txn} :
          /\ txn.pglast > 0 => t.page # Invalid
          /\ txn' = FreeLoose(t)
    /\ pc' = "save"
    /\ UNCHANGED <<disks, locks, begun, writes, readers, scenario>>

Dropping(t) == t.dropped < t.pglast
Unsaved(t)  == t.saved < Cardinality(t.freed)
LeftOver(t) == Cardinality(t.pghead) + Len(t.loose)
(* The loop.  rounds, for SaveSettles, counts its puts.                    *)
Settled(t)  == t.room = LeftOver(t) \/ (t.room > LeftOver(t) /\ t.more = 0)
Saved(t)    == ~Dropping(t) /\ ~Unsaved(t) /\ Settled(t)

(* One put or delete in the freeDB, in the transaction whose leaf it owns. *)
SaveStep(t, next) ==
    /\ t.page # Invalid
    /\ txn' = next
    /\ UNCHANGED <<disks, locks, pc, begun, writes, readers, scenario>>

(* A step that finds no page for the leaf ends the commit.                 *)
SaveFails ==
    /\ pc = "save"
    /\ ~Saved(txn)
    /\ OwnFree(txn).page = Invalid
    /\ EndTxn
    /\ UNCHANGED <<disks, mti_txnid, fatal, begun, writes, readers, scenario>>

(* Delete the first record, while those in use have not all been; the leaf *)
(* goes with the last one.                                                 *)
First(t) == Min(DOMAIN Records(t))

RemoveRecord(t, id) ==
    [SetPage(t, t.freeRoot,
             [Blank EXCEPT !.recs = [i \in DOMAIN Records(t) \ {id} |-> Records(t)[i]]])
        EXCEPT !.dropped = id, !.headId = id, !.room = 0]

DropFree(t) ==
    IF DOMAIN Records(t) # {} THEN t
    ELSE [t EXCEPT !.freeRoot = Invalid, !.freed = @ \cup {t.freeRoot}]

SaveDrop ==
    /\ pc = "save"
    /\ Dropping(txn)
    /\ \E t \in {OwnFree(txn)} : SaveStep(t, DropFree(RemoveRecord(t, First(t))))

Record(t, id, pages) ==
    SetPage(t, t.freeRoot,
            [Blank EXCEPT !.recs = [i \in DOMAIN Records(t) \cup {id} |->
                                       IF i = id THEN pages ELSE Records(t)[i]]])

(* The record of the pages this transaction freed, those freed by putting  *)
(* it included.                                                            *)
SaveFreed ==
    /\ pc = "save"
    /\ ~Dropping(txn)
    /\ Unsaved(txn)
    /\ \E t \in {OwnFree(txn)} :
          SaveStep(t, [Record(t, t.id, t.freed) EXCEPT !.saved = Cardinality(t.freed),
                                                       !.rounds = @ + 1])

(* Mutant: the page just taken for the leaf is not counted out.            *)
Reserve_Short(t) ==
    [Record(t, t.headId, {}) EXCEPT !.room = LeftOver(txn) - 1, !.rounds = @ + 1]

Reserve(t) ==
    [Record(t, t.headId, {})
        EXCEPT !.room = LeftOver(txn),
               !.more = IF txn.room > LeftOver(txn) THEN @ - 1 ELSE @,
               !.rounds = @ + 1]

(* Room for the pages left over, under the txnid of the last record used:  *)
(* one record of any size, where the code splits what exceeds a page.      *)
SaveReserve ==
    /\ pc = "save"
    /\ ~Dropping(txn)
    /\ ~Unsaved(txn)
    /\ ~Settled(txn)
    /\ \E t \in {OwnFree(txn)} : SaveStep(t, Reserve(t))

(* The pages left over, the loose ones with them, fill the room reserved.  *)
Fill(t, left) ==
    [IF left = {} THEN t ELSE Record(t, t.headId, left)
        EXCEPT !.pghead = {}, !.loose = <<>>,
               !.buf = [p \in DOMAIN @ \ ToSet(t.loose) |-> @[p]]]

SaveFill ==
    /\ pc = "save"
    /\ Saved(txn)
    /\ txn' = Fill(txn, txn.pghead \cup ToSet(txn.loose))
    /\ pc' = "flush"
    /\ UNCHANGED <<disks, locks, begun, writes, readers, scenario>>

-----------------------------------------------------------------------------
(* The rest of mdb_txn_commit.                                             *)

Write(f, ps) == [p \in Page |-> IF p \in ps THEN txn.buf[p] ELSE f[p]]

(* mdb_page_flush.                                                         *)
Flush ==
    /\ pc = "flush"
    /\ file' = Write(file, DOMAIN txn.buf)
    /\ pc' = "sync"
    /\ UNCHANGED <<disk, metas, diskMetas, locks, txn, begun, writes, readers, scenario>>

FlushFails ==
    /\ pc = "flush"
    /\ "flush" \in scenario.failures
    /\ \E ps \in SUBSET DOMAIN txn.buf : file' = Write(file, ps)
    /\ EndTxn
    /\ UNCHANGED <<disk, metas, diskMetas, mti_txnid, fatal, begun, writes, readers, scenario>>

(* Mutant: the meta page is written before what it refers to is on disk.   *)
Sync_Skipped ==
    /\ pc = "sync"
    /\ pc' = "meta"
    /\ UNCHANGED <<disks, locks, txn, begun, writes, readers, scenario>>

(* mdb_env_sync0.                                                          *)
Sync ==
    /\ pc = "sync"
    /\ disk' = file
    /\ diskMetas' = metas
    /\ pc' = "meta"
    /\ UNCHANGED <<file, metas, locks, txn, begun, writes, readers, scenario>>

SyncFails ==
    /\ pc = "sync"
    /\ "sync" \in scenario.failures
    /\ EndTxn
    /\ UNCHANGED <<disks, mti_txnid, fatal, begun, writes, readers, scenario>>

Toggle  == txn.id % 2
NewMeta == [txnid |-> txn.id, root |-> txn.root, freeRoot |-> txn.freeRoot, last |-> txn.next - 1]

(* From here on a read transaction may find the commit.                    *)
Visible ==
    current' = [r \in Reader |-> IF rpc[r] \in {"out", "in"} THEN current[r]
                                 ELSE current[r] \cup {Tree(file, txn.root)}]

(* Mutant: the page of the last commit is overwritten.                     *)
WriteMeta_SamePage ==
    /\ pc = "meta"
    /\ metas' = [metas EXCEPT ![1 - Toggle] = NewMeta]
    /\ diskMetas' = IF txn.noMetaSync THEN diskMetas ELSE [diskMetas EXCEPT ![1 - Toggle] = NewMeta]
    /\ pc' = "publish"
    /\ Visible
    /\ UNCHANGED <<file, disk, locks, txn, begun, writes, rpc, slot, rload, rroot, view, reads, scenario>>

(* mdb_env_write_meta, through a descriptor that syncs unless the          *)
(* transaction is MDB_NOMETASYNC.                                          *)
WriteMeta ==
    /\ pc = "meta"
    /\ metas' = [metas EXCEPT ![Toggle] = NewMeta]
    /\ diskMetas' = IF txn.noMetaSync THEN diskMetas ELSE [diskMetas EXCEPT ![Toggle] = NewMeta]
    /\ pc' = "publish"
    /\ Visible
    /\ UNCHANGED <<file, disk, locks, txn, begun, writes, rpc, slot, rload, rroot, view, reads, scenario>>

(* On a failure the old txnid and last page are written back.              *)
MetaFails ==
    /\ pc = "meta"
    /\ "meta" \in scenario.failures
    /\ metas' = [metas EXCEPT ![Toggle] = [NewMeta EXCEPT !.txnid = metas[Toggle].txnid,
                                                          !.last = metas[Toggle].last]]
    /\ fatal' = TRUE
    /\ EndTxn
    /\ UNCHANGED <<file, disk, diskMetas, mti_txnid, begun, writes, readers, scenario>>

(* The commit is published, and the transaction ends.                      *)
Publish ==
    /\ pc = "publish"
    /\ mti_txnid' = txn.id
    /\ EndTxn
    /\ UNCHANGED <<disks, fatal, begun, writes, readers, scenario>>

-----------------------------------------------------------------------------
(* A read transaction, with the slot of its thread.                        *)

BeginRead(r) ==
    /\ rpc[r] = "out"
    /\ reads < scenario.reads
    /\ rpc' = [rpc EXCEPT ![r] = "load"]
    /\ current' = [current EXCEPT ![r] = {Tree(file, metas[mti_txnid % 2].root),
                                              Tree(file, Newest(metas).root)}]
    /\ reads' = reads + 1
    /\ UNCHANGED <<disks, locks, pc, txn, begun, writes, slot, rload, rroot, view, scenario>>

LoadTxnid(r) ==
    /\ rpc[r] = "load"
    /\ rload' = [rload EXCEPT ![r] = mti_txnid]
    /\ rpc' = [rpc EXCEPT ![r] = "store"]
    /\ UNCHANGED <<disks, locks, pc, txn, begun, writes, slot, rroot, view, current, reads, scenario>>

StoreSlot(r) ==
    /\ rpc[r] = "store"
    /\ slot' = [slot EXCEPT ![r] = rload[r]]
    /\ rpc' = [rpc EXCEPT ![r] = "check"]
    /\ UNCHANGED <<disks, locks, pc, txn, begun, writes, rload, rroot, view, current, reads, scenario>>

(* Retry on a race.                                                        *)
CheckTxnid(r) ==
    /\ rpc[r] = "check"
    /\ rpc' = [rpc EXCEPT ![r] = IF slot[r] = mti_txnid THEN "copy" ELSE "load"]
    /\ UNCHANGED <<disks, locks, pc, txn, begun, writes, slot, rload, rroot, view, current, reads, scenario>>

CopyMeta(r) ==
    LET root == metas[slot[r] % 2].root
    IN  /\ rpc[r] = "copy"
        /\ rroot' = [rroot EXCEPT ![r] = root]
        /\ view' = [view EXCEPT ![r] = Tree(file, root)]
        /\ rpc' = [rpc EXCEPT ![r] = "in"]
        /\ UNCHANGED <<disks, locks, pc, txn, begun, writes, slot, rload, current, reads, scenario>>

EndRead(r) ==
    /\ rpc[r] = "in"
    /\ slot' = [slot EXCEPT ![r] = NoSlot]
    /\ rpc' = [rpc EXCEPT ![r] = "out"]
    /\ rroot' = [rroot EXCEPT ![r] = Invalid]
    /\ current' = [current EXCEPT ![r] = {}]
    /\ UNCHANGED <<disks, locks, pc, txn, begun, writes, rload, view, reads, scenario>>

-----------------------------------------------------------------------------
(* Failures, and other processes.                                          *)

(* The writer is killed: its mutex is dead, what it wrote stays in the     *)
(* page cache, and its environment with its state is gone.                 *)
Die ==
    /\ "die" \in scenario.failures
    /\ pc # "idle"
    /\ pc' = "idle"
    /\ txn' = NoTxn
    /\ wmutex' = "dead"
    /\ UNCHANGED <<disks, mti_txnid, fatal, begun, writes, readers, scenario>>

(* The power fails; whoever opens the environment next finds nobody there. *)
PowerLoss ==
    /\ "power" \in scenario.failures
    /\ \E lost \in SUBSET {p \in Page : file[p] # disk[p]},
          old \in SUBSET {m \in 0 .. 1 : metas[m] # diskMetas[m]} :
          /\ file' = [p \in Page |-> IF p \in lost THEN disk[p] ELSE file[p]]
          /\ metas' = [m \in 0 .. 1 |-> IF m \in old THEN diskMetas[m] ELSE metas[m]]
    /\ disk' = file'
    /\ diskMetas' = metas'
    /\ mti_txnid' = Newest(metas').txnid
    /\ wmutex' = "free"
    /\ fatal' = FALSE
    /\ pc' = "idle"
    /\ txn' = NoTxn
    /\ rpc' = [r \in Reader |-> "out"]
    /\ slot' = [r \in Reader |-> NoSlot]
    /\ rroot' = [r \in Reader |-> Invalid]
    /\ current' = [r \in Reader |-> {}]
    /\ UNCHANGED <<begun, writes, rload, view, reads, scenario>>

(* After MDB_PANIC the writer's process closes the environment and opens   *)
(* it again.                                                               *)
Reopen ==
    /\ fatal
    /\ fatal' = FALSE
    /\ UNCHANGED <<disks, mti_txnid, wmutex, pc, txn, begun, writes, readers, scenario>>

WriterNext ==
    \/ (\E flag \in scenario.flags : Begin(flag))
    \/ (\E k \in Key : Put(k) \/ Del(k)) \/ WriteFails \/ Abort
    \/ Commit \/ SaveDrop \/ SaveFreed \/ SaveReserve \/ SaveFill \/ SaveFails
    \/ Flush \/ Sync \/ WriteMeta \/ Publish

Faults == FlushFails \/ SyncFails \/ MetaFails \/ Die \/ PowerLoss

ReaderNext(r) ==
    \/ BeginRead(r) \/ LoadTxnid(r) \/ StoreSlot(r) \/ CheckTxnid(r) \/ CopyMeta(r) \/ EndRead(r)

Next ==
    \/ WriterNext \/ Faults \/ RecoverMutex \/ Reopen
    \/ \E r \in Reader : ReaderNext(r)

Spec == Init /\ [][Next]_vars

-----------------------------------------------------------------------------
TypeOK ==
    /\ {metas, diskMetas} \subseteq [0 .. 1 -> Metas]
    /\ mti_txnid \in Ids
    /\ wmutex \in {"free", "held", "dead"}
    /\ fatal \in BOOLEAN
    /\ txn.pgoldest \in Ids
    /\ pc \in {"idle", "open", "save", "flush", "sync", "meta", "publish"}
    /\ txn.id \in 0 .. MaxTxns + 1
    /\ DOMAIN txn.buf \subseteq Page
    /\ txn.freed \subseteq Page
    /\ ToSet(txn.loose) \subseteq Page
    /\ txn.pghead \subseteq Page
    /\ rpc \in [Reader -> {"out", "load", "store", "check", "copy", "in"}]
    /\ slot \in [Reader -> Ids \cup {NoSlot}]
    /\ rroot \in [Reader -> Page \cup {Invalid}]

(* Pages of a tree, and of the records of a freeDB, in the pages f.        *)
TreePages(f, root) ==
    IF root = Invalid THEN {} ELSE {root} \cup ({f[root].child[k] : k \in Key} \ {Invalid})
RecordsIn(f, free) == IF free = Invalid THEN <<>> ELSE f[free].recs

(* mdb.c, mdb_audit: every page of the file is in one place: a tree, or    *)
(* one record of the freeDB.  The places are the sets numbered in parts.   *)
Partition(parts, whole) ==
    /\ UNION {p[2] : p \in parts} = whole
    /\ \A p, q \in parts : p[1] # q[1] => p[2] \cap q[2] = {}

Recorded(recs, ids) == {<<id, recs[id]>> : id \in ids}

(* The pages of meta page m, of those in f.                                *)
Audit(f, m) ==
    LET recs == RecordsIn(f, m.freeRoot)
    IN  Partition({<<-1, TreePages(f, m.root)>>, <<-2, {m.freeRoot} \ {Invalid}>>}
                      \cup Recorded(recs, DOMAIN recs),
                  2 .. m.last)

(* The last commit as processes see it, and as a power loss leaves it.     *)
CommittedOnce == Audit(file, Newest(metas)) /\ Audit(disk, Newest(diskMetas))

(* In a transaction there are besides the pages it took from the records,  *)
(* those it freed and the loose ones.                                      *)
TxnOnce ==
    pc \in {"open", "save"} /\ ~txn.error =>
        LET f    == [p \in Page |-> At(txn, p)]
            recs == RecordsIn(f, txn.freeRoot)
        IN  Partition({<<-1, TreePages(f, txn.root)>>, <<-2, {txn.freeRoot} \ {Invalid}>>,
                       <<-3, txn.pghead>>, <<-4, txn.freed>>, <<-5, ToSet(txn.loose)>>}
                          \cup Recorded(recs, {id \in DOMAIN recs : txn.pglast < id /\ id # txn.id}),
                      2 .. txn.next - 1)

(* No page is lost or used twice, over any number of transactions.         *)
PagesOnce == TypeOK /\ CommittedOnce /\ TxnOnce

(* A reader reads what its root stood for when it copied it, to the end.   *)
SnapshotIntact == \A r \in Reader : rpc[r] = "in" => Tree(file, rroot[r]) = view[r]

(* What it reads is a state the environment was in while it began.         *)
SnapshotIsCommitted == \A r \in Reader : rpc[r] = "in" => view[r] \in current[r]

(* mdb.c, mdb_mutex_failed: "Keep mti_txnid updated, otherwise next writer *)
(* can overwrite data which latest meta page refers to."                   *)
TxnidUpdated == wmutex = "free" => mti_txnid = Newest(metas).txnid

Pending == IF pc = "idle" THEN [k \in Key |-> -1]
           ELSE Tree([p \in Page |-> At(txn, p)], txn.root)

Store == INSTANCE LmdbStoreSpec WITH
    Value <- 1 .. MaxWrites,
    lazy <- txn.noMetaSync,
    db <- Tree(file, Newest(metas).root),
    durable <- Tree(disk, Newest(diskMetas).root),
    pending <- Pending

(* Write transactions are atomic, isolated and durable, over every failure.*)
ImplementsStore == Store!Spec

(* mdb_freelist_save changes what it saves, and "keeps trying until it     *)
(* stabilizes".  Where the freeDB is one leaf, that is after one put of the*)
(* pages freed and one of room for those left over.  A freeDB of more pages*)
(* and room split over several records (mdb.c:3556) may take more rounds.  *)
SaveSettles == txn.rounds <= 2
=============================================================================
