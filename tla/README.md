# dbbench: a verification project

dbbench (`src/`) measures four key-value engines - LevelDB, RocksDB, Redis and LMDB - behind one
interface. A run opens one engine, preloads keys, lets worker threads read and write at random for a
number of seconds, stops them, adds up their counts and removes the store. LMDB is built from the
copy in `src/lmdb`; the other engines are libraries.

This directory models the program and the transaction engine of LMDB in TLA+, checks the models with
TLC on small instances, and proves what matters most with TLAPS for every value of the constants.

## 1. Inventory

| part | source | state | operations | how it talks to the others |
|---|---|---|---|---|
| StateDB | `ledger/state_db.h` | the directory name | open, close, opened, get, put, putBatch, del, delBatch, applyBatch, clear | the interface every adapter implements and the benchmark calls |
| LevelDB, RocksDB adapters | `ledger/level_db.cpp`, `ledger/rocks_db.cpp` | 16 engines, each with the status of its last call and a write batch | as above | called by every worker thread at once, without a lock |
| Redis adapter | `ledger/redis_db.cpp` | one connection, a mutex | as above | every operation under the mutex |
| LMDB adapter | `ledger/lm_db.cpp` | one environment, one write transaction, one key and one data buffer, a mutex around put and del only | as above | called by every worker at once |
| Provider | `ledger/db_provider.cpp` | none | createSingle | makes the directory and the adapter |
| Benchmark | `util/test.cpp`, `util/Worker.cpp` | workers, their threads, stop flags and counts, the adapter | full_test, integrity_test, run, stop | the main thread spawns, stops and joins the workers |
| Random engine | `util/RandomEngine.cpp` | one random device and two distributions, shared | randKeys, rand100 | called by every worker without a lock |
| Options | `main.cpp` | the options record | handle_arguments | read once by main, copied to each worker |
| Directory size | `util/util.cpp` | none | treeSize | after the run |
| LMDB: transactions | `lmdb/mdb.c` | two meta pages, the write mutex, the reader table, the free-page records | txn_begin, page_alloc, page_touch, freelist_save, commit, abort, write_meta | called by the adapter |
| LMDB: dirty pages and nesting | `lmdb/mdb.c` | of each open transaction: its dirty, spilled, freed and loose pages, and the room left | page_touch, page_spill, page_unspill, page_flush, txn_begin, commit and abort of a child | under every write |
| LMDB: page lists | `lmdb/midl.c` | arrays that carry their length and size | search, append, merge, sort, grow, shrink | called by the transactions |
| LMDB: trees | `lmdb/mdb.c` | pages, cursors | get, put, del, split, merge | called by the adapter |
| LMDB: environment and lock file | `lmdb/mdb.c` | lock file: region, reader table, two mutexes; file locks | env_open, env_close, reader_check, find_oldest, mutex_failed | shared by all processes that have the environment open |
| LMDB: copy | `lmdb/mdb.c` | two buffers, two threads | env_copy | called by applications |
| Build, containers | `CMakeLists.txt`, `cmake/`, `docker/` | - | - | no behaviour of the program |

What makes each part correct, and what is hard about it:

* **Adapters.** A `put` or an applied batch is stored, a `get` answers with what is stored, a batch is
  applied by `applyBatch` and kept by one that failed. Hard: workers share one adapter object, each
  adapter guards itself in another way (not at all, with a mutex, with a mutex around half of the
  operations), and engines fail in the middle of a loop over shards.
* **Benchmark.** The counts it reports are those of the operations served; nothing is freed under a
  running worker; it ends. Hard: the order of stop, join, collect and delete over several threads.
* **Options.** Every flag reaches the field of its name and no other.
* **LMDB transactions.** Atomic, isolated and durable; a reader sees one committed state to its end; no
  page is lost or used twice. Hard: pages are reused across transactions under readers and crashes, the
  list of free pages is stored in pages itself, and the commit is a sequence of writes that may stop
  at each of them.
* **LMDB lock file.** One process alone initialises it; a slot of the reader table is one thread's until
  it gives it back; the oldest reader a writer finds is no later than any there is. Hard: the table is
  read and partly written without a mutex, processes die anywhere and their pids are reused, and
  mutexes lie in the very file that the first to open it initialises.
* **LMDB dirty pages and nesting.** A transaction reads what it and its ancestors wrote, a child's
  commit makes its changes the parent's and its abort leaves nothing; a page is in one list, and memory
  that is freed has no cursor on it. Hard: a page may be in the list of any level, spilled at another
  and brought back at a third, and a spill or a commit may stop half-way.
* **LMDB trees.** The tree holds what was stored; its pages keep their order, fill and counters; an open
  cursor keeps its place. Hard: a put splits pages up to the root, a deletion moves nodes or merges pages
  and may split one on the way (a longer separator), and each must mend every cursor on those pages.
* **LMDB page lists.** A list is sorted and has no more elements than places.
* **LMDB copy.** A copy that succeeds is whole. Hard: two threads fill and write two buffers that
  only a count guards, and either may fail.

`PROJECT.json` lists the hazards found in the source at their lines, with the properties that cover them
or the reason none does.

## 2. Modules

| module | models | kind |
|---|---|---|
| `StateDBSpec` | what an adapter promises (`ledger/state_db.h`) | abstract |
| `ShardedDB`, `MCShardedDB`, `ShardedDB_proofs` | the LevelDB and RocksDB adapters | detailed, instance, proofs |
| `RedisAdapter`, `MCRedisAdapter`, `RedisAdapter_proofs` | the Redis adapter | detailed, instance, proofs |
| `LmdbAdapter`, `MCLmdbAdapter`, `LmdbAdapter_proofs` | the LMDB adapter | detailed, instance, proofs |
| `Bench`, `Bench_proofs` | `full_test`, its workers, the random engine | detailed, proofs |
| `Options`, `MCOptions` | `handle_arguments` | detailed, instance |
| `LmdbStoreSpec` | what LMDB promises of its transactions | abstract |
| `LmdbLocks`, `MCLmdbLocks`, `LmdbLocks_proofs` | the lock file, processes that open and close it, the reader table | detailed, instance, proofs |
| `LmdbTxn`, `MCLmdbTxn` | LMDB's write and read transactions over pages, meta pages and lock file | detailed, instance |
| `LmdbPages_proofs`, `LmdbTxn_proofs` | what the page operations of `LmdbTxn` keep; its invariants and its refinement of `LmdbStoreSpec` | proofs |
| `Extrema` | a nonempty set of naturals has a least member, one with a bound a greatest: what the proofs about `LmdbLocks` and `LmdbTxn` need of `Min` and `Max` | lemmas |
| `LmdbTree`, `MCLmdbTree` | one B+tree and the cursors on it | detailed, instance |
| `Midl` | the page lists of `midl.c` | functions |
| `LmdbNestedSpec` | what nested transactions promise | abstract |
| `LmdbDirty` | dirty, loose and spilled pages of transactions nested in each other | detailed |
| `LmdbCopy`, `MCLmdbCopy` | the compacting copy of an environment | detailed, instance |

Operators named `X_...` after a definition `X` are faulty versions of it (a dropped guard, a missing
reset). They are in no specification; each shows that some property would notice the fault.

### StateDBSpec
`kv` is what is stored, `pending` the last batched write of each key, `flushed` the keys whose batched
write a running or failed `applyBatch` has already stored, `answer` what the last `get` of the main
thread returned. `Spec` also constrains `answer`; in `ShardedDB`, `Stored!Spec` is the contract without it.

### ShardedDB
`dbs` is `_dbs.size()`; `status[s]` and `batch[s]` are the fields of shard `s`; `store` is what the
engines hold together. A `get`, `put` or `del` is four steps, because workers share the statuses
without a lock: the call on the engine (`Get`, `Put`, `Del`), the begin and the end of the assignment
of the answer to `_dbs[idx].status` (`AssignBegin`, `AssignEnd`), and the test of that status
(`CheckStatus`), which may by then be another thread's. `leveldb::Status` owns a heap message, so two
overlapping assignments of which one is not ok may free it twice (`RaceCrash`). `open` and
`applyBatch` are loops over the shards, one action per shard. A `WriteBatch` is the last write it
holds for each key.

### RedisAdapter
`mtx` is the mutex, `call[t]` what each thread is inside. `Lock`, a command (`GetCommand`,
`WriteCommand`, `FlushAll`) and `Unlock` are separate steps; a command may throw with the mutex held
(`Throws`), which leaves the thread without a handler and ends the process. The server and the client
library are external: a command is atomic.

### LmdbAdapter
`handle` is what the member `txn` points to: nothing, a live transaction, one marked with an error,
one that has ended and still is the environment's own object, or one that has been freed. `keyBuf`
and `dataBuf` are the members `_key` and `_data`, which every call of every thread fills before it
takes the mutex; a buffer that another thread has filled, or whose string is gone, makes LMDB read
that instead. `working` is the content as the transaction sees it, `committed` what a commit has kept.
`promised` is no variable of the code: it records, where one thread uses the object, the value of each key
whose `put` or `putBatch` returned true since the transaction began. An `applyBatch` that fails gives it up, and so
does `del`, whose answer says nothing of an error; `close()` commits too, but ignores how that ends.

### Bench
`main` is where `full_test` is and `i` the index of its loop; `pc`, `readCount`, `writeCount`,
`shouldStop`, `object` belong to each worker; `served` counts what the database has really done, to
compare with the `total` that is reported. The database is the interface: one atomic read or write
between the call and its return, which may fail. `redis` is whether the engine is Redis, which matters in
three ways: a failing call throws, and nothing catches it, where those of the others return false;
the calls of its threads cannot tear what they share; and its `clear()` empties the server (`FlushAll`), where the
others remove the directory (`RemoveDirectory`). `Dies` is a call that ends the process: one that throws, one that
LMDB's adapter makes on a transaction it has lost, or two at once in an adapter without a lock.
Through `main()` the number of keys is always 0 (see
the finding about `--keys`); `Bench` takes any options `full_test` may be called with.

### Options
One action per block of `handle_arguments`, in order. Parsing by boost is external: a flag is given
with a value or is absent. Its one run is the disagreement about `--keys`; the rest of the function is
assignments that read as they are.

### LmdbTxn
`file` and `metas` are the data pages and the two meta pages as processes see them, `disk` and
`diskMetas` what a power loss is sure to leave. `txn` is the write transaction: its page images
(`buf`, the dirty list), the pages it freed (`mt_free_pgs`), its loose pages, `me_pghead`,
`me_pglast`, `me_pgoldest` (which alone outlives a transaction), the page the last allocation gave it
(`page`, `Invalid` when there was none), and the local variables of `mdb_freelist_save`. `mti_txnid` and `wmutex` are in the lock
file; `slot[r]` is a reader's `mr_txnid`. Actions follow the code: `Begin`; `Put`, `Del`, with the
page allocation of `mdb_page_alloc` in `Alloc` (the operators from `Oldest` on) and the copy on write
of `mdb_page_touch` in `Touch`; the steps of the loop of
`mdb_freelist_save` (`SaveDrop`, `SaveFreed`, `SaveReserve`, `SaveFill`); then `Flush`, `Sync`,
`WriteMeta`, `Publish` of `mdb_txn_commit`. A reader loads the txnid, stores it in its slot, checks
it, and copies the meta page, in four steps that interleave with the writer. Killing the writer,
losing the power, and a write or sync that fails may come between any two of them. Whether a
transaction is `MDB_NOMETASYNC` is chosen when it begins. `scenario` says which faults, flags and
readers there may be.

Abstractions: the main tree is a root over one leaf per key and the freeDB one leaf, so a write
touches two pages, a key that is deleted leaves a loose page, and a record holds any number of page
numbers, and the branches of `mdb_freelist_save` that split it are left out. There are no overflow pages; spilling and nesting are in `LmdbDirty`. A write of a meta page
that fails does not reach the disk (the code writes old fields back over it in the page cache, and
nobody can say what the failed device kept). After a power loss any part of what was written since
the last sync is on the disk. A process that dies drops its caches; a reader's process does not die
here.

### LmdbLocks
`reader`, `numreaders`, `mti_txnid`, `magic` and the two mutexes are the mapped region; `flock[p]` and
`pidlock` the `fcntl` locks a process has on the lock file's first byte and at its pid; `meta` the newest
txnid in the data file, all that is kept of it. `env[p]` is where `mdb_env_open` or `mdb_env_close` of a
process is: it takes the first byte (`Open`, `WaitShared`), initialises the region (`EraseMutexes`,
`InitMutexes`, `InitRegion`) or attaches to it, sets the txnid in two steps as it does in the code, and
shares the byte. A thread's `pc`, `slot` and `local` follow `mdb_txn_renew0`, `mdb_find_oldest`,
`mdb_reader_check0` and `mdb_mutex_failed`, one access to the shared table per step where no mutex
protects it: a claim resets and publishes a slot (`ResetSlot`) before it owns it (`OwnSlot`), the scan
reads a slot's pid (`ScanPid`) and later its txnid (`ScanTxnid`), a check looks for a dead pid
(`CheckSlot`), locks the reader mutex, and asks again before it clears (`ClearSlots`). `Die` stops a
process at any step. A process opened again has the pid it had: pids are reused. `notls` and `pidOf`
are chosen in `Init`: whether slots belong to threads or to transactions, and which process each
thread runs in.

What `LmdbTxn` takes as one step, `Oldest`, is a loop here; `OldestIsSafe` is what that step relies on.

Abstractions: Linux with robust mutexes; a thread dies with its process only; applications keep to
`lmdb.h` (an environment is open once in a process, and closed with no transaction in it);
`mdb_reader_check0` under the mutex is one step, since no slot can be claimed meanwhile. A process killed
between `memset` and `pthread_mutex_init` of the mutexes leaves plain ones to a process that waits for
the file; they exclude, but a later death stops them for good (`Stuck`).

### LmdbTree
A call of the API is one step, since a write transaction is used by one thread. The functions below it
are operators from the state of the call (`Start`: the tree, the cursors, the loose pages) to the state
they leave, and call each other as the code does: `CursorPut` to `Insert` to `Split`, `SplitBeside` and
the insertion into the parent; `CursorDel` to `Del0`, `Rebalance`, `NodeMove` or `PageMerge`, `UpdateKey`
and from there to `Split` again. The fields of a cursor are those of `MDB_cursor` (`snum`, `top`, `pg`,
`ki`, and the flags `C_INITIALIZED`, `C_EOF`, `C_DEL` as `init`, `eof`, `del`); its `MDB_NEXT` and its
`MDB_PREV` read them as the code does. A page of an earlier transaction is clean and must be touched
before it is written; `error` is set when the code would set `MDB_TXN_ERROR`, fail an assertion, or
write a clean page. `kv` and `at` are history: what was stored, and where each cursor was moved.
A node whose data would not fit (`Big`) has it on overflow pages: `ov` is how many, and its `dirty` says
whether this transaction wrote them, so that `InPlace` may write them again where they are. An `mdb_put`
that is refused does nothing, and `MDB_NOOVERWRITE` does nothing but refuse, so only those steps of the
flags that do something of their own are taken.

Abstractions: sizes are small numbers and are not rounded up to even, pages are renumbered after each
call. After an `MDB_APPEND` that is refused a cursor keeps the flag `C_DEL`, and after an `MDB_SET` that
finds nothing it is between items: `lmdb.h` says nothing of what such a cursor is at, so the application of
the model closes it and opens another (`Renewed`). A cursor that `MDB_NOOVERWRITE` refused is on the key, and
`at` says what `MDB_NEXT` then does with its `C_DEL`. `MDB_CURRENT` is called on an item. Overflow pages are
counted in their node, not numbered: whether they go to `me_pghead` or to the free list is not said.
Left out: sorted duplicates, `MDB_RESERVE`, `MDB_MULTIPLE`.

### Midl
Functions on sequences that keep the loops of `midl.c`: the bisection that leaves the cursor at the place
to insert, the merge from the tails, the quicksort that leaves short stretches to an insertion sort, and
the reservation of places in steps. `MidlSound` compares each with what it is for, over every list
of up to `CheckedLen` of the `CheckedIds`. `SMALL`, the stretch left to the insertion sort, is 8 in the
code and 2 in the run, so that short lists reach the partition.

### LmdbDirty
`txns` are the open transactions, each with `dirty` (`mt_u.dirty_list`, its pages marked `P_KEEP` or
`P_LOOSE`), `spill`, `free`, `loose`, `room` (`mt_dirty_room`) and its own shadow of the cursors. A page is
found by looking through the lists from the innermost transaction outwards (`PageGet`), and a pointer to it
is the level whose memory it is in. `Touch` takes a page that is dirty here, brings back a spilled one
(`Unspill`), copies an ancestor's (`CopyDown`) or a clean one (`CopyOut`). `Spill` marks what cursors
hold (`XKeep`), purges what was deleted from the spill list, chooses pages from the list's end, passes over
those that are an ancestor's (`SpilledAbove`), and flushes them; a flush that fails leaves by the code's
`goto`. `CommitChild` merges free, dirty, loose and spilled pages into the parent's lists with the loops
of `mdb_txn_commit` (`Strike`, `MergedLen`, `MergeDirty`) and passes the cursors on (`Inherited`).
`Split` and `Merged` make and unmake leaves, which is what gives transactions loose and freed pages.

Abstractions: a root over leaves that hold one value each; no freeDB, so a page that was freed is not
used again before the end (`freed`); `Needs`, what an operation is thought to dirty, is 1, where the
code's estimate is larger but always within the list.

### LmdbCopy
`pc` is the thread that called `mdb_env_copyfd1`, `wpc` the writer thread of `mdb_env_copythr`. `walks` is
the recursion of `mdb_env_cwalk`, each call a stack of pages of its cursor, which it renumbers as their
children are copied. The buffers, their lengths and `mc_error` are read and written without the mutex, as
in the code; the writer keeps the mutex while it writes, and gives it back only to wait. `Hand` is
`mdb_env_cthr_toggle` up to its wait, `AwaitBuffer` the wait, `Handed` what follows the unlock. `WriteSome` writes any
part of what is left.

## 3. Runs

A run that ends with a violation shows a disagreement between the code and what a line of the
repository says; those are in section 6. The others pass:

| run | instance | properties | what it shows |
|---|---|---|---|
| sharded | 2 shards, 2 keys and the empty one, 1 value, one thread or two, engines may fail | `TypeOK`, `OnlyOpenedShards`, `ImplementsStateDB`, `ImplementsStoring` | alone the adapter implements the contract, answers included; racing threads cannot break what is stored and batched, only what a call reports; a failed `open` leaves no index past the vector |
| redis | 2 keys, 3 threads, commands may throw | `HoldsMutex`, `ImplementsStateDB`, `CallsReturn` | the mutex is given back on every path but the exception's, which ends the process; answers are right for every interleaving |
| lmdb_adapter | 2 keys, 1 value, one thread or Main and two workers, with and without errors of LMDB | `NoCrash`, `WritersExclude`, `AppliedIsCommitted`, `PutsStay`, `ImplementsStateDB` | without errors the adapter is a StateDB and closes cleanly; with them a put answered with true is kept until `applyBatch` has committed it or returned false; the mutex keeps writers apart and is never left locked |
| bench | 2 workers, 2 keys, 2 operations each, Redis or an engine in the directory, a new or an old directory, calls may fail or not | `ReportIsExact`, `NothingFreedInUse`, `PreloadedReadsMatch`, `Terminates` | counts are exact, objects outlive their threads, a preloaded key is read as itself even in an old directory; the run ends with the store emptied and, but on Redis, the directory removed, or in a call that ends the process |
| lmdb_txn | 2 keys, 4 transactions, 4 writes among them, 9 data pages; with or without `MDB_NOMETASYNC` and every fault, or with a reader and writers that may be killed | `SaveSettles`, `PagesOnce`, `TxnidUpdated`, `SnapshotIntact`, `SnapshotIsCommitted`, `ImplementsStore` | transactions are atomic and durable across kills, power losses and failed writes; every page, of the file and of the disk, is in exactly one place; saving the free list in a freeDB of one leaf takes two puts at most; a reader sees one committed state to its end |
| lmdb_locks | 2 processes, 3 threads in one or both, a table of 2 slots, 3 opens, 3 transactions (reads and writes), a check | `SlotsHeld`, `MutexesHeld`, `OldestIsSafe`, `CheckClears`, `WriterFollows` | the region is initialised by one process alone, also when that one dies half-way; nobody loses a slot or a mutex to another's check, close or claim; a check clears what is stale; a writer follows the last commit |
| lmdb_tree | 6 keys of two sizes, one of them with data of two sizes, pages of 9 units, one cursor, a commit when two keys are held | `WellFormed`, `TreeHoldsMap`, `CountsExact`, `CursorsKeepPlace` | after every sequence of calls the tree is well formed, holds the map it was asked to, counts exactly, and the cursor is at its key with the pages its indices lead to |
| lmdb_dirty | 3 leaves, 2 values, one cursor, 3 levels of nesting, a dirty list of 3, a map of 10 pages, 6 operations, the commit's writes may fail | `ListsSound`, `RoomExact`, `PagesAccounted`, `CursorsCurrent`, `ListFunctionsSound`, `ImplementsNested` | whatever was spilled, brought back, copied, merged or dropped at whatever level, each transaction reads and leaves what nesting promises, no page is lost or used twice, and cursors hold the pages they should |
| lmdb_copy | 5 environments of up to 12 pages, buffers of 2 pages, every call may fail, a wakeup without a signal | `BuffersApart`, `CopyIsExact`, `Terminates` | the threads never share a buffer; a copy that succeeds has every page once and every reference mended, and one that cannot be right (a lost page) does not succeed; both threads end |

The type invariant of a module is its `TypeOK`. Where no run lists it by itself it is the first part of
another invariant (`WritersExclude`, `NothingFreedInUse`, `PagesOnce`, `SlotsHeld`, `WellFormed`,
`ListsSound`). Those of `ShardedDB`, `RedisAdapter`, `LmdbAdapter`, `Bench`, `LmdbLocks` and `LmdbTxn` are proved,
by themselves or as the first part of an inductive invariant.

Some variables are chosen in `Init` and never change: `threads` and `errors` of the adapters,
`redis` and `errors` of `Bench`, `notls` and `pidOf` of `LmdbLocks`, `scenario` of `LmdbTxn`, `source` of
`LmdbCopy`. They let one run ask a question of one thread (what do a get's answers say) beside
one of several (what is stored).

### Bounds, and why they are enough
* Adapters: calls are unbounded, so the state graphs are complete for the instance. Two shards show
  what a loop that stops in the middle leaves, two keys one shard or two; a third thread adds only
  more of the same race.
* `Bench`: `MaxOps` bounds the operations of one worker, the time the run takes being left to chance.
  Two operations are the least with a read of what the same worker wrote.
* `LmdbTxn`: `MaxTxns`, `MaxWrites` (of all transactions together) and the reads of a scenario bound what
  is begun. A page freed by transaction n may be reused by n+2 at the earliest, which also deletes
  its record and records the pages left over again, so that four transactions go through a page's
  whole life; a meta page is written again after two. With four writes a transaction may also put
  and delete, and end with loose pages. Two bounds show: loose pages left over beside records in use
  (the branch of `SaveFill` that joins both) need seven writes, beyond this instance; and `MaxPg` is
  small enough for the map to fill up, at the cost of fewer pages to reuse. Faults and a reader are not
  in one scenario: a reader only holds pages back (`Oldest`), which the writer's faults do not ask about.
* `LmdbLocks`: three opens are two processes and a pid that is used again. Three transactions are a
  reader older than the commit a writer follows; or a slot that goes stale, one given back, and one
  claimed under a pid that is reused while a check is clearing it; or a table that is full. Processes
  and threads are symmetric, and only invariants are checked.
* `LmdbTree`: calls are unbounded, so the graph is complete for six keys. Five make a tree of three levels;
  a sixth lets every case of `mdb_rebalance` happen at a branch page. Two sizes of keys make a separator
  give way to a longer one. One key has small data or two overflow pages: its node grows and shrinks in
  place, and dirty pages are kept for data that would need none. `Commits` says at how many keys held another
  transaction follows, so that pages are partly clean from then on. One branch of the code is not
  needed by any state of the instance: the left page of a split that has changed its parent
  (`LeftPath`).
* `LmdbDirty`: three levels are a parent that is a child itself, so that a page can be spilled by one,
  brought back by the second and copied by the third. A dirty list of three is full after a root and two leaves. Six
  operations (puts, deletions, nested begins, cursor moves) reach every branch of the spill and of the merge.
* `LmdbCopy`: the five environments are empty; a leaf with an overflow item longer than a buffer; the same
  with a page lost; three levels; and overflow items, databases and an empty database in leaves. Two pages
  are the least a buffer can hold (the meta pages), so that every page after them may find it full. One
  spurious wakeup at any wait shows that the waits are loops.

### Fairness
* A thread inside a call runs on: `WF` of its steps, in `RedisAdapter` and `Bench`. The code never
  blocks but on a mutex and in `join`, whose steps are then not enabled.
* `SF` of `Lock` in `RedisAdapter`: a mutex given back again and again is not kept from one waiter for
  ever. `std::mutex` does not promise it; the schedulers dbbench runs on give it, and without it no
  program with a mutex terminates. Only `CallsReturn` rests on it.
* `WF` of each thread of `LmdbCopy`: the provider blocks on the mutex, which the writer gives back whenever
  there is nothing to write, and the writer on nothing but its wait. A `write` returns.
* Deadlock is not an error in runs of models that end or may stop: a process that has crashed or exited, or a
  bound that is used up. `lmdb_tree` and `lmdb_dirty` are checked for it.
* Nothing is assumed of faults, of the clock or of callers. What of `LmdbAdapter` and `LmdbTxn` could
  be said as liveness is said as safety: a mutex is held only by a thread inside (`WritersExclude`), and
  `mdb_freelist_save`, which "keeps trying until it stabilizes", is done after two puts where the freeDB is
  one leaf (`SaveSettles`).

## 4. Proofs

The theorems hold for any number of shards, threads, processes, slots, readers, keys, values and pages,
and any bound on operations, opens and transactions. They rest on the named assumptions of the modules
and nothing else: `ShardAssumption` (there is a shard, and each key has one), `NameAssumption` (of the
adapters: placeholders are not values), `OptionsAssumption` (`Bench`: numbers are naturals, `--read`
is a percentage), and `Assumptions` of `LmdbLocks` (a slot at least, placeholders are not threads or
pids) and of `LmdbTxn` (one data page at least, natural bounds, scenarios of known faults). No fairness
is used.

| theorem | says | argument |
|---|---|---|
| `ShardedDB_proofs!TypeCorrect` | `Spec => []TypeOK` | inductive as it stands, one lemma per shape of update |
| `ShardedDB_proofs!IndicesInRange` | `Spec => []OnlyOpenedShards` | the progress of the loop of `open` |
| `ShardedDB_proofs!StoresLikeStateDB` | `Spec => ImplementsStoring` | each step maps to a step of the contract or stutters |
| `ShardedDB_proofs!AnswersLikeStateDB` | `Spec => ImplementsStateDB` | the same with answers, from `Solo` |
| `RedisAdapter_proofs!MutexIsHeld` | `Spec => []HoldsMutex` | with `TypeOK` |
| `RedisAdapter_proofs!RedisIsAStateDB` | `Spec => ImplementsStateDB` | each step maps, with `HoldsMutex` for the answer of `get` |
| `LmdbAdapter_proofs!WritersTakeTurns` | `Spec => []WritersExclude` | `MutexInv` |
| `LmdbAdapter_proofs!AppliedLeavesNothing` | `Spec => []AppliedIsCommitted` | `HandleInv` |
| `LmdbAdapter_proofs!OneThreadIsSafe` | `Spec => []NoCrash` | `HandleInv` with `BuffersInv` |
| `LmdbAdapter_proofs!PromisedIsKept` | `Spec => []PutsStay` | `ValueInv` and `Promises`, from `BuffersInv` |
| `LmdbAdapter_proofs!LmdbIsAStateDB` | `Spec => ImplementsStateDB` | each step maps while LMDB meets no error; `BuffersInv` for answers |
| `Bench_proofs!TypeCorrect` | `Spec => []TypeOK` | inductive |
| `Bench_proofs!NothingIsFreed` | `Spec => []NothingFreedInUse` | `Progress` of the main thread's loops |
| `Bench_proofs!ReportCountsAll` | `Spec => []ReportIsExact` | `Report`, with prefix sums as a witness |
| `Bench_proofs!PreloadedKeysRead` | `Spec => []PreloadedReadsMatch` | `Preloads` |
| `LmdbLocks_proofs!NobodyTakesMutexes` | `Spec => []MutexesHeld` | `Inv`, see below |
| `LmdbLocks_proofs!SlotsStayHeld` | `Spec => []SlotsHeld` | `SlotInv`, `ReaderInv` |
| `LmdbLocks_proofs!WriterComesNext` | `Spec => []WriterFollows` | `TxnidInv` |
| `LmdbLocks_proofs!CheckClearsDead` | `Spec => []CheckClears` | `CheckInv` |
| `LmdbLocks_proofs!OldestReaderIsKept` | `Spec => []OldestIsSafe` | `OldestInv` |
| `LmdbTxn_proofs!TypeCorrect` | `Spec => []TypeOK` | first part of `Inv` |
| `LmdbTxn_proofs!LockFileFollows` | `Spec => []TxnidUpdated` | `Numbers` |
| `LmdbTxn_proofs!TransactionsAreAtomic` | `Spec => ImplementsStore` | each step maps to a step of `LmdbStoreSpec` or stutters, faults included |
| `LmdbTxn_proofs!ReadersKeepSnapshots` | `SnapshotIntact`, where no write of a meta page fails | `ReadInv` |
| `LmdbTxn_proofs!ReadersReadCommits` | `SnapshotIsCommitted`, where no write of a meta page fails | `ReadInv` |
| `LmdbTxn_proofs!NoPageLost` | `Spec => []PagesOnce` | `Whole`, part of `Kept`, and `Stage` |

**ShardedDB.** The inductive invariant is `TypeOK /\ LifeInv /\ BatchInItsShard`. `OnlyOpenedShards`
alone is not inductive: that no engine past `_dbs.size()` is called depends on where the loop of
`open` is (`LifeInv`: while `phase` is "open" the loop has pushed exactly `dbs` shards, and a ready
object has them all). The refinement needs `BatchInItsShard`: `pending` reads the batch of a key in
its own shard, and `ApplyShard` stores all that the batch holds, which is the same only if no batch
holds a key of another shard. For the answers of `get` there is `Solo`: where one thread uses the object, the
value its engine found stays that of the store until the call ends, and the status it tests is the one
its own call was answered with - which is what fails with several threads, and why the contract's
answers are stated for one.

**RedisAdapter.** The contract's answer to a `get` is what the command found, read after `Unlock`; it
stays the store's only because one thread at a time is between `lock()` and `unlock()` (`HoldsMutex`).

**LmdbAdapter.** `MutexInv` ties the mutex to the thread between `lock` and `unlock` in both
directions; `CallersInv` says that the main thread calls alone. `HandleInv` is the life of the
transaction: one that is over leaves nothing uncommitted, and without an error of LMDB it is over
only between the two steps of `applyBatch`. `BuffersInv` is what makes a single thread right where
several are not: it finds in `_key` and `_data` what it put there, so that what LMDB is given is what was
asked for. `ValueInv` follows a put's value from the argument through `_data` into LMDB, and with
`BuffersInv` for its key it gives `Promises`: the transaction holds what was promised, also after a later call has
failed or marked it, since only a commit drops what it holds, and one that drops it returns false. `Promises` says
nothing of what is committed; `HandleInv` adds that, with `AppliedIsCommitted` between the two steps of `applyBatch`.

**Bench.** `Progress` says how far the workers are while the main thread goes through its loops: those up
to `i` are alive, or joined. `ReportIsExact` compares a sum over all workers with a total that a loop adds
up; the recursive sum is out of the prover's reach, so the invariant says that there is a sequence of
prefix sums (`IsSumOf`) that ends in what was served and in whose `i`-th the loop is (`Accounted`),
and each step gives the next such sequence. A worker counts before it calls, so the sums are of the counts
less the call in progress.

**LmdbLocks.** `Inv` has a part per mechanism. `FileLocks`: the first byte is locked exclusively by the one
process that initialises the region. `IdleOutside`: no thread is in a call of a process that has not got the
environment open. `WriterPlaces` with `MutexesHeld`: no open, close, death or check takes a mutex from
its owner. `SlotInv` and `ReaderInv`: a slot is one thread's and shows its process's pid, which is
locked from before the claim, so that a check that finds a pid unlocked finds no live owner; the slot
a thread is about to own belongs to nobody. `Ranges` and `MetaBound` bound the loops and the
numbers. `TxnidInv` says where `mti_txnid` may differ from the data file: a writer is between the two, died
there, or an open is initialising the region; it is stated up to `setBack` (section 6). `CheckInv`: the
slots a check has still to clear are ahead of its loop, and a pid it has seen dead and that came back is no
longer among them. `OldestInv`: a reader is ahead of the scan of the table, or not older than what the scan has
found - the reader verifies its txnid after it stored it, so that one that slips in behind the scan is
not older than the `mti_txnid` the scan began with.

**LmdbTxn.** `LmdbPages_proofs` has a lemma for each operator on pages (`Alloc`, `Touch`, `Own`, `SetChild`,
`Loosen`, put, delete, and each step of `mdb_freelist_save`): it keeps the types, puts no page in
two places (`Once`), loses none (`LosesNone`: a page that had a place still has one; one that is taken, and
for a moment in no place, gets one in the same call), and takes none of a set of pages that are out of its reach (`Held`). `LmdbTxn_proofs` builds
the invariant on them:

* `Numbers`: txnids of meta pages have the parity of their side and are at most `mti_txnid`, or one more
  between the write of the meta page and its publication. `MetaRel`: the disk's newest meta page is the
  file's, or the one before it.
* `Stage`: what each stage of a commit leaves for the next one: each page in one place and one only, after
  the save a free list that is in the tree, after the flush the images in the file, after the sync on the disk.
* `Kept`, of the newest meta page of the file and of that of the disk: its pages are the same on disk as in
  the file, no transaction can take them (`Guard`), and none of those being written is among them. This is the
  heart: it is what makes a killed writer or a power loss at any point harmless. It is inductive only with
  `Guard` stated over records: a page freed by transaction n is in a record that is not read before `n`
  is older than every reader and older than the last commit on disk.
* `ReadInv`, one part per place of a reader: `Offered` and `CurrentKept` (what it would read if it
  found its number to be current is committed and kept), `SlotKept` (once checked, `pgoldest` is not past
  its slot), `Copies` (the meta page on its slot's side is one that was current since it began, even if a later
  transaction has been written there), `Reading` (its tree is what it was, and its pages are kept).

`ImplementsStore` follows from `Kept`: a flush changes no page of a committed tree, so that the abstract
store moves only at `WriteMeta` (what is stored becomes the transaction's tree, and what is durable too, or,
with `MDB_NOMETASYNC`, the tree before it), at `Sync` (an earlier commit becomes durable) and at a power loss
(what is stored becomes what is durable, or stays).

`NoPageLost` is the audit of `mdb_audit` for any number of transactions: the pages of a meta page are
those of its tree, the freeDB's root and the records, each in one of these only (`Whole`). It holds of the
file and of the disk because a flush writes no page of either's newest meta page (`Kept`), and it passes from one commit
to the next through `Fill`: what the transaction freed, took and did not use, and loosened ends in records, or
in the tree. A call that fails marks the transaction, which may then have lost pages, and which can only be aborted.

The two theorems about readers exclude scenarios in which the write of a meta page fails. This is not
for the proof's convenience: with such a failure the property is false of the code (section 6).

`Extrema` shows from well-foundedness that a nonempty set of naturals up to a bound has a least and a
greatest member: `Min` and `Max` are defined by CHOOSE, and the oldest reader and the next record
of the free list are such.

Left to TLC:

* liveness (`CallsReturn`, both `Terminates`), which needs fairness;
* `SaveSettles`, whose bound of two puts is that of a freeDB of one leaf with records of any size. The branches
  of `mdb_freelist_save` that split the room over several records, or put it on overflow pages (`mdb.c` 3556-3568),
  and a freeDB of several leaves, whose saving frees and takes more pages, are not modelled: of the loop in
  general nothing is shown.
* `LmdbTree`, `LmdbDirty`, `Midl` and `LmdbCopy`, which follow recursive code with RECURSIVE operators, for which
  the proof system has no backend, and `Options`, whose one run is a disagreement.

## 5. Not modelled

The engines behind the adapters (external: a call is atomic, may fail, and leaves the store as it
was if it does), the integrity test (a fixed sequence of calls that the adapters' runs contain), `treeSize`,
the provider, `redis.conf` and containers. Of LMDB: overflow pages but in `LmdbTree` and `LmdbCopy`, sorted duplicates and fixed-size
keys (`MDB_DUPSORT`, `P_LEAF2`), named databases and their handles, `mdb_env_copyfd0`, the settings of
an environment, the tools, 32-bit builds, Windows, System V semaphores, `MDB_WRITEMAP`, `MDB_NOSYNC`,
`MDB_PREVSNAPSHOT` and encryption, none of which dbbench uses.

## 6. Where the code and the repository's words part

| run | the code | the words |
|---|---|---|
| lmdb_dirty_keep | a spill that fails to write leaves its parent's pages marked `P_KEEP`; the child is aborted, and the parent's commit succeeds without writing them | `lmdb/lmdb.h:1036` "Commit all the operations of a transaction into the database." |
| lmdb_tree_next | a cursor on the last item keeps `C_EOF` when a split moves what is stored after it to a new page; `MDB_NEXT` then finds nothing | `lmdb/lmdb.h:411` "Position at next data item" |
| options_keys | the block of `--keys` assigns `stringLength`, and nothing assigns `keys` | `main.cpp:24` "number of keys" |

Other divergences are read off the models without a run of their own:

* `LMDB::get` is inside the transaction without the mutex, beside a put or another get, where
  `lmdb/intro.doc:36` says "A transaction must only be used by one thread at a time." (`LmdbAdapter`: `Get` has
  no step that locks; `Crash` counts a get that a put raced.)
* `randKeys()` draws one key more than is preloaded, where `util/test.cpp:96` says "Create some fixed value
  for reading" (`Bench`, `RandKeys`); and `--read 100` still writes, since `rand100()` draws one of 101
  numbers (`Rand100`).
* A reader delayed between the check of the txnid and the copy of the meta page (`LmdbTxn`, `CheckTxnid` and
  `CopyMeta`) reads a later transaction than its txnid says, where `lmdb/lmdb.h:1028` says of the id "this
  corresponds to the snapshot being read". The snapshot is a committed one and stays intact.
* Opening the environment sets `mti_txnid` to what the meta page said before, without the writer's mutex, so a
  commit in between is undone for the next writer (`LmdbLocks`, `setBack`, up to which `WriterFollows` is
  stated), where `lmdb/mdb.c:11140` says "Keep mti_txnid updated, otherwise next writer can overwrite data
  which latest meta page refers to."
* A cursor that has deleted, and is then refused an `MDB_NOOVERWRITE` put, is on the key that exists but keeps
  `C_DEL`: `MDB_NEXT` returns that key once more, where `lmdb/lmdb.h:411` says "Position at next data item"
  (`LmdbTree`, `CurPut`).
* `--len` is overwritten by the block of `--keys` (`Options`, `Keys`); the default number of threads is one less
  than the number of cores, none on a single one (`ThreadsByDefault`).
* When the write of a meta page fails, the code writes the old txnid and last page back over it, but not the old
  roots (`LmdbTxn`, `MetaFails`), where `lmdb/mdb.c:4270` says "Write some old data back, to prevent it from being
  used." Nothing that looks for the newest meta page uses it, but a reader between `CheckTxnid` and `CopyMeta`, whose
  slot is of that page's side, copies the root of the transaction that failed, whose pages the next writer takes.
  With a reader beside such a failure TLC finds `SnapshotIntact` violated; the scenarios that are checked, and the
  theorems about readers, are without it. (The reader is one of another process: in the writer's own,
  `mdb_txn_renew0` tests `MDB_FATAL_ERROR` after the copy.)
* On Redis the directory that `createSingle` makes stays, since `RedisDB::clear` empties the server instead of
  removing it, where `util/test.cpp:149` says "Clean up" (`Bench`, `FlushAll`); and a command that throws ends the
  benchmark with the directory and the server's keys left (`Dies`).
* `LMDB::del` and `delBatch` return true for every error but `MDB_NOTFOUND` (`LmdbAdapter`, `MdbDel`); in
  `ShardedDB` a `put` that failed may report the success of a call on the same shard that raced it (`AssignEnd`,
  `CheckStatus`). No line of the repository says otherwise, so neither is a finding.
* In `LmdbAdapter` an `applyBatch` that failed leaves a handle that later calls go on using (`Crash`, and the
  handle's values "spent" and "freed").

## 7. Plan

1. Theorems about `LmdbDirty` and `LmdbTree`, with recursive functions in the place of their RECURSIVE
   operators. What these compute needs induction over data, so the invariants would have to carry it step by step.
2. `LmdbDbi`: handles of named databases across transactions.
3. Overflow pages in `LmdbDirty`; `mdb_env_copyfd0` as a reader of `LmdbTxn`.
4. Compositions: `Bench` over `ShardedDB` and over `LmdbAdapter` with `LmdbTxn` behind it.
