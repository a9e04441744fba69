------------------------------ MODULE LmdbCopy ------------------------------
(***************************************************************************)
(* The compacting copy of an environment (src/lmdb/mdb.c,                  *)
(* mdb_env_copyfd1).  A provider walks the tree of a read transaction,     *)
(* numbers its pages anew and fills one of two buffers with them; a writer *)
(* thread writes the other.  A mutex and one condition variable guard the  *)
(* count of buffers handed over, mc_new; the buffers, their lengths and    *)
(* mc_error are read and written without them.  Either thread may fail.    *)
(*                                                                         *)
(* A page is known by the number it has in the source (src), the number it *)
(* is given (pgno), and its references to other pages.  An overflow item   *)
(* of several pages is its first page and a tail, of which the buffer only *)
(* has a pointer into the map (mc_over) and a length (mc_olen).  Pages the *)
(* environment has no reference to are not in the source.                  *)
(***************************************************************************)
EXTENDS Integers, Sequences, FiniteSets, SequencesExt

CONSTANTS
    Sources,      \* environments to copy: see Source
    WBUF,         \* MDB_WBUF in pages, at least NUM_METAS
    Faults,       \* what may fail: a subset of Fault
    MaxSpurious   \* bound: wakeups without a signal

NUM_METAS == 2
EOF       == 16                   \* MDB_EOF
Invalid   == 0                    \* P_INVALID
Ok        == "ok"                 \* MDB_SUCCESS
Fault     == {"sigmask", "create", "begin", "page", "write"}

(* page: the reachable pages by number, 0 and 1 the meta pages, the second *)
(* with a reference to the root.  A reference is to a child, an overflow   *)
(* item ("big") or the root of another database ("sub").  next:            *)
(* mt_next_pgno; free: the pages in the freeDB and of it.                  *)
Ref(kind, pg) == [kind |-> kind, pg |-> pg]
SourcePage(branch, refs, pages) == [branch |-> branch, refs |-> refs, pages |-> pages]

VARIABLES
    source,    \* the environment being copied
    pc,        \* where the provider is
    walks,     \* its calls of mdb_env_cwalk, each a stack of pages
    adjust,    \* what it hands over: a buffer, or the last one and EOF
    next,      \* mc_next_pgno
    toggle,    \* mc_toggle
    root,      \* what the walk has made of the root: *pg
    wbuf, wlen, over, olen,  \* of each buffer: the pages in it, the tail of the last
    new,       \* mc_new
    error,     \* mc_error
    mutex,     \* mc_mutex: the writer keeps it but to wait, the provider for a moment
    asleep,    \* the threads in pthread_cond_wait
    wpc, wtoggle,       \* where the writer is, and its buffer
    wsize, wptr,        \* what it has left to write, and where
    out,       \* the pages in the new file
    spurious,  \* wakeups without a signal so far
    result     \* what mdb_env_copyfd1 returns

walking == <<walks, next, root>>
buffers == <<wbuf, wlen, over, olen>>
shared  == <<new, mutex, asleep>>
writer  == <<wpc, wtoggle, wsize, wptr, out>>
vars    == <<source, pc, walking, adjust, toggle, buffers, shared, error, writer,
             spurious, result>>

Page(src, pgno, refs) == [src |-> src, pgno |-> pgno, refs |-> refs, part |-> 0]
TailPart(src, k)      == [src |-> src, pgno |-> Invalid, refs |-> <<>>, part |-> k]
Blank                 == Page(Invalid, Invalid, <<>>)

Init ==
    /\ source \in Sources
    /\ pc = "create" /\ walks = <<>> /\ adjust = 1
    /\ next = NUM_METAS /\ toggle = 0 /\ root = Invalid
    /\ wbuf = [b \in 0..1 |-> [i \in 1..WBUF |-> Blank]]
    /\ wlen = [b \in 0..1 |-> 0] /\ over = [b \in 0..1 |-> Invalid] /\ olen = [b \in 0..1 |-> 0]
    /\ new = 0 /\ error = Ok /\ mutex = "free" /\ asleep = {}
    /\ wpc = "none" /\ wtoggle = 0 /\ wsize = 0 /\ wptr = [over |-> FALSE, at |-> 0]
    /\ out = <<>> /\ spurious = 0 /\ result = "none"

----------------------------------------------------------------------------
(* mdb_env_copyfd1, up to the walk.                                        *)

Create ==
    /\ pc = "create"
    /\ pc' = "begin" /\ wpc' = "start"
    /\ UNCHANGED <<source, walking, adjust, toggle, buffers, shared, error, wtoggle, wsize,
                   wptr, out, spurious, result>>

CreateFails ==
    /\ pc = "create" /\ "create" \in Faults
    /\ pc' = "done" /\ result' = "create"
    /\ UNCHANGED <<source, walking, adjust, toggle, buffers, shared, error, writer, spurious>>

\* The walk ends, for better or worse: the buffer goes out with EOF.
Finish(rc) ==
    /\ error' = IF rc = Ok THEN error ELSE rc
    /\ pc' = "hand" /\ adjust' = 1 + EOF

\* mdb_txn_begin, or the count of the free pages.
BeginFails ==
    /\ pc = "begin" /\ "begin" \in Faults
    /\ Finish("begin")
    /\ UNCHANGED <<source, walking, toggle, buffers, shared, writer, spurious, result>>

RootOf(s) == IF s.page[1].refs = <<>> THEN Invalid ELSE s.page[1].refs[1].pg

\* The root will be the last page: what is left when the free ones are gone.
NewRoot == IF RootOf(source) = Invalid THEN Invalid ELSE source.next - 1 - source.free

RECURSIVE Path(_, _)
\* The pages from p down to the first leaf: mdb_page_search_root(MDB_PS_FIRST).
\* ki is the child, or the item of the leaf, that is next.
Path(s, p) ==
    <<[src |-> p, branch |-> s.page[p].branch, refs |-> s.page[p].refs, ki |-> 1]>>
    \o IF s.page[p].branch THEN Path(s, s.page[p].refs[1].pg) ELSE <<>>

Metas == <<Page(0, 0, <<>>),
           Page(1, 1, IF NewRoot = Invalid THEN <<>> ELSE <<Ref("kid", NewRoot)>>)>>

Begin ==
    /\ pc = "begin"
    /\ wbuf' = [wbuf EXCEPT ![0] = [i \in 1..WBUF |-> IF i <= NUM_METAS THEN Metas[i] ELSE Blank]]
    /\ wlen' = [wlen EXCEPT ![0] = NUM_METAS]
    /\ IF RootOf(source) = Invalid
         THEN Finish(Ok) /\ UNCHANGED walks
         ELSE pc' = "walk" /\ walks' = <<Path(source, RootOf(source))>> /\ UNCHANGED <<adjust, error>>
    /\ UNCHANGED <<source, next, root, toggle, over, olen, shared, writer, spurious, result>>

----------------------------------------------------------------------------
(* mdb_env_cwalk.  A walk is the stack of pages of its cursor.             *)

Walk == Last(walks)
Top  == Last(Walk)

SetTop(ws, f) == [ws EXCEPT ![Len(ws)] = [@ EXCEPT ![Len(@)] = f]]

\* The page the cursor is on now has the number n where it refers to the
\* page that has been copied.
Renumber(f, n) == [f EXCEPT !.refs[f.ki].pg = n]

HasItem  == ~Top.branch /\ Top.ki <= Len(Top.refs)
HasChild == Top.branch /\ Top.ki < Len(Top.refs)
Item     == Top.refs[Top.ki]
Full     == wlen[toggle] >= WBUF

\* A full buffer is handed over before anything more is put into one.
HandFull ==
    /\ pc = "walk" /\ Full
    /\ HasItem => Item.kind = "big"
    /\ ~HasChild
    /\ pc' = "hand" /\ adjust' = 1
    /\ UNCHANGED <<source, walking, toggle, buffers, shared, error, writer, spurious, result>>

Put(page) ==
    /\ wbuf' = [wbuf EXCEPT ![toggle][wlen[toggle] + 1] = page]
    /\ wlen' = [wlen EXCEPT ![toggle] = @ + 1]

NextItem(n) == SetTop(walks, [Renumber(Top, n) EXCEPT !.ki = @ + 1])

\* Mutant of AddOverflow: the buffer is not handed over with its tail.
AddOverflow_GoesOn ==
    /\ pc = "walk" /\ HasItem /\ Item.kind = "big" /\ ~Full
    /\ Put(Page(Item.pg, next, <<>>))
    /\ next' = next + source.page[Item.pg].pages
    /\ walks' = NextItem(next)
    /\ IF source.page[Item.pg].pages > 1
         THEN /\ olen' = [olen EXCEPT ![toggle] = source.page[Item.pg].pages - 1]
              /\ over' = [over EXCEPT ![toggle] = Item.pg]
         ELSE UNCHANGED <<olen, over>>
    /\ UNCHANGED <<source, pc, adjust, root, toggle, shared, error, writer, spurious, result>>

\* The first page of an overflow item goes into the buffer; the rest is
\* written from the map, so that the buffer goes with it.
AddOverflow ==
    /\ pc = "walk" /\ HasItem /\ Item.kind = "big" /\ ~Full
    /\ Put(Page(Item.pg, next, <<>>))
    /\ next' = next + source.page[Item.pg].pages
    /\ walks' = NextItem(next)
    /\ IF source.page[Item.pg].pages > 1
         THEN /\ olen' = [olen EXCEPT ![toggle] = source.page[Item.pg].pages - 1]
              /\ over' = [over EXCEPT ![toggle] = Item.pg]
              /\ pc' = "hand" /\ adjust' = 1
         ELSE UNCHANGED <<olen, over, pc, adjust>>
    /\ UNCHANGED <<source, root, toggle, shared, error, writer, spurious, result>>

\* The root of another database: mdb_env_cwalk calls itself, or has nothing
\* to do.
EnterSub ==
    /\ pc = "walk" /\ HasItem /\ Item.kind = "sub"
    /\ walks' = IF Item.pg = Invalid THEN NextItem(Invalid)
                ELSE Append(walks, Path(source, Item.pg))
    /\ UNCHANGED <<source, pc, next, root, adjust, toggle, buffers, shared, error, writer,
                   spurious, result>>

\* A branch page has another child: down to its first leaf.
Descend ==
    /\ pc = "walk" /\ HasChild
    /\ walks' = [walks EXCEPT ![Len(walks)] =
                   Last(SetTop(walks, [Top EXCEPT !.ki = @ + 1]))
                   \o Path(source, Top.refs[Top.ki + 1].pg)]
    /\ UNCHANGED <<source, pc, next, root, adjust, toggle, buffers, shared, error, writer,
                   spurious, result>>

\* The page on top is done with, and so is all below it.  Its parent, or what
\* called the walk, gets its number.
Up(n) ==
    IF Len(Walk) > 1
      THEN [walks EXCEPT ![Len(walks)] =
              [Front(@) EXCEPT ![Len(@) - 1] = Renumber(@, n)]]
    ELSE IF Len(walks) > 1
      THEN SetTop(Front(walks),
             LET f == Last(Last(Front(walks))) IN [Renumber(f, n) EXCEPT !.ki = @ + 1])
    ELSE <<>>

AddPage ==
    /\ pc = "walk" /\ ~HasItem /\ ~HasChild /\ ~Full
    /\ Put(Page(Top.src, next, Top.refs))
    /\ next' = next + 1
    /\ walks' = Up(next)
    /\ IF walks' = <<>>
         THEN /\ root' = next
              /\ Finish(IF next = NewRoot THEN Ok ELSE "incompatible")
         ELSE UNCHANGED <<root, pc, adjust, error>>
    /\ UNCHANGED <<source, toggle, over, olen, shared, writer, spurious, result>>

\* mdb_page_get of the next page fails.
PageFails ==
    /\ pc = "walk" /\ "page" \in Faults
    /\ HasItem \/ HasChild
    /\ Finish("page")
    /\ UNCHANGED <<source, walking, toggle, buffers, shared, writer, spurious, result>>

----------------------------------------------------------------------------
(* mdb_env_cthr_toggle, and what follows the last one.                     *)

BothInUse(n) == (n \div 2) % 2 = 1     \* mc_new & 2

\* Mutant of Hand: it does not wait for a buffer.
Hand_NoWait ==
    /\ pc = "hand" /\ mutex = "free"
    /\ new' = new + adjust
    /\ asleep' = asleep \ {"writer"}
    /\ pc' = "handed"
    /\ UNCHANGED <<source, walking, adjust, toggle, buffers, mutex, error, writer, spurious, result>>

Hand ==
    /\ pc = "hand" /\ mutex = "free"
    /\ new' = new + adjust
    /\ IF BothInUse(new')
         THEN pc' = "await" /\ asleep' = (asleep \ {"writer"}) \union {"provider"}
         ELSE pc' = "handed" /\ asleep' = asleep \ {"writer"}
    /\ UNCHANGED <<source, walking, adjust, toggle, buffers, mutex, error, writer, spurious, result>>

AwaitBuffer ==
    /\ pc = "await" /\ "provider" \notin asleep /\ mutex = "free"
    /\ IF BothInUse(new)
         THEN asleep' = asleep \union {"provider"} /\ UNCHANGED pc
         ELSE pc' = "handed" /\ UNCHANGED asleep
    /\ UNCHANGED <<source, walking, adjust, toggle, buffers, new, mutex, error, writer,
                   spurious, result>>

\* Without the mutex: the other buffer is emptied, and mc_error looked at.
Handed ==
    /\ pc = "handed"
    /\ toggle' = 1 - toggle
    /\ wlen' = [wlen EXCEPT ![1 - toggle] = 0]
    /\ IF adjust = 1 + EOF THEN pc' = "join" /\ UNCHANGED <<error, adjust>>
       ELSE IF error # Ok THEN Finish(error)
       ELSE pc' = "walk" /\ UNCHANGED <<error, adjust>>
    /\ UNCHANGED <<source, walking, wbuf, over, olen, shared, writer, spurious, result>>

Join ==
    /\ pc = "join" /\ wpc = "ended"
    /\ pc' = "done" /\ result' = error
    /\ UNCHANGED <<source, walking, adjust, toggle, buffers, shared, error, writer, spurious>>

----------------------------------------------------------------------------
(* mdb_env_copythr, which has the mutex but while it waits.                *)

Start ==
    /\ wpc = "start"
    /\ \E rc \in {error} \union ({"sigmask"} \intersect Faults) : error' = rc
    /\ wpc' = "lock"
    /\ UNCHANGED <<source, pc, walking, adjust, toggle, buffers, shared, wtoggle, wsize, wptr,
                   out, spurious, result>>

Lock ==
    /\ wpc = "lock" /\ mutex = "free" /\ "writer" \notin asleep
    /\ mutex' = "writer" /\ wpc' = "test"
    /\ UNCHANGED <<source, pc, walking, adjust, toggle, buffers, new, asleep, error, wtoggle,
                   wsize, wptr, out, spurious, result>>

\* pthread_cond_wait gives the mutex back.
Sleep ==
    /\ wpc = "test" /\ new = 0
    /\ mutex' = "free" /\ asleep' = asleep \union {"writer"} /\ wpc' = "lock"
    /\ UNCHANGED <<source, pc, walking, adjust, toggle, buffers, new, error, wtoggle, wsize,
                   wptr, out, spurious, result>>

Take ==
    /\ wpc = "test" /\ new \notin {0, EOF}
    /\ wpc' = "write"
    /\ wsize' = wlen[wtoggle] /\ wptr' = [over |-> FALSE, at |-> 0]
    /\ UNCHANGED <<source, pc, walking, adjust, toggle, buffers, shared, error, wtoggle, out,
                   spurious, result>>

\* What lies k pages from where the writer is.
AtPtr(k) == IF wptr.over THEN TailPart(over[wtoggle], wptr.at + k)
            ELSE wbuf[wtoggle][wptr.at + k]

\* write() takes some of what it is given.
WriteSome ==
    /\ wpc = "write" /\ wsize > 0 /\ error = Ok
    /\ \E len \in 1..wsize :
         /\ out' = out \o [k \in 1..len |-> AtPtr(k)]
         /\ wptr' = [wptr EXCEPT !.at = @ + len]
         /\ wsize' = wsize - len
    /\ UNCHANGED <<source, pc, walking, adjust, toggle, buffers, shared, error, wpc, wtoggle,
                   spurious, result>>

WriteFails ==
    /\ wpc = "write" /\ wsize > 0 /\ error = Ok /\ "write" \in Faults
    /\ error' = "write"
    /\ UNCHANGED <<source, pc, walking, adjust, toggle, buffers, shared, writer, spurious, result>>

Written == wpc = "write" /\ (wsize = 0 \/ error # Ok)

WriteTail ==
    /\ Written /\ olen[wtoggle] > 0
    /\ wsize' = olen[wtoggle] /\ wptr' = [over |-> TRUE, at |-> 0]
    /\ olen' = [olen EXCEPT ![wtoggle] = 0]
    /\ UNCHANGED <<source, pc, walking, adjust, toggle, wbuf, wlen, over, shared, error, wpc,
                   wtoggle, out, spurious, result>>

\* Mutant of Return: the provider is not told.
Return_NoSignal ==
    /\ Written /\ olen[wtoggle] = 0
    /\ wlen' = [wlen EXCEPT ![wtoggle] = 0]
    /\ wtoggle' = 1 - wtoggle
    /\ new' = new - 1
    /\ wpc' = "test"
    /\ UNCHANGED <<source, pc, walking, adjust, toggle, wbuf, over, olen, mutex, asleep, error,
                   wsize, wptr, out, spurious, result>>

\* The buffer is the provider's again.
Return ==
    /\ Written /\ olen[wtoggle] = 0
    /\ wlen' = [wlen EXCEPT ![wtoggle] = 0]
    /\ wtoggle' = 1 - wtoggle
    /\ new' = new - 1 /\ asleep' = asleep \ {"provider"}
    /\ wpc' = "test"
    /\ UNCHANGED <<source, pc, walking, adjust, toggle, wbuf, over, olen, mutex, error, wsize,
                   wptr, out, spurious, result>>

End ==
    /\ wpc = "test" /\ new = EOF
    /\ mutex' = "free" /\ wpc' = "ended"
    /\ UNCHANGED <<source, pc, walking, adjust, toggle, buffers, new, asleep, error, wtoggle,
                   wsize, wptr, out, spurious, result>>

\* pthread_cond_wait may return without a signal.
WakeUp ==
    /\ spurious < MaxSpurious /\ asleep # {}
    /\ \E t \in asleep : asleep' = asleep \ {t}
    /\ spurious' = spurious + 1
    /\ UNCHANGED <<source, pc, walking, adjust, toggle, buffers, new, mutex, error, writer, result>>

Provider ==
    \/ Create \/ CreateFails \/ Begin \/ BeginFails
    \/ HandFull \/ AddOverflow \/ EnterSub \/ Descend \/ AddPage \/ PageFails
    \/ Hand \/ AwaitBuffer \/ Handed \/ Join

Writer == Start \/ Lock \/ Sleep \/ Take \/ WriteSome \/ WriteFails \/ WriteTail \/ Return \/ End

Next == Provider \/ Writer \/ WakeUp

Spec     == Init /\ [][Next]_vars
FairSpec == Spec /\ WF_vars(Provider) /\ WF_vars(Writer)

----------------------------------------------------------------------------
(* Properties.                                                             *)

(* Nobody else touches the buffer the writer writes: while the provider
   walks, at most one buffer has been handed over and it fills the other
   (mdb_env_cthr_toggle).  The lengths are those of a buffer.               *)
BuffersApart ==
    /\ wlen \in [0..1 -> 0..WBUF] /\ olen \in [0..1 -> Nat]
    /\ pc \in {"walk", "hand"} => new % EOF <= 1 /\ (new % EOF = 1 => toggle # wtoggle)

(* The page a reference of page i of the copy is to is the copy of the page
   the source refers to there.                                              *)
Linked(i, j) ==
    \E was \in {source.page[out[i].src].refs[j].pg} :
        IF was = Invalid THEN out[i].refs[j].pg = Invalid
        ELSE /\ out[i].refs[j].pg + 1 \in DOMAIN out
             /\ out[out[i].refs[j].pg + 1].src = was
             /\ out[out[i].refs[j].pg + 1].part = 0

Headed(i) == out[i].part = 0

Whole ==
    /\ \A i \in DOMAIN out : Headed(i) =>
         /\ DOMAIN out[i].refs = DOMAIN source.page[out[i].src].refs
         /\ \A j \in DOMAIN out[i].refs : Linked(i, j)
         /\ \A k \in 1..source.page[out[i].src].pages - 1 : out[i + k] = TailPart(out[i].src, k)
    /\ {out[i].src : i \in {x \in DOMAIN out : Headed(x)}} = DOMAIN source.page
    /\ Cardinality({x \in DOMAIN out : Headed(x)}) = Cardinality(DOMAIN source.page)

(* Whatever happens, what is in the file is in its place; and a copy that
   returns MDB_SUCCESS holds every page of the source once, each reference
   and each overflow item whole, whoever might have failed and did not
   (mdb_env_cwalk, mdb_env_copythr, mdb_env_copyfd1).                       *)
CopyIsExact ==
    /\ \A i \in DOMAIN out : Headed(i) => out[i].pgno = i - 1
    /\ result = Ok => Whole

(* Both threads come to an end, also when either of them fails.             *)
Terminates == <>(pc = "done" /\ wpc \in {"none", "ended"})
=============================================================================
