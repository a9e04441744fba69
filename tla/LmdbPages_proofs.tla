-------------------------- MODULE LmdbPages_proofs --------------------------
(***************************************************************************)
(* Lemmas about the operators LmdbTxn is built from, for any number of     *)
(* keys, readers and pages: what taking a page, copying one on write and   *)
(* reading the records of the freeDB do to a transaction and to the places *)
(* in which it keeps its pages.                                            *)
(***************************************************************************)
EXTENDS LmdbTxn, Extrema, TLAPS

-----------------------------------------------------------------------------
(* Types.                                                                  *)

Place == Page \cup {Invalid}
Recs == UNION {[S -> SUBSET Page] : S \in SUBSET Ids}
Contents == [val : 0 .. MaxWrites, child : [Key -> Place], recs : Recs]
Bufs == UNION {[S -> Contents] : S \in SUBSET Page}

Txns ==
    [id : Ids, noMetaSync : BOOLEAN, root : Place, freeRoot : Place, next : 2 .. MaxPg, buf : Bufs,
     freed : SUBSET Page, loose : Seq(Page), pghead : SUBSET Page, pglast : Ids, error : BOOLEAN,
     dropped : Ids, saved : Nat, headId : Ids, room : Int, more : Int,
     rounds : Nat, page : Place, pgoldest : Ids]

Shape ==
    /\ TypeOK
    /\ file \in [Page -> Contents] /\ disk \in [Page -> Contents]
    /\ txn \in Txns
    /\ begun \in Ids /\ writes \in 0 .. MaxWrites
    /\ rload \in [Reader -> Ids]
    /\ scenario \in Scenarios

-----------------------------------------------------------------------------
(* Taking a page.                                                          *)

(* A transaction that has begun.                                           *)
Begun(t) == t \in Txns /\ t.pglast < t.id /\ t.pgoldest < t.id

(* What no call that takes a page changes.                                 *)
Same(t, u) ==
    /\ u.id = t.id /\ u.noMetaSync = t.noMetaSync /\ u.error = t.error
    /\ u.dropped = t.dropped /\ u.saved = t.saved /\ u.headId = t.headId
    /\ u.room = t.room /\ u.more = t.more /\ u.rounds = t.rounds

(* The constants, and the types the steps below use most.                  *)
LEMMA Bounds ==
    /\ MaxPg \in Nat /\ MaxPg > 2 /\ MaxTxns \in Nat /\ MaxWrites \in Nat
    /\ Ids = 0 .. MaxTxns /\ Page = 2 .. MaxPg - 1 /\ Invalid \notin Page /\ Invalid = 0
BY Assumptions DEF Ids, Page, Invalid

(* The numbers of a transaction that has begun.                            *)
LEMMA BegunFacts ==
    ASSUME NEW t, Begun(t)
    PROVE  /\ t \in Txns
           /\ t.id \in 1 .. MaxTxns /\ t.pglast \in Nat /\ t.pgoldest \in Nat
           /\ t.pglast < t.id /\ t.pgoldest < t.id
BY SMTT(40), Bounds DEF Begun, Txns

(* The empty sequence is the map of no records, and of no pages.           *)
LEMMA EmptyMaps == <<>> \in Recs /\ <<>> \in Bufs /\ DOMAIN <<>> = {}
<1>1. <<>> = [i \in {} |-> {}]
  OBVIOUS
<1>2. \A S : [i \in {} |-> {}] \in [{} -> S]
  OBVIOUS
<1> QED
  BY <1>1, <1>2 DEF Recs, Bufs

(* A new page is one.                                                      *)
LEMMA BlankType == Blank \in Contents
BY EmptyMaps, Assumptions DEF Blank, Contents, Absent, Place

(* A page set is that page, and the others stay.                           *)
LEMMA SetPageType ==
    ASSUME NEW t \in Txns, NEW p \in Page, NEW c \in Contents
    PROVE  /\ SetPage(t, p, c) \in Txns
           /\ SetPage(t, p, c) = [t EXCEPT !.buf = SetPage(t, p, c).buf]
           /\ DOMAIN SetPage(t, p, c).buf = DOMAIN t.buf \cup {p}
           /\ SetPage(t, p, c).buf[p] = c
           /\ \A q \in DOMAIN t.buf : q # p => SetPage(t, p, c).buf[q] = t.buf[q]
<1> DEFINE b == [q \in DOMAIN t.buf \cup {p} |-> IF q = p THEN c ELSE t.buf[q]]
<1>1. PICK S \in SUBSET Page : t.buf \in [S -> Contents]
  BY DEF Txns, Bufs
<1>2. b \in [S \cup {p} -> Contents]
  BY <1>1
<1>3. b \in Bufs
  BY <1>2 DEF Bufs
<1> QED
  BY <1>3 DEF Txns, SetPage

(* Nothing but the pages it dirtied changes of a transaction when one of   *)
(* them is set.                                                            *)
LEMMA BufOnly ==
    ASSUME NEW t \in Txns, NEW u, u = [t EXCEPT !.buf = u.buf]
    PROVE  /\ Same(t, u) /\ u.root = t.root /\ u.freeRoot = t.freeRoot /\ u.freed = t.freed
           /\ u.pghead = t.pghead /\ u.pglast = t.pglast /\ u.pgoldest = t.pgoldest
           /\ u.next = t.next /\ u.loose = t.loose /\ u.id = t.id /\ u.page = t.page
BY SMTT(40) DEF Txns, Same

(* What two transactions share with a third they share.                    *)
LEMMA SameTwo ==
    ASSUME NEW t, NEW u, NEW v, Same(t, u), Same(t, v)
    PROVE  Same(u, v)
BY ZenonT(60) DEF Same

(* What a transaction sees of a page is one.                               *)
LEMMA AtType ==
    ASSUME Shape, NEW t \in Txns, NEW p \in Page
    PROVE  At(t, p) \in Contents
BY DEF Shape, Txns, Bufs, At

(* The records are of txnids, and hold pages.                              *)
LEMMA RecordsType ==
    ASSUME Shape, NEW t \in Txns
    PROVE  /\ Records(t) \in Recs
           /\ DOMAIN Records(t) \subseteq Ids
           /\ \A i \in DOMAIN Records(t) : Records(t)[i] \subseteq Page
<1>1. Records(t) \in Recs
  <2>1. CASE t.freeRoot = Invalid
    BY <2>1, EmptyMaps DEF Records
  <2>2. CASE t.freeRoot # Invalid
    <3>1. t.freeRoot \in Page
      BY <2>2 DEF Txns, Place
    <3> QED
      BY <2>2, <3>1, AtType DEF Records, Contents
  <2> QED
    BY <2>1, <2>2
<1> QED
  BY <1>1 DEF Recs

(* mdb_find_oldest answers with nothing that a reader or the writer itself *)
(* could still need.                                                       *)
LEMMA OldestFacts ==
    ASSUME Shape, NEW t, Begun(t)
    PROVE  /\ Oldest(t) \in 0 .. t.id - 1
           /\ \A r \in Reader : slot[r] # NoSlot => Oldest(t) <= slot[r]
<1> DEFINE S == {t.id - 1} \cup {slot[r] : r \in {s \in Reader : slot[s] # NoSlot}}
<1>1. MaxTxns \in Nat /\ t.id \in 1 .. MaxTxns /\ slot \in [Reader -> Ids \cup {NoSlot}]
  BY Bounds, BegunFacts DEF Shape, TypeOK
<1>2. S \in SUBSET (0 .. MaxTxns) /\ S # {}
  BY <1>1 DEF Ids
<1>3. Min(S) \in S /\ \A k \in S : Min(S) <= k
  BY ZenonT(60), <1>1, <1>2, MinOfSome
<1>4. Min(S) <= t.id - 1 /\ Min(S) \in 0 .. MaxTxns
  BY <1>2, <1>3
<1>5. Oldest(t) = Min(S)
  BY DEF Oldest
<1>6. \A r \in Reader : slot[r] # NoSlot => slot[r] \in S
  OBVIOUS
<1> HIDE DEF S
<1> QED
  BY <1>1, <1>3, <1>4, <1>5, <1>6

(* What reading the records of the freeDB leaves: nothing read, or records *)
(* without pages skipped up to one that no reader needs.                   *)
Refilled(t, v) ==
    /\ v \in Txns
    /\ v = [t EXCEPT !.pgoldest = v.pgoldest, !.pghead = v.pghead, !.pglast = v.pglast]
    /\ v.pgoldest \in {t.pgoldest, Oldest(t)}
    /\ \/ v.pglast = t.pglast /\ v.pghead = t.pghead
       \/ /\ v.pglast \in DOMAIN Records(t)
          /\ t.pglast < v.pglast /\ v.pglast < v.pgoldest
          /\ v.pghead = Records(t)[v.pglast]
          /\ \A i \in DOMAIN Records(t) : t.pglast < i /\ i < v.pglast => Records(t)[i] = {}

(* Reading the records up to one that no reader needs, those before it     *)
(* being empty.                                                            *)
LEMMA ReadToFacts ==
    ASSUME NEW t \in Txns, NEW w \in Txns, w = [t EXCEPT !.pgoldest = w.pgoldest],
           w.pgoldest \in {t.pgoldest, Oldest(t)}, Records(w) = Records(t),
           NEW n \in Ids, n \in DOMAIN Records(t), Records(t)[n] \subseteq Page,
           t.pglast < n, n < w.pgoldest,
           \A i \in DOMAIN Records(t) : t.pglast < i /\ i < n => Records(t)[i] = {}
    PROVE  Refilled(t, ReadTo(w, n))
<1> DEFINE v == ReadTo(w, n)
           R == Records(t)
<1>1. v = [w EXCEPT !.pghead = R[n], !.pglast = n]
  BY DEF ReadTo
<1> HIDE DEF v, R
<1>2. v \in Txns /\ v.pghead = R[n] /\ v.pglast = n /\ v.pgoldest = w.pgoldest
  BY ZenonT(60), <1>1 DEF Txns, R
<1>3. v = [t EXCEPT !.pgoldest = v.pgoldest, !.pghead = v.pghead, !.pglast = v.pglast]
  BY <1>1, <1>2 DEF Txns
<1>4. \A i \in DOMAIN R : t.pglast < i /\ i < n => R[i] = {}
  BY DEF R
<1>5. n \in DOMAIN R
  BY DEF R
<1>6. Refilled(t, v)
  BY <1>2, <1>3, <1>4, <1>5 DEF Refilled, R
<1> QED
  BY <1>6 DEF v

(* Reading the freeDB leaves one of these states.                          *)
LEMMA RefillFacts ==
    ASSUME Shape, NEW t, Begun(t)
    PROVE  Refilled(t, Refill(Look(t)))
<1> DEFINE w == Look(t)
           U == Usable(w, w.pgoldest)
           F == Filled(w, U)
<1>1. t \in Txns /\ Oldest(t) \in Ids /\ MaxTxns \in Nat
  BY SMTT(40), OldestFacts, Assumptions DEF Begun, Txns, Ids
<1>2. /\ w \in Txns /\ w = [t EXCEPT !.pgoldest = w.pgoldest]
      /\ w.pgoldest \in {t.pgoldest, Oldest(t)}
  BY ZenonT(60), <1>1 DEF Look, Txns
<1> SUFFICES Refilled(t, Refill(w))
  OBVIOUS
<1> HIDE DEF w
<1>3. Records(w) = Records(t)
  BY <1>2 DEF Records, At, Txns
<1>4. /\ U \in SUBSET (0 .. MaxTxns) /\ U \subseteq DOMAIN Records(t)
      /\ F \in SUBSET (0 .. MaxTxns) /\ F \subseteq U
      /\ \A i \in DOMAIN Records(t) : i \in U <=> t.pglast < i /\ i < w.pgoldest
      /\ \A i \in U : i \notin F => Records(t)[i] = {}
  BY ZenonT(60), <1>1, <1>2, <1>3, RecordsType DEF Usable, Filled, Ids, Txns
<1> HIDE DEF U, F
<1>5. /\ w.pgoldest \in Int /\ DOMAIN Records(t) \subseteq Int
      /\ \A i \in U : i \in Int /\ i < w.pgoldest
  <2>1. w.pgoldest \in Int
    BY <1>2, Bounds DEF Txns
  <2>2. DOMAIN Records(t) \subseteq Int
    BY <1>1, Bounds, RecordsType
  <2> QED
    BY <1>4, <2>1, <2>2
<1>6. CASE U = {}
  <2>1. Refill(w) = w
    BY <1>6 DEF Refill, Read, U
  <2> QED
    BY ZenonT(60), <1>1, <1>2, <2>1 DEF Refilled, Txns
<1>7. CASE U # {} /\ F = {}
  <2>1. Max(U) \in U /\ \A k \in U : k <= Max(U)
    BY <1>1, <1>4, <1>7, MaxOfSome
  <2>2. Refill(w) = ReadTo(w, Max(U))
    BY <1>7 DEF Refill, Read, U, F
  <2>3. Max(U) \in DOMAIN Records(t) /\ Max(U) \in Ids /\ Records(t)[Max(U)] \subseteq Page
    BY <1>1, <1>4, <2>1, RecordsType
  <2>4. \A i \in DOMAIN Records(t) : t.pglast < i /\ i < Max(U) => Records(t)[i] = {}
    <3> SUFFICES ASSUME NEW i \in DOMAIN Records(t), t.pglast < i, i < Max(U) PROVE Records(t)[i] = {}
      OBVIOUS
    <3>1. i \in Int /\ Max(U) \in Int /\ Max(U) < w.pgoldest
      BY <1>4, <1>5, <2>1
    <3> QED
      BY <1>4, <1>7, <1>5, <2>1, <3>1
  <2>5. t.pglast < Max(U) /\ Max(U) < w.pgoldest
    BY <1>4, <1>5, <2>1
  <2> QED
    BY <1>1, <1>2, <1>3, <2>2, <2>3, <2>4, <2>5, ReadToFacts
<1>8. CASE U # {} /\ F # {}
  <2>1. Min(F) \in F /\ \A k \in F : Min(F) <= k
    BY <1>1, <1>4, <1>8, MinOfSome
  <2>2. Refill(w) = ReadTo(w, Min(F))
    BY <1>8 DEF Refill, Read, U, F
  <2>3. Min(F) \in DOMAIN Records(t) /\ Min(F) \in Ids /\ Records(t)[Min(F)] \subseteq Page
    BY <1>1, <1>4, <2>1, RecordsType
  <2>4. \A i \in DOMAIN Records(t) : t.pglast < i /\ i < Min(F) => Records(t)[i] = {}
    <3> SUFFICES ASSUME NEW i \in DOMAIN Records(t), t.pglast < i, i < Min(F) PROVE Records(t)[i] = {}
      OBVIOUS
    <3>1. i \in Int /\ Min(F) \in Int /\ Min(F) < w.pgoldest
      BY <1>4, <1>5, <2>1
    <3> QED
      BY <1>4, <1>5, <2>1, <3>1
  <2>5. t.pglast < Min(F) /\ Min(F) < w.pgoldest
    BY <1>4, <1>5, <2>1
  <2> QED
    BY <1>1, <1>2, <1>3, <2>2, <2>3, <2>4, <2>5, ReadToFacts
<1> QED
  BY <1>6, <1>7, <1>8

(* One page taken from v, or none where there is none: a loose page, then  *)
(* one of those read from the freeDB, then the next of the file.           *)
TakenFrom(v, u) ==
    \/ /\ v.loose # <<>> /\ u.page = Head(v.loose) /\ u.loose = Tail(v.loose)
       /\ u.pghead = v.pghead /\ u.next = v.next
    \/ /\ v.loose = <<>> /\ u.page \in v.pghead /\ u.pghead = v.pghead \ {u.page}
       /\ u.loose = v.loose /\ u.next = v.next
    \/ /\ v.loose = <<>> /\ v.pghead = {} /\ u.page = v.next /\ u.next = v.next + 1
       /\ u.loose = v.loose /\ u.pghead = v.pghead

Dirtied(v, u) ==
    /\ DOMAIN u.buf = DOMAIN v.buf \cup {u.page}
    /\ \A q \in DOMAIN v.buf : q # u.page => u.buf[q] = v.buf[q]

Taken(v, u) ==
    /\ u \in Txns
    /\ u = [v EXCEPT !.buf = u.buf, !.loose = u.loose, !.pghead = u.pghead, !.next = u.next,
                     !.page = u.page]
    /\ \/ /\ u.page = Invalid
          /\ u.buf = v.buf /\ u.loose = v.loose /\ u.pghead = v.pghead /\ u.next = v.next
       \/ /\ u.page \in Page
          /\ Dirtied(v, u) /\ u.buf[u.page] = Blank
          /\ TakenFrom(v, u)

(* A page taken is new and dirty.                                          *)
LEMMA TakeFacts ==
    ASSUME NEW t \in Txns, NEW p \in Page
    PROVE  /\ Take(t, p) \in Txns
           /\ Take(t, p) = [t EXCEPT !.buf = Take(t, p).buf, !.page = p]
           /\ Take(t, p).page = p
           /\ Dirtied(t, Take(t, p)) /\ Take(t, p).buf[p] = Blank
<1> DEFINE w == SetPage(t, p, Blank)
<1>1. /\ w \in Txns /\ w = [t EXCEPT !.buf = w.buf]
      /\ DOMAIN w.buf = DOMAIN t.buf \cup {p} /\ w.buf[p] = Blank
      /\ \A q \in DOMAIN t.buf : q # p => w.buf[q] = t.buf[q]
  BY SetPageType, BlankType
<1>2. Take(t, p) = [w EXCEPT !.page = p]
  BY DEF Take
<1> HIDE DEF w
<1> QED
  BY ZenonT(60), <1>1, <1>2 DEF Dirtied, Txns, Place

(* The next page of the file is taken, if there is one.                    *)
LEMMA TakeNextFacts ==
    ASSUME NEW t \in Txns, t.loose = <<>>, t.pghead = {}
    PROVE  Taken(t, TakeNext(t))
<1>1. CASE t.next + 1 < MaxPg
  <2> DEFINE w == [t EXCEPT !.next = @ + 1]
             u == Take(w, t.next)
  <2>1. t.next \in Page /\ w \in Txns
    <3>1. t.next \in Page /\ t.next + 1 \in 2 .. MaxPg
      BY SMTT(40), <1>1, Bounds DEF Txns
    <3> QED
      BY ZenonT(60), <3>1 DEF Txns
  <2>2. TakeNext(t) = u
    BY <1>1 DEF TakeNext
  <2>3. /\ u \in Txns /\ u = [w EXCEPT !.buf = u.buf, !.page = t.next] /\ u.page = t.next
        /\ Dirtied(w, u) /\ u.buf[t.next] = Blank
    BY ZenonT(60), <2>1, TakeFacts
  <2> HIDE DEF u
  <2>4. Dirtied(t, u)
    BY <2>3 DEF Dirtied, Txns
  <2>5. u = [t EXCEPT !.buf = u.buf, !.next = t.next + 1, !.page = t.next]
    BY ZenonT(60), <2>3 DEF Txns
  <2> QED
    BY ZenonT(60), <2>1, <2>2, <2>3, <2>4, <2>5 DEF Taken, TakenFrom, Txns
<1>2. CASE ~(t.next + 1 < MaxPg)
  BY ZenonT(60), <1>2 DEF TakeNext, NoPage, Taken, Txns, Place
<1> QED
  BY <1>1, <1>2

(* A page of the record read is taken, or else the next of the file.       *)
LEMMA TakeFreeFacts ==
    ASSUME NEW t \in Txns, t.loose = <<>>
    PROVE  Taken(t, TakeFree(t))
<1>1. CASE t.pghead = {}
  BY <1>1, TakeNextFacts DEF TakeFree
<1>2. CASE t.pghead # {}
  <2> DEFINE p == Min(t.pghead)
             w == [t EXCEPT !.pghead = @ \ {p}]
             u == Take(w, p)
  <2>1. p \in t.pghead
    <3>1. t.pghead \in SUBSET (0 .. MaxPg) /\ MaxPg \in Nat
      BY SMTT(40), Bounds DEF Txns
    <3> QED
      BY <1>2, <3>1, MinOfSome
  <2>2. TakeFree(t) = u
    BY <1>2 DEF TakeFree
  <2> HIDE DEF p
  <2>3. p \in Page /\ w \in Txns
    BY SMTT(40), <2>1 DEF Txns
  <2>4. /\ u \in Txns /\ u = [w EXCEPT !.buf = u.buf, !.page = p] /\ u.page = p
        /\ Dirtied(w, u) /\ u.buf[p] = Blank
    BY <2>3, TakeFacts
  <2> HIDE DEF u
  <2>5. Dirtied(t, u)
    BY <2>4 DEF Dirtied, Txns
  <2>6. u = [t EXCEPT !.buf = u.buf, !.pghead = t.pghead \ {p}, !.page = p]
    BY <2>4 DEF Txns
  <2> QED
    BY ZenonT(60), <2>1, <2>2, <2>3, <2>4, <2>5, <2>6 DEF Taken, TakenFrom, Txns
<1> QED
  BY <1>1, <1>2

(* mdb_page_alloc takes a page, from the freeDB as it is or with a further *)
(* record read where it has none at hand.                                  *)
Drawn(t, u) ==
    \E v \in Txns :
       /\ v = t \/ (t.loose = <<>> /\ t.pghead = {} /\ Refilled(t, v))
       /\ Taken(v, u)

(* mdb_page_alloc draws a page.                                            *)
LEMMA AllocFacts ==
    ASSUME Shape, NEW t, Begun(t)
    PROVE  Drawn(t, Alloc(t))
<1>0. t \in Txns
  BY DEF Begun
<1>1. CASE t.loose # <<>>
  <2> DEFINE p == Head(t.loose)
             w == [t EXCEPT !.loose = Tail(@)]
             u == Take(w, p)
  <2>1. p \in Page /\ w \in Txns
    <3>1. t.loose \in Seq(Page)
      BY <1>0 DEF Txns
    <3>2. Head(t.loose) \in Page /\ Tail(t.loose) \in Seq(Page)
      BY <1>1, <3>1
    <3> QED
      BY <1>0, <3>2 DEF Txns
  <2>2. Alloc(t) = u
    BY <1>1 DEF Alloc
  <2>3. /\ u \in Txns /\ u = [w EXCEPT !.buf = u.buf, !.page = p] /\ u.page = p
        /\ Dirtied(w, u) /\ u.buf[p] = Blank
    BY <2>1, TakeFacts
  <2> HIDE DEF u
  <2>4. Dirtied(t, u)
    BY <1>0, <2>3 DEF Dirtied, Txns
  <2>5. u = [t EXCEPT !.buf = u.buf, !.loose = Tail(t.loose), !.page = p]
    BY <1>0, <2>3 DEF Txns
  <2>6. Taken(t, u)
    BY ZenonT(60), <1>0, <1>1, <2>1, <2>3, <2>4, <2>5 DEF Taken, TakenFrom, Txns
  <2> QED
    BY <1>0, <2>2, <2>6 DEF Drawn
<1>2. CASE t.loose = <<>> /\ t.pghead # {}
  BY <1>0, <1>2, TakeFreeFacts DEF Alloc, Drawn
<1>3. CASE t.loose = <<>> /\ t.pghead = {}
  <2> DEFINE v == Refill(Look(t))
  <2>1. Alloc(t) = TakeFree(v)
    BY <1>3 DEF Alloc
  <2>2. Refilled(t, v)
    BY RefillFacts
  <2> HIDE DEF v
  <2>3. v \in Txns /\ v.loose = <<>>
    BY <1>0, <1>3, <2>2 DEF Refilled, Txns
  <2> QED
    BY <1>3, <2>1, <2>2, <2>3, TakeFreeFacts DEF Drawn
<1> QED
  BY <1>1, <1>2, <1>3

(* What every page taken has in common, whatever it is taken from.         *)
Further(t, u) ==
    /\ t.loose = <<>> => u.loose = <<>>
    /\ \/ u.pglast = t.pglast /\ (t.pghead = {} => u.pghead = {})
       \/ u.pglast \in DOMAIN Records(t) /\ t.pglast < u.pglast

(* What a draw leaves of the transaction.                                  *)
LEMMA DrawnKeeps ==
    ASSUME Shape, NEW t, Begun(t), NEW u, Drawn(t, u)
    PROVE  /\ Begun(u) /\ Same(t, u)
           /\ u.root = t.root /\ u.freeRoot = t.freeRoot /\ u.freed = t.freed
           /\ u.page # Invalid => u.page \in Page /\ u.page \in DOMAIN u.buf
           /\ \A q \in DOMAIN t.buf : q \in DOMAIN u.buf /\ (q # u.page => u.buf[q] = t.buf[q])
           /\ Further(t, u)
<1> PICK v \in Txns : /\ v = t \/ (t.loose = <<>> /\ t.pghead = {} /\ Refilled(t, v))
                      /\ Taken(v, u)
  BY DEF Drawn
<1>1. /\ t \in Txns /\ Begun(v) /\ Same(t, v)
      /\ v.root = t.root /\ v.freeRoot = t.freeRoot /\ v.freed = t.freed
      /\ v.buf = t.buf /\ v.loose = t.loose
      /\ (v.pglast = t.pglast /\ v.pghead = t.pghead)
           \/ (v.pglast \in DOMAIN Records(t) /\ t.pglast < v.pglast)
  <2>1. CASE v = t
    BY <2>1 DEF Begun, Same
  <2>2. CASE Refilled(t, v)
    <3>1. t \in Txns
      BY DEF Begun
    <3>2. /\ Same(t, v) /\ v.root = t.root /\ v.freeRoot = t.freeRoot /\ v.freed = t.freed
          /\ v.buf = t.buf /\ v.loose = t.loose
      BY ZenonT(60), <2>2, <3>1 DEF Refilled, Same, Txns
    <3>3. v.pgoldest \in 0 .. t.id - 1 /\ t.pgoldest \in 0 .. t.id - 1
      BY <2>2, OldestFacts, BegunFacts DEF Refilled
    <3>4. v.pglast \in Nat /\ v.id = t.id
      BY <3>2, Bounds DEF Txns, Same
    <3> QED
      BY <2>2, <3>1, <3>2, <3>3, <3>4, BegunFacts DEF Refilled, Begun
  <2> QED
    BY <2>1, <2>2
<1>2. /\ u \in Txns /\ Same(v, u) /\ u.pglast = v.pglast /\ u.pgoldest = v.pgoldest
      /\ u.root = v.root /\ u.freeRoot = v.freeRoot /\ u.freed = v.freed
  BY ZenonT(60) DEF Taken, Txns, Same
<1>3. /\ u.page # Invalid => u.page \in Page /\ u.page \in DOMAIN u.buf
      /\ \A q \in DOMAIN v.buf : q \in DOMAIN u.buf /\ (q # u.page => u.buf[q] = v.buf[q])
  BY DEF Taken, Dirtied
<1>4. (v.pghead = {} => u.pghead = {}) /\ (v.loose = <<>> => u.loose = <<>>)
  BY DEF Taken, TakenFrom
<1>5. Begun(u) /\ Same(t, u)
  BY <1>1, <1>2 DEF Begun, Same
<1> QED
  BY <1>1, <1>2, <1>3, <1>4, <1>5 DEF Further

(* A page made the transaction's: as it is, or copied to one that is taken.*)
Owned(t, p, u) ==
    \/ p \in DOMAIN t.buf /\ u = [t EXCEPT !.page = p]
    \/ /\ p \notin DOMAIN t.buf
       /\ \E v : /\ Drawn(t, v)
                 /\ \/ (v.page = Invalid \/ p = Invalid) /\ u = v
                    \/ /\ v.page # Invalid /\ p # Invalid
                       /\ u \in Txns
                       /\ u = [v EXCEPT !.buf = u.buf, !.freed = @ \cup {p}]
                       /\ DOMAIN u.buf = DOMAIN v.buf /\ u.buf[v.page] = At(v, p)
                       /\ \A q \in DOMAIN v.buf : q # v.page => u.buf[q] = v.buf[q]

(* mdb_page_touch, or a new page, makes a page the transaction's.          *)
LEMMA OwnFacts ==
    ASSUME Shape, NEW t, Begun(t), NEW p \in Place
    PROVE  Owned(t, p, Own(t, p))
<1> DEFINE v == Alloc(t)
<1>1. CASE p \in DOMAIN t.buf
  <2>1. p # Invalid
    BY SMTT(40), <1>1, Bounds DEF Begun, Txns, Bufs
  <2> QED
    BY <1>1, <2>1 DEF Own, Touch, Owned
<1>2. CASE p \notin DOMAIN t.buf
  <2>1. Drawn(t, v)
    BY AllocFacts
  <2>2. v \in Txns /\ (v.page # Invalid => v.page \in Page /\ v.page \in DOMAIN v.buf)
    BY <2>1, DrawnKeeps DEF Begun
  <2>3. Own(t, p) = IF p = Invalid THEN v ELSE CopyTo(v, p)
    BY <1>2 DEF Own, Touch
  <2> HIDE DEF v
  <2>4. CASE v.page = Invalid \/ p = Invalid
    BY <1>2, <2>1, <2>3, <2>4 DEF CopyTo, Owned
  <2>5. CASE v.page # Invalid /\ p # Invalid
    <3> DEFINE w == SetPage(v, v.page, At(v, p))
               u == [w EXCEPT !.freed = @ \cup {p}]
    <3>1. Own(t, p) = u
      BY <2>3, <2>5 DEF CopyTo
    <3>2. p \in Page /\ v.page \in Page /\ At(v, p) \in Contents
      BY <2>2, <2>5, AtType DEF Place
    <3>3. /\ w \in Txns /\ w = [v EXCEPT !.buf = w.buf]
          /\ DOMAIN w.buf = DOMAIN v.buf /\ w.buf[v.page] = At(v, p)
          /\ \A q \in DOMAIN v.buf : q # v.page => w.buf[q] = v.buf[q]
      <4>1. /\ w \in Txns /\ w = [v EXCEPT !.buf = w.buf]
            /\ DOMAIN w.buf = DOMAIN v.buf \cup {v.page} /\ w.buf[v.page] = At(v, p)
            /\ \A q \in DOMAIN v.buf : q # v.page => w.buf[q] = v.buf[q]
        BY SMTT(40), <2>2, <3>2, SetPageType
      <4> QED
        BY <2>2, <2>5, <4>1
    <3> HIDE DEF w
    <3>4. u \in Txns /\ u = [v EXCEPT !.buf = u.buf, !.freed = @ \cup {p}] /\ u.buf = w.buf
      BY ZenonT(60), <2>2, <3>2, <3>3 DEF Txns
    <3> HIDE DEF u
    <3>5. /\ DOMAIN u.buf = DOMAIN v.buf /\ u.buf[v.page] = At(v, p)
          /\ \A q \in DOMAIN v.buf : q # v.page => u.buf[q] = v.buf[q]
      BY <3>3, <3>4
    <3>6. Owned(t, p, u)
      BY ZenonT(60), <1>2, <2>1, <2>5, <3>4, <3>5 DEF Owned
    <3> QED
      BY <3>1, <3>6
  <2> QED
    BY <2>4, <2>5
<1> QED
  BY <1>1, <1>2

(* What that leaves of the transaction.                                    *)
LEMMA OwnedKeeps ==
    ASSUME Shape, NEW t, Begun(t), NEW p \in Place, NEW u, Owned(t, p, u)
    PROVE  /\ Begun(u) /\ Same(t, u)
           /\ u.root = t.root /\ u.freeRoot = t.freeRoot
           /\ u.page # Invalid => u.page \in Page /\ u.page \in DOMAIN u.buf
           /\ \A q \in DOMAIN t.buf : q \in DOMAIN u.buf /\ (q # u.page => u.buf[q] = t.buf[q])
           /\ Further(t, u)
           /\ t.freed \subseteq u.freed
           /\ p \in DOMAIN t.buf => u = [t EXCEPT !.page = p]
           /\ p = Invalid => u.freed = t.freed
<1>1. CASE p \in DOMAIN t.buf /\ u = [t EXCEPT !.page = p]
  <2>1. t \in Txns /\ p \in Page
    BY <1>1 DEF Begun, Txns, Bufs
  <2>2. u \in Txns /\ Same(t, u) /\ u.page = p /\ u.buf = t.buf /\ u.freed = t.freed
        /\ u.root = t.root /\ u.freeRoot = t.freeRoot /\ u.loose = t.loose
        /\ u.pghead = t.pghead /\ u.pglast = t.pglast /\ u.pgoldest = t.pgoldest
    BY SMTT(40), <1>1, <2>1 DEF Same, Txns, Place
  <2> QED
    BY <1>1, <2>1, <2>2, Bounds DEF Begun, Same, Further
<1>2. ASSUME p \notin DOMAIN t.buf, NEW v, Drawn(t, v),
             \/ (v.page = Invalid \/ p = Invalid) /\ u = v
             \/ /\ v.page # Invalid /\ p # Invalid
                /\ u \in Txns
                /\ u = [v EXCEPT !.buf = u.buf, !.freed = @ \cup {p}]
                /\ DOMAIN u.buf = DOMAIN v.buf /\ u.buf[v.page] = At(v, p)
                /\ \A q \in DOMAIN v.buf : q # v.page => u.buf[q] = v.buf[q]
      PROVE  /\ Begun(u) /\ Same(t, u)
             /\ u.root = t.root /\ u.freeRoot = t.freeRoot
             /\ u.page # Invalid => u.page \in Page /\ u.page \in DOMAIN u.buf
             /\ \A q \in DOMAIN t.buf : q \in DOMAIN u.buf /\ (q # u.page => u.buf[q] = t.buf[q])
             /\ Further(t, u)
             /\ t.freed \subseteq u.freed
             /\ p = Invalid => u.freed = t.freed
  <2>1. /\ Begun(v) /\ Same(t, v)
        /\ v.root = t.root /\ v.freeRoot = t.freeRoot /\ v.freed = t.freed
        /\ v.page # Invalid => v.page \in Page /\ v.page \in DOMAIN v.buf
        /\ \A q \in DOMAIN t.buf : q \in DOMAIN v.buf /\ (q # v.page => v.buf[q] = t.buf[q])
        /\ Further(t, v)
    BY <1>2, DrawnKeeps
  <2>2. CASE u = v
    BY <2>1, <2>2
  <2>3. CASE u # v
    <3>1. /\ u \in Txns /\ u = [v EXCEPT !.buf = u.buf, !.freed = @ \cup {p}]
          /\ DOMAIN u.buf = DOMAIN v.buf /\ p # Invalid
          /\ \A q \in DOMAIN v.buf : q # v.page => u.buf[q] = v.buf[q]
      BY <1>2, <2>3
    <3>2. v \in Txns
      BY <2>1 DEF Begun
    <3>3. /\ Same(v, u) /\ u.root = v.root /\ u.freeRoot = v.freeRoot /\ u.page = v.page
          /\ u.pglast = v.pglast /\ u.pgoldest = v.pgoldest /\ u.pghead = v.pghead
          /\ u.loose = v.loose /\ u.freed = v.freed \cup {p}
      BY ZenonT(60), <3>1, <3>2 DEF Txns, Same
    <3> QED
      BY <2>1, <3>1, <3>3 DEF Begun, Same, Further
  <2> QED
    BY <2>2, <2>3
<1> QED
  BY ZenonT(60), <1>1, <1>2 DEF Owned

-----------------------------------------------------------------------------
(* Where a page is.                                                        *)

(* The pages as a transaction sees them, and the records it may still read.*)
Image(t) == [p \in Page |-> At(t, p)]
Pool(g, t) == {i \in DOMAIN RecordsIn(g, t.freeRoot) : t.pglast < i /\ i # t.id}

(* Page p is in the place of a transaction with number i: the main tree,   *)
(* the root of the freeDB, the pages taken from records, those freed, the  *)
(* loose ones, or the record of transaction i.                             *)
Spot == -5 .. MaxTxns

Has(g, t, p, i) ==
    \/ i = -1 /\ p \in TreePages(g, t.root)
    \/ i = -2 /\ p = t.freeRoot
    \/ i = -3 /\ p \in t.pghead
    \/ i = -4 /\ p \in t.freed
    \/ i = -5 /\ p \in ToSet(t.loose)
    \/ i \in Pool(g, t) /\ p \in RecordsIn(g, t.freeRoot)[i]

Branching(g, root) ==
    root # Invalid =>
       \A k \in Key :
          /\ g[root].child[k] # root
          /\ \A j \in Key : g[root].child[j] = g[root].child[k] =>
                               j = k \/ g[root].child[k] = Invalid

(* No page is in two places, or twice in one.                              *)
Once(g, t) ==
    /\ \A p \in Page : \A i, j \in Spot : Has(g, t, p, i) /\ Has(g, t, p, j) => i = j
    /\ \A p \in Page : \A i \in Spot : Has(g, t, p, i) => p < t.next
    /\ Branching(g, t.root)
    /\ \A a, b \in DOMAIN t.loose : t.loose[a] = t.loose[b] => a = b

(* The pages of P are not there to be taken by a transaction that reads no *)
(* record of s or later.                                                   *)
Keeps(g, t, P, s) ==
    \A p \in P : /\ p < t.next /\ p \notin t.pghead /\ p \notin ToSet(t.loose)
                 /\ \A i \in Pool(g, t) : i < s => p \notin RecordsIn(g, t.freeRoot)[i]

(* The pages of the file that are in no place: lost to every transaction.  *)
Missing(g, t) == {p \in Page : p < t.next /\ \A i \in Spot : ~Has(g, t, p, i)}

LosesNone(t, u) == Missing(Image(u), u) \subseteq Missing(Image(t), t)

(* No page is lost where every page that had a place has one.              *)
LEMMA NoneLost ==
    ASSUME NEW t, NEW u, u.next = t.next,
           \A p \in Page : \A i \in Spot :
              Has(Image(t), t, p, i) => \E j \in Spot : Has(Image(u), u, p, j)
    PROVE  LosesNone(t, u)
BY DEF LosesNone, Missing

(* Nor where only the page taken had none, and has one now.                *)
LEMMA NoneLostOf ==
    ASSUME NEW t, NEW v, NEW x, Missing(Image(v), v) \subseteq Missing(Image(t), t) \cup {x},
           NEW u, u.next = v.next, NEW c \in Spot, Has(Image(u), u, x, c),
           \A p \in Page : \A i \in Spot :
              Has(Image(v), v, p, i) => \E j \in Spot : Has(Image(u), u, p, j)
    PROVE  LosesNone(t, u)
BY DEF LosesNone, Missing

(* What a transaction sees are pages, and the records among them.          *)
LEMMA ImageFacts ==
    ASSUME Shape, NEW t \in Txns
    PROVE  /\ Image(t) \in [Page -> Contents]
           /\ RecordsIn(Image(t), t.freeRoot) = Records(t)
           /\ \A p \in Page : Image(t)[p] = At(t, p)
           /\ DOMAIN t.buf \subseteq Page
<1>1. \A p \in Page : At(t, p) \in Contents
  BY AtType
<1>2. t.freeRoot # Invalid => t.freeRoot \in Page
  BY DEF Txns, Place
<1>3. DOMAIN t.buf \subseteq Page
  BY DEF Txns, Bufs
<1> QED
  BY <1>1, <1>2, <1>3 DEF Image, RecordsIn, Records

(* The pages of a tree are pages.                                          *)
LEMMA TreeType ==
    ASSUME NEW g \in [Page -> Contents], NEW root \in Place
    PROVE  /\ TreePages(g, root) \subseteq Page
           /\ root # Invalid => root \in Page /\ \A k \in Key : g[root].child[k] \in Place
BY SMTT(40), Bounds DEF TreePages, Place, Contents

(* A tree whose pages stay as they are stays as it is.                     *)
LEMMA Unaffected ==
    ASSUME NEW g \in [Page -> Contents], NEW h \in [Page -> Contents], NEW root \in Place,
           \A p \in TreePages(g, root) : h[p] = g[p]
    PROVE  /\ TreePages(h, root) = TreePages(g, root)
           /\ Tree(h, root) = Tree(g, root)
           /\ Branching(g, root) => Branching(h, root)
<1>1. CASE root = Invalid
  BY <1>1 DEF TreePages, Tree, Branching
<1>2. CASE root # Invalid
  <2>1. h[root] = g[root]
    BY <1>2 DEF TreePages
  <2>2. \A k \in Key : g[root].child[k] # Invalid => h[g[root].child[k]] = g[g[root].child[k]]
    BY <1>2 DEF TreePages
  <2> QED
    BY <1>2, <2>1, <2>2 DEF TreePages, Tree, Branching
<1> QED
  BY <1>1, <1>2

(* The records of a transaction are among its places.                      *)
LEMMA PoolType ==
    ASSUME Shape, NEW t \in Txns
    PROVE  /\ Pool(Image(t), t) \subseteq Ids /\ Ids \subseteq Spot
           /\ {-1, -2, -3, -4, -5} \subseteq Spot /\ Spot \subseteq Int
           /\ Pool(Image(t), t) \cap {-1, -2, -3, -4, -5} = {}
<1>1. Pool(Image(t), t) \subseteq Ids
  BY ImageFacts, RecordsType DEF Pool
<1> QED
  BY <1>1, Bounds DEF Spot

(* A loose sequence is its first page and the others.                      *)
LEMMA HeadAndTail ==
    ASSUME NEW s \in Seq(Page), s # <<>>
    PROVE  /\ Head(s) \in ToSet(s) /\ ToSet(Tail(s)) \subseteq ToSet(s)
           /\ ToSet(s) = ToSet(Tail(s)) \cup {Head(s)}
           /\ (\A a, b \in DOMAIN s : s[a] = s[b] => a = b) =>
                 /\ Head(s) \notin ToSet(Tail(s))
                 /\ \A a, b \in DOMAIN Tail(s) : Tail(s)[a] = Tail(s)[b] => a = b
<1>1. DOMAIN s = 1 .. Len(s) /\ Len(s) \in Nat /\ Len(s) >= 1
  OBVIOUS
<1>2. DOMAIN Tail(s) = 1 .. Len(s) - 1 /\ \A a \in DOMAIN Tail(s) : Tail(s)[a] = s[a + 1]
  BY <1>1
<1>3. Head(s) = s[1]
  OBVIOUS
<1>4. \A a \in DOMAIN Tail(s) : a + 1 \in DOMAIN s /\ a + 1 # 1
  BY <1>1, <1>2
<1>5. \A a \in DOMAIN s : a # 1 => a - 1 \in DOMAIN Tail(s) /\ Tail(s)[a - 1] = s[a]
  BY <1>1, <1>2
<1>6. ToSet(s) = ToSet(Tail(s)) \cup {Head(s)}
  BY SMTT(40), <1>1, <1>2, <1>3, <1>4, <1>5 DEF ToSet
<1>7. ASSUME \A a, b \in DOMAIN s : s[a] = s[b] => a = b
      PROVE  /\ Head(s) \notin ToSet(Tail(s))
             /\ \A a, b \in DOMAIN Tail(s) : Tail(s)[a] = Tail(s)[b] => a = b
  BY SMTT(40), <1>1, <1>2, <1>3, <1>4, <1>7 DEF ToSet
<1> QED
  BY <1>6, <1>7

-----------------------------------------------------------------------------
(* What taking a page does to the places.                                  *)

(* Reading a record moves its pages to those taken.                        *)
LEMMA RefillOnce ==
    ASSUME Shape, NEW t, Begun(t), Once(Image(t), t), NEW v, Refilled(t, v), t.pghead = {}
    PROVE  Once(Image(v), v) /\ Image(v) = Image(t) /\ LosesNone(t, v)
<1>1. t \in Txns /\ v \in Txns
  BY DEF Begun, Refilled
<1>2. /\ v.buf = t.buf /\ v.root = t.root /\ v.freeRoot = t.freeRoot /\ v.freed = t.freed
      /\ v.loose = t.loose /\ v.next = t.next /\ v.id = t.id
  BY ZenonT(60), <1>1 DEF Refilled, Txns
<1>3. Image(v) = Image(t)
  BY <1>2 DEF Image, At
<1>4. CASE v.pglast = t.pglast /\ v.pghead = t.pghead
  <2>1. \A p, i : Has(Image(v), v, p, i) <=> Has(Image(t), t, p, i)
    BY <1>2, <1>3, <1>4 DEF Has, Pool
  <2> QED
    BY <1>2, <1>3, <2>1, NoneLost DEF Once
<1>5. CASE /\ v.pglast \in DOMAIN Records(t)
           /\ t.pglast < v.pglast /\ v.pglast < v.pgoldest
           /\ v.pghead = Records(t)[v.pglast]
           /\ \A i \in DOMAIN Records(t) : t.pglast < i /\ i < v.pglast => Records(t)[i] = {}
  <2> DEFINE g == Image(t)
             from(i) == IF i = -3 THEN v.pglast ELSE i
  <2>1. RecordsIn(g, t.freeRoot) = Records(t) /\ DOMAIN Records(t) \subseteq Ids
    BY <1>1, ImageFacts, RecordsType
  <2>2. v.pglast \in Pool(g, t) /\ v.pglast \in Spot
    <3>1. v.pgoldest \in 0 .. t.id - 1 /\ v.pglast \in Nat /\ t.id \in Nat
      <4>1. v.pgoldest \in 0 .. t.id - 1
        BY OldestFacts, BegunFacts DEF Refilled
      <4> QED
        BY <1>1, <4>1, Bounds DEF Txns
    <3> QED
      BY <1>1, <1>5, <2>1, <3>1, PoolType DEF Pool
  <2>3. Pool(g, v) \subseteq Pool(g, t) /\ v.pglast \notin Pool(g, v)
    <3>1. v.pglast \in Int /\ t.pglast \in Int /\ \A i \in DOMAIN Records(t) : i \in Int
      BY <1>1, <2>1, Bounds DEF Txns
    <3> QED
      BY <1>2, <1>5, <2>1, <3>1 DEF Pool
  <2>4. ASSUME NEW p \in Page, NEW i \in Spot, Has(g, v, p, i)
        PROVE  from(i) \in Spot /\ Has(g, t, p, from(i))
    <3>1. CASE i = -3
      <4>1. i \notin Pool(g, v)
        BY <1>1, <2>3, <3>1, PoolType
      <4>2. p \in v.pghead
        BY <2>4, <3>1, <4>1 DEF Has
      <4> QED
        BY <1>5, <2>1, <2>2, <3>1, <4>2 DEF Has
    <3>2. CASE i # -3
      BY <1>2, <2>3, <2>4, <3>2 DEF Has
    <3> QED
      BY <3>1, <3>2
  <2>5. ASSUME NEW p \in Page, NEW i \in Spot, Has(g, v, p, i) PROVE i # v.pglast
    <3>1. v.pglast \notin {-1, -2, -3, -4, -5}
      BY <1>1, <2>2, PoolType
    <3> QED
      BY <2>3, <2>5, <3>1 DEF Has
  <2>6. \A p \in Page : \A i, j \in Spot : Has(g, v, p, i) /\ Has(g, v, p, j) => i = j
    <3> SUFFICES ASSUME NEW p \in Page, NEW i \in Spot, NEW j \in Spot, Has(g, v, p, i), Has(g, v, p, j)
                 PROVE  i = j
      OBVIOUS
    <3>1. from(i) = from(j)
      BY <2>4 DEF Once
    <3> QED
      BY <2>5, <3>1
  <2>7. \A p \in Page : \A i \in Spot : Has(g, v, p, i) => p < v.next
    BY <1>2, <2>4 DEF Once
  <2>8. ASSUME NEW p \in Page, NEW i \in Spot, Has(g, t, p, i)
        PROVE  \E j \in Spot : Has(g, v, p, j)
    <3>1. {-1, -2, -3, -4, -5} \subseteq Spot
      BY <1>1, PoolType
    <3>2. CASE i \in Pool(g, t) /\ p \in Records(t)[i]
      <4>1. i \in Int /\ v.pglast \in Int /\ i \in DOMAIN Records(t) /\ t.pglast < i /\ i # t.id
        BY <1>1, <2>1, <3>2, Bounds DEF Pool, Txns
      <4>2. CASE i < v.pglast
        BY <1>5, <3>2, <4>1, <4>2
      <4>3. CASE i = v.pglast
        BY <1>5, <3>1, <3>2, <4>3 DEF Has
      <4>4. CASE v.pglast < i
        <5>1. i \in Pool(g, v) /\ p \in RecordsIn(g, v.freeRoot)[i]
          BY <1>2, <2>1, <3>2, <4>1, <4>4 DEF Pool
        <5> QED
          BY <5>1 DEF Has
      <4> QED
        BY <4>1, <4>2, <4>3, <4>4
    <3>3. CASE ~(i \in Pool(g, t) /\ p \in Records(t)[i])
      <4>1. Has(g, v, p, i)
        BY <1>2, <2>1, <2>8, <3>3 DEF Has
      <4> QED
        BY <4>1
    <3> QED
      BY <3>2, <3>3
  <2>9. LosesNone(t, v)
    BY <1>2, <1>3, <2>8, NoneLost
  <2> QED
    BY <1>2, <1>3, <2>6, <2>7, <2>9 DEF Once
<1> QED
  BY <1>3, <1>4, <1>5 DEF Refilled

(* The page taken is in no place any more, and all others are where they   *)
(* were.                                                                   *)
LEMMA TakenOnce ==
    ASSUME Shape, NEW v \in Txns, Once(Image(v), v), NEW u, Taken(v, u)
    PROVE  /\ Once(Image(u), u)
           /\ u.page # Invalid => u.page < u.next /\ \A i \in Spot : ~Has(Image(u), u, u.page, i)
           /\ \A p \in Page : p # u.page => At(u, p) = At(v, p)
           /\ u.page # Invalid => u.page # v.root /\ u.page # v.freeRoot
                                  /\ u.page \notin TreePages(Image(v), v.root)
           /\ Missing(Image(u), u) \subseteq Missing(Image(v), v) \cup {u.page}
<1> DEFINE g == Image(v)
           h == Image(u)
           x == u.page
<1>1. /\ u \in Txns /\ u.root = v.root /\ u.freeRoot = v.freeRoot /\ u.freed = v.freed
      /\ u.id = v.id /\ u.pglast = v.pglast
  BY ZenonT(60) DEF Taken, Txns
<1>2. CASE x = Invalid
  <2>1. u.buf = v.buf /\ u.loose = v.loose /\ u.pghead = v.pghead /\ u.next = v.next
    BY <1>2, Bounds DEF Taken
  <2>2. h = g /\ \A p \in Page : At(u, p) = At(v, p)
    BY <2>1 DEF Image, At
  <2>3. \A p, i : Has(h, u, p, i) <=> Has(g, v, p, i)
    BY <1>1, <2>1, <2>2 DEF Has, Pool
  <2> QED
    BY <1>1, <1>2, <2>1, <2>2, <2>3 DEF Once, Missing
<1>3. CASE x # Invalid
  <2>1. x \in Page /\ Dirtied(v, u) /\ TakenFrom(v, u) /\ v.next \in Int /\ v.loose \in Seq(Page)
    BY <1>3, Bounds DEF Taken, Txns
  <2>2. \A p \in Page : p # x => At(u, p) = At(v, p)
    BY <2>1 DEF Dirtied, At
  <2>3. {-1, -2, -3, -4, -5} \subseteq Spot /\ Pool(g, v) \subseteq Spot
        /\ Pool(g, v) \cap {-1, -2, -3, -4, -5} = {}
    BY PoolType
  <2>4. \A i \in Spot : Has(g, v, x, i) => i \in {-3, -5}
    <3>1. CASE v.loose # <<>> /\ x = Head(v.loose)
      <4>1. Has(g, v, x, -5)
        BY <2>1, <3>1, HeadAndTail DEF Has
      <4> QED
        BY <2>1, <2>3, <4>1 DEF Once
    <3>2. CASE x \in v.pghead
      <4>1. Has(g, v, x, -3)
        BY <3>2 DEF Has
      <4> QED
        BY <2>1, <2>3, <4>1 DEF Once
    <3>3. CASE x = v.next
      BY <2>1, <3>3 DEF Once
    <3> QED
      BY <2>1, <3>1, <3>2, <3>3 DEF TakenFrom
  <2>5. ~Has(g, v, x, -1) /\ ~Has(g, v, x, -2)
    BY <2>3, <2>4
  <2>6. x \notin TreePages(g, v.root) /\ x # v.root /\ x # v.freeRoot
    BY <1>3, <2>5 DEF Has, TreePages
  <2>7. g \in [Page -> Contents] /\ h \in [Page -> Contents] /\ \A p \in Page : p # x => h[p] = g[p]
    BY <1>1, <2>2, ImageFacts
  <2>8. v.root \in Place /\ v.freeRoot \in Place
    BY DEF Txns
  <2>9. TreePages(h, u.root) = TreePages(g, v.root) /\ (Branching(g, v.root) => Branching(h, u.root))
    <3>1. \A p \in TreePages(g, v.root) : h[p] = g[p]
      BY <2>6, <2>7, <2>8, TreeType
    <3> QED
      BY <1>1, <2>7, <2>8, <3>1, Unaffected
  <2>10. RecordsIn(h, u.freeRoot) = RecordsIn(g, v.freeRoot) /\ Pool(h, u) = Pool(g, v)
    <3>1. RecordsIn(h, u.freeRoot) = RecordsIn(g, v.freeRoot)
      BY <1>1, <2>6, <2>7, <2>8 DEF RecordsIn, Place
    <3> QED
      BY <1>1, <3>1 DEF Pool
  <2>11. /\ u.pghead \subseteq v.pghead /\ ToSet(u.loose) \subseteq ToSet(v.loose)
         /\ v.next <= u.next
         /\ \A a, b \in DOMAIN u.loose : u.loose[a] = u.loose[b] => a = b
         /\ x \notin ToSet(u.loose) \/ x \in v.pghead
         /\ x \notin u.pghead \/ x \in ToSet(v.loose)
    <3>1. \A a, b \in DOMAIN v.loose : v.loose[a] = v.loose[b] => a = b
      BY DEF Once
    <3>2. CASE v.loose # <<>> /\ x = Head(v.loose) /\ u.loose = Tail(v.loose)
               /\ u.pghead = v.pghead /\ u.next = v.next
      <4>1. /\ ToSet(u.loose) \subseteq ToSet(v.loose) /\ x \notin ToSet(u.loose)
            /\ x \in ToSet(v.loose)
            /\ \A a, b \in DOMAIN u.loose : u.loose[a] = u.loose[b] => a = b
        BY SMTT(40), <2>1, <3>1, <3>2, HeadAndTail
      <4> QED
        BY <2>1, <3>2, <4>1
    <3>3. CASE v.loose = <<>> /\ u.loose = v.loose
      <4>1. ToSet(u.loose) = {}
        BY <3>3 DEF ToSet
      <4> QED
        BY <2>1, <3>1, <3>3, <4>1 DEF TakenFrom
    <3> QED
      BY <2>1, <3>2, <3>3 DEF TakenFrom
  <2>12. \A p, i : Has(h, u, p, i) => Has(g, v, p, i)
    BY <1>1, <2>9, <2>10, <2>11 DEF Has
  <2>13. \A i \in Spot : ~Has(h, u, x, i)
    <3> SUFFICES ASSUME NEW i \in Spot, Has(h, u, x, i) PROVE FALSE
      OBVIOUS
    <3>1. i \in {-3, -5}
      BY <2>4, <2>12
    <3>2. i \notin Pool(h, u)
      BY <2>3, <2>10, <3>1
    <3>3. (i = -3 /\ x \in u.pghead) \/ (i = -5 /\ x \in ToSet(u.loose))
      BY <3>1, <3>2 DEF Has
    <3>4. Has(g, v, x, -3) /\ Has(g, v, x, -5)
      BY <2>11, <3>3 DEF Has
    <3> QED
      BY <2>1, <2>3, <3>4 DEF Once
  <2>14. x < u.next
    <3>1. (\E i \in Spot : Has(g, v, x, i)) \/ x = v.next
      BY <2>1, <2>3, HeadAndTail DEF TakenFrom, Has
    <3>2. CASE x = v.next /\ u.next = v.next + 1
      BY <2>1, <3>2
    <3>3. CASE \E i \in Spot : Has(g, v, x, i)
      <4>1. x < v.next
        BY <2>1, <3>3 DEF Once
      <4>2. u.next \in Int /\ x \in Int
        BY <1>1, <2>1, Bounds DEF Txns
      <4> QED
        BY <2>1, <2>11, <4>1, <4>2
    <3>4. x = v.next => u.next = v.next + 1 \/ \E i \in Spot : Has(g, v, x, i)
      BY <2>1, <2>3, HeadAndTail DEF TakenFrom, Has
    <3> QED
      BY <3>1, <3>2, <3>3, <3>4
  <2>15. \A p \in Page : \A i \in Spot : Has(h, u, p, i) => p < u.next
    <3>1. u.next \in Int /\ \A p \in Page : p \in Int
      BY <1>1, Bounds DEF Txns
    <3> QED
      BY <2>1, <2>11, <2>12, <3>1 DEF Once
  <2>16. Once(h, u)
    BY <2>9, <2>11, <2>12, <2>15 DEF Once
  <2>17. /\ v.pghead \subseteq u.pghead \cup {x} /\ ToSet(v.loose) \subseteq ToSet(u.loose) \cup {x}
         /\ u.next = v.next \/ (x = v.next /\ u.next = v.next + 1)
    BY <2>1, HeadAndTail DEF TakenFrom
  <2>18. ASSUME NEW p \in Page, p # x, NEW i \in Spot, Has(g, v, p, i)  PROVE Has(h, u, p, i)
    BY <1>1, <2>9, <2>10, <2>17, <2>18 DEF Has
  <2>19. \A p \in Page : p # x /\ p < u.next => p < v.next
    <3>1. \A p \in Page : p \in Int
      BY Bounds
    <3> QED
      BY <2>1, <2>17, <3>1
  <2>20. Missing(h, u) \subseteq Missing(g, v) \cup {x}
    BY <2>18, <2>19 DEF Missing
  <2> QED
    BY <2>2, <2>6, <2>13, <2>14, <2>16, <2>20
<1> QED
  BY <1>2, <1>3

(* What two states of a transaction show of the data.                      *)
Alike(t, u) ==
    /\ Tree(Image(u), u.root) = Tree(Image(t), t.root)
    /\ Records(u) = Records(t)
    /\ \A k \in Key : Child(u, k) = Child(t, k)

(* A page that is in no place.                                             *)
Spare(t, x) == x \in Page /\ x < t.next /\ \A i \in Spot : ~Has(Image(t), t, x, i)

(* The page drawn was in one place only, and then is in none.              *)
LEMMA DrawnOnce ==
    ASSUME Shape, NEW t, Begun(t), Once(Image(t), t), NEW u, Drawn(t, u)
    PROVE  /\ Once(Image(u), u) /\ Alike(t, u)
           /\ u.page # Invalid => Spare(u, u.page)
           /\ \A p \in Page : p # u.page => At(u, p) = At(t, p)
           /\ u.page # Invalid => u.page # t.root /\ u.page # t.freeRoot
                                  /\ u.page \notin TreePages(Image(t), t.root)
           /\ TreePages(Image(u), u.root) = TreePages(Image(t), t.root)
           /\ Missing(Image(u), u) \subseteq Missing(Image(t), t) \cup {u.page}
<1> PICK v \in Txns : /\ v = t \/ (t.loose = <<>> /\ t.pghead = {} /\ Refilled(t, v))
                      /\ Taken(v, u)
  BY DEF Drawn
<1>1. t \in Txns /\ u \in Txns
  BY DEF Begun, Taken
<1>2. /\ Once(Image(v), v) /\ Image(v) = Image(t) /\ v.root = t.root /\ v.freeRoot = t.freeRoot
      /\ v.buf = t.buf /\ LosesNone(t, v)
  <2>1. CASE v = t
    BY <2>1 DEF LosesNone
  <2>2. CASE t.pghead = {} /\ Refilled(t, v)
    <3>1. v.root = t.root /\ v.freeRoot = t.freeRoot /\ v.buf = t.buf
      BY ZenonT(60), <1>1, <2>2 DEF Refilled, Txns
    <3> QED
      BY <2>2, <3>1, RefillOnce
  <2> QED
    BY <2>1, <2>2
<1>3. /\ Once(Image(u), u)
      /\ u.page # Invalid => u.page < u.next /\ \A i \in Spot : ~Has(Image(u), u, u.page, i)
      /\ \A p \in Page : p # u.page => At(u, p) = At(v, p)
      /\ u.page # Invalid => u.page # v.root /\ u.page # v.freeRoot
                             /\ u.page \notin TreePages(Image(v), v.root)
      /\ Missing(Image(u), u) \subseteq Missing(Image(v), v) \cup {u.page}
  BY <1>2, TakenOnce
<1>4. \A p \in Page : At(v, p) = At(t, p)
  BY <1>2 DEF At
<1>5. /\ Image(t) \in [Page -> Contents] /\ Image(u) \in [Page -> Contents]
      /\ \A p \in Page : p # u.page => Image(u)[p] = Image(t)[p]
  BY <1>1, <1>3, <1>4, ImageFacts
<1>6. u.root = t.root /\ u.freeRoot = t.freeRoot /\ t.root \in Place /\ t.freeRoot \in Place
  BY ZenonT(60), <1>1, <1>2 DEF Taken, Txns
<1>7. \A p \in TreePages(Image(t), t.root) : Image(u)[p] = Image(t)[p]
  BY <1>2, <1>3, <1>5, <1>6, Bounds, TreeType
<1>8. /\ TreePages(Image(u), u.root) = TreePages(Image(t), t.root)
      /\ Tree(Image(u), u.root) = Tree(Image(t), t.root)
  BY <1>5, <1>6, <1>7, Unaffected
<1>9. Records(u) = Records(t)
  BY <1>2, <1>3, <1>4, <1>6, Bounds DEF Records, Place
<1>10. \A k \in Key : Child(u, k) = Child(t, k)
  BY <1>2, <1>3, <1>4, <1>6, Bounds DEF Child, Place
<1>11. u.page # Invalid => u.page \in Page
  BY DEF Taken
<1> QED
  BY <1>2, <1>3, <1>4, <1>8, <1>9, <1>10, <1>11 DEF Alike, Spare, LosesNone

(* A spare page put somewhere leaves no page in two places.                *)
LEMMA Added ==
    ASSUME NEW v, NEW u, Once(Image(v), v), u.next = v.next, NEW x, Spare(v, x), NEW a,
           \A p \in Page : \A i \in Spot : Has(Image(u), u, p, i) =>
              Has(Image(v), v, p, i) \/ (p = x /\ i = a),
           Branching(Image(u), u.root), u.loose = v.loose
    PROVE  Once(Image(u), u)
<1> DEFINE g == Image(v)
           h == Image(u)
<1>1. \A i \in Spot : ~Has(g, v, x, i)
  BY DEF Spare
<1>2. \A p \in Page : \A i, j \in Spot : Has(g, v, p, i) /\ Has(g, v, p, j) => i = j
  BY DEF Once
<1>3. \A p \in Page : \A i, j \in Spot : Has(h, u, p, i) /\ Has(h, u, p, j) => i = j
  <2> SUFFICES ASSUME NEW p \in Page, NEW i \in Spot, NEW j \in Spot, Has(h, u, p, i), Has(h, u, p, j)
               PROVE  i = j
    OBVIOUS
  <2> QED
    BY <1>1, <1>2
<1>4. \A p \in Page : \A i \in Spot : Has(h, u, p, i) => p < u.next
  BY DEF Spare, Once
<1> QED
  BY <1>3, <1>4 DEF Once

(* A spare page put somewhere, and another moved, leave no page in two     *)
(* places.                                                                 *)
LEMMA Moved ==
    ASSUME NEW v, NEW u, Once(Image(v), v), u.next = v.next,
           NEW x, Spare(v, x), NEW y, NEW c \in Spot, Has(Image(v), v, y, c) \/ y \notin Page, x # y,
           NEW a, NEW b,
           \A p \in Page : \A i \in Spot : Has(Image(u), u, p, i) =>
              \/ Has(Image(v), v, p, i) /\ p # y
              \/ p = x /\ i = a
              \/ p = y /\ i = b,
           Branching(Image(u), u.root), u.loose = v.loose
    PROVE  Once(Image(u), u)
<1> DEFINE g == Image(v)
           h == Image(u)
<1>1. \A i \in Spot : ~Has(g, v, x, i)
  BY DEF Spare
<1>2. \A p \in Page : \A i, j \in Spot : Has(g, v, p, i) /\ Has(g, v, p, j) => i = j
  BY DEF Once
<1>3. \A p \in Page : \A i, j \in Spot : Has(h, u, p, i) /\ Has(h, u, p, j) => i = j
  <2> SUFFICES ASSUME NEW p \in Page, NEW i \in Spot, NEW j \in Spot, Has(h, u, p, i), Has(h, u, p, j)
               PROVE  i = j
    OBVIOUS
  <2> QED
    BY <1>1, <1>2
<1>4. \A p \in Page : \A i \in Spot : Has(h, u, p, i) => p < u.next
  BY DEF Spare, Once
<1> QED
  BY <1>3, <1>4 DEF Once

(* The root of the main tree made the transaction's: nothing is seen of it,*)
(* and the page it was copied from is freed.                               *)
LEMMA RootOnce ==
    ASSUME Shape, NEW t, Begun(t), Once(Image(t), t)
    PROVE  /\ Begun(OwnRoot(t)) /\ Same(t, OwnRoot(t)) /\ Further(t, OwnRoot(t))
           /\ OwnRoot(t).freeRoot = t.freeRoot /\ t.freed \subseteq OwnRoot(t).freed
           /\ \A q \in DOMAIN t.buf : q \in DOMAIN OwnRoot(t).buf
           /\ Once(Image(OwnRoot(t)), OwnRoot(t)) /\ Alike(t, OwnRoot(t)) /\ LosesNone(t, OwnRoot(t))
           /\ IF OwnRoot(t).page = Invalid THEN OwnRoot(t).root = t.root
              ELSE /\ OwnRoot(t).root = OwnRoot(t).page /\ OwnRoot(t).root \in DOMAIN OwnRoot(t).buf
                   /\ OwnRoot(t).root \in Page
<1> DEFINE w == Own(t, t.root)
           u == OwnRoot(t)
<1>1. t \in Txns /\ t.root \in Place /\ t.freeRoot \in Place
  BY DEF Begun, Txns
<1>2. Owned(t, t.root, w)
  BY <1>1, OwnFacts
<1>3. u = IF w.page = Invalid THEN w ELSE [w EXCEPT !.root = w.page]
  BY DEF OwnRoot, SetRoot
<1> HIDE DEF w, u
<1>4. /\ Begun(w) /\ Same(t, w)
      /\ w.root = t.root /\ w.freeRoot = t.freeRoot
      /\ w.page # Invalid => w.page \in Page /\ w.page \in DOMAIN w.buf
      /\ \A q \in DOMAIN t.buf : q \in DOMAIN w.buf
      /\ Further(t, w) /\ t.freed \subseteq w.freed
  BY <1>1, <1>2, OwnedKeeps
<1>5. w \in Txns
  BY <1>4 DEF Begun
<1>6. /\ u \in Txns /\ Same(w, u) /\ u.freeRoot = w.freeRoot /\ u.freed = w.freed /\ u.buf = w.buf
      /\ u.pghead = w.pghead /\ u.pglast = w.pglast /\ u.pgoldest = w.pgoldest /\ u.next = w.next
      /\ u.loose = w.loose /\ u.page = w.page
      /\ u.root = IF w.page = Invalid THEN w.root ELSE w.page
  BY SMTT(40), <1>3, <1>4, <1>5 DEF Txns, Same, Place
<1>7. /\ Begun(u) /\ Same(t, u) /\ Further(t, u) /\ u.freeRoot = t.freeRoot /\ t.freed \subseteq u.freed
      /\ \A q \in DOMAIN t.buf : q \in DOMAIN u.buf
      /\ IF u.page = Invalid THEN u.root = t.root
         ELSE u.root = u.page /\ u.root \in DOMAIN u.buf /\ u.root \in Page
  BY <1>4, <1>6 DEF Begun, Same, Further
<1>8. Once(Image(u), u) /\ Alike(t, u) /\ LosesNone(t, u)
  <2>1. CASE t.root \in DOMAIN t.buf
    <3>1. w = [t EXCEPT !.page = t.root] /\ t.root \in Page
      BY ZenonT(60), <1>2, <2>1, ImageFacts, <1>1 DEF Owned
    <3>2. /\ u.root = t.root /\ u.buf = t.buf /\ u.freed = t.freed /\ u.pghead = t.pghead
          /\ u.pglast = t.pglast /\ u.next = t.next /\ u.loose = t.loose /\ u.id = t.id
      BY <1>1, <1>4, <1>6, <3>1, Bounds DEF Txns, Same
    <3>3. Image(u) = Image(t) /\ \A p \in Page : At(u, p) = At(t, p)
      BY <3>2 DEF Image, At
    <3>4. Records(u) = Records(t) /\ \A k \in Key : Child(u, k) = Child(t, k)
      BY <1>7, <3>2, <3>3 DEF Records, Child, At
    <3>5. \A p, i : Has(Image(u), u, p, i) <=> Has(Image(t), t, p, i)
      BY SMTT(40), <1>7, <3>2, <3>3 DEF Has, Pool
    <3>6. LosesNone(t, u)
      BY <3>2, <3>5, NoneLost
    <3> QED
      BY <3>2, <3>3, <3>4, <3>5, <3>6 DEF Once, Alike
  <2>2. CASE t.root \notin DOMAIN t.buf
    <3>1. PICK v : /\ Drawn(t, v)
                   /\ \/ (v.page = Invalid \/ t.root = Invalid) /\ w = v
                      \/ /\ v.page # Invalid /\ t.root # Invalid
                         /\ w = [v EXCEPT !.buf = w.buf, !.freed = @ \cup {t.root}]
                         /\ DOMAIN w.buf = DOMAIN v.buf /\ w.buf[v.page] = At(v, t.root)
                         /\ \A q \in DOMAIN v.buf : q # v.page => w.buf[q] = v.buf[q]
      BY ZenonT(60), <1>2, <2>2 DEF Owned
    <3>2. /\ Begun(v) /\ v.root = t.root /\ v.freeRoot = t.freeRoot
          /\ v.page # Invalid => v.page \in DOMAIN v.buf
      BY <3>1, DrawnKeeps
    <3>3. /\ Once(Image(v), v) /\ Alike(t, v)
          /\ v.page # Invalid => Spare(v, v.page)
          /\ Missing(Image(v), v) \subseteq Missing(Image(t), t) \cup {v.page}
          /\ \A p \in Page : p # v.page => At(v, p) = At(t, p)
          /\ v.page # Invalid => v.page # t.root /\ v.page # t.freeRoot
      BY <3>1, DrawnOnce
    <3>4. v \in Txns /\ Image(v) \in [Page -> Contents] /\ Image(u) \in [Page -> Contents]
      BY <1>6, <3>2, ImageFacts DEF Begun
    <3>5. CASE v.page = Invalid
      <4>1. u = v
        BY <1>3, <3>1, <3>5
      <4>2. Invalid \notin Missing(Image(v), v)
        BY Bounds DEF Missing
      <4> QED
        BY <3>3, <3>5, <4>1, <4>2 DEF LosesNone
    <3>6. CASE v.page # Invalid /\ t.root = Invalid
      <4> DEFINE x == v.page
      <4>1. /\ u.buf = v.buf /\ u.root = x /\ u.freeRoot = v.freeRoot /\ u.freed = v.freed
            /\ u.pghead = v.pghead /\ u.pglast = v.pglast /\ u.next = v.next /\ u.loose = v.loose
            /\ u.id = v.id
        BY <1>6, <3>1, <3>6 DEF Same
      <4>2. Image(u) = Image(v) /\ \A p \in Page : At(u, p) = At(v, p)
        BY <4>1 DEF Image, At
      <4>3. x \in Page /\ Image(v)[x] = Blank /\ x \in DOMAIN v.buf
        <5>1. v.buf[x] = Blank
          BY <3>1, <3>6, Bounds DEF Drawn, Taken
        <5> QED
          BY <3>2, <3>3, <3>4, <3>6, <5>1 DEF Spare, Image, At
      <4>4. \A k \in Key : Blank.child[k] = Invalid
        BY DEF Blank
      <4>5. TreePages(Image(u), u.root) = {x} /\ TreePages(Image(v), v.root) = {}
        BY <3>2, <3>6, <4>1, <4>2, <4>3, <4>4, Bounds DEF TreePages
      <4>6. Pool(Image(u), u) = Pool(Image(v), v)
        BY <4>1, <4>2 DEF Pool
      <4>7. \A p, i : Has(Image(u), u, p, i) => Has(Image(v), v, p, i) \/ (p = x /\ i = -1)
        BY <4>1, <4>2, <4>5, <4>6 DEF Has
      <4>8. Branching(Image(u), u.root)
        BY <4>1, <4>2, <4>3, <4>4, Bounds DEF Branching
      <4>10. Once(Image(u), u)
        <5>1. \A p \in Page : \A i \in Spot : Has(Image(u), u, p, i) =>
                 Has(Image(v), v, p, i) \/ (p = x /\ i = -1)
          BY <4>7
        <5>2. Spare(v, x) /\ Once(Image(v), v) /\ u.next = v.next /\ u.loose = v.loose
          BY <3>3, <3>6, <4>1
        <5> HIDE DEF x
        <5> QED
          BY <4>8, <5>1, <5>2, Added
      <4>11. Tree(Image(u), u.root) = Tree(Image(v), v.root)
        BY <3>2, <3>6, <4>1, <4>2, <4>3, <4>4 DEF Tree
      <4>12. \A k \in Key : Child(u, k) = Child(v, k)
        BY <3>2, <3>6, <4>1, <4>2, <4>3, <4>4, Bounds DEF Child, Image
      <4>13. Records(u) = Records(v)
        BY <4>1 DEF Records, At
      <4>14. LosesNone(t, u)
        <5>1. \A p \in Page : \A i \in Spot : Has(Image(v), v, p, i) => Has(Image(u), u, p, i)
          BY <4>1, <4>2, <4>5, <4>6 DEF Has
        <5>2. -1 \in Spot /\ Has(Image(u), u, x, -1)
          BY <3>4, <4>5, PoolType DEF Has
        <5> QED
          BY <3>3, <4>1, <5>1, <5>2, NoneLostOf
      <4> QED
        BY <3>3, <4>10, <4>11, <4>12, <4>13, <4>14 DEF Alike
    <3>7. CASE v.page # Invalid /\ t.root # Invalid
      <4> DEFINE x == v.page
                 y == t.root
      <4>1. /\ w = [v EXCEPT !.buf = w.buf, !.freed = @ \cup {y}] /\ w.page = x
            /\ DOMAIN w.buf = DOMAIN v.buf /\ w.buf[x] = At(v, y)
            /\ \A q \in DOMAIN v.buf : q # x => w.buf[q] = v.buf[q]
        BY <3>1, <3>4, <3>7 DEF Txns
      <4>2. /\ u.buf = w.buf /\ u.root = x /\ u.freeRoot = v.freeRoot /\ u.freed = v.freed \cup {y}
            /\ u.pghead = v.pghead /\ u.pglast = v.pglast /\ u.next = v.next /\ u.loose = v.loose
            /\ u.id = v.id
        BY ZenonT(60), <1>6, <3>4, <3>7, <4>1 DEF Same, Txns
      <4>3. x \in Page /\ y \in Page /\ x # y /\ x # v.freeRoot /\ x \in DOMAIN v.buf
        BY <1>1, <3>2, <3>3, <3>7 DEF Spare, Place
      <4>4. /\ \A p \in Page : p # x => At(u, p) = At(v, p)
            /\ At(u, x) = At(v, y)
        BY <4>1, <4>2, <4>3 DEF At
      <4>5. /\ \A p \in Page : p # x => Image(u)[p] = Image(v)[p]
            /\ Image(u)[x] = Image(v)[y]
        BY <3>4, <4>3, <4>4 DEF Image
      <4>6. \A k \in Key : Image(v)[y].child[k] \in Place /\ Image(v)[y].child[k] # y
        BY <3>2, <3>3, <3>4, <3>7, <4>3 DEF Once, Branching, Contents
      <4>7. x \notin TreePages(Image(v), v.root) /\ {-1, -2, -3, -4, -5} \subseteq Spot
            /\ Pool(Image(v), v) \cap {-1, -2, -3, -4, -5} = {}
        BY <3>3, <3>4, <3>7, PoolType DEF Spare, Has
      <4>8. /\ TreePages(Image(v), v.root) = {y} \cup ({Image(v)[y].child[k] : k \in Key} \ {Invalid})
            /\ TreePages(Image(u), u.root) = {x} \cup ({Image(v)[y].child[k] : k \in Key} \ {Invalid})
        BY <3>2, <3>7, <4>2, <4>3, <4>5, Bounds DEF TreePages
      <4>9. \A k \in Key : Image(v)[y].child[k] # x
        BY SMTT(40), <4>3, <4>7, <4>8, Bounds
      <4>10. Records(u) = Records(v) /\ RecordsIn(Image(u), u.freeRoot) = RecordsIn(Image(v), v.freeRoot)
        <5>1. Records(u) = Records(v)
          BY <1>1, <3>2, <4>2, <4>3, <4>4 DEF Records, Place
        <5> QED
          BY <1>6, <3>4, <5>1, ImageFacts
      <4>11. Pool(Image(u), u) = Pool(Image(v), v)
        BY <4>2, <4>10 DEF Pool
      <4>12. ASSUME NEW p \in Page, NEW i \in Spot, Has(Image(u), u, p, i)
             PROVE  \/ Has(Image(v), v, p, i) /\ p # y
                    \/ p = x /\ i = -1
                    \/ p = y /\ i = -4
        <5>1. CASE p = y
          <6>1. Has(Image(v), v, y, -1)
            BY <4>8 DEF Has
          <6>2. i = -1 => FALSE
            BY <4>3, <4>6, <4>7, <4>8, <4>11, <4>12, <5>1 DEF Has
          <6>3. i # -4 => Has(Image(v), v, y, i)
            BY <4>2, <4>10, <4>11, <4>12, <5>1, <6>2 DEF Has
          <6> QED
            BY <3>3, <4>3, <4>7, <5>1, <6>1, <6>2, <6>3 DEF Once
        <5>2. CASE p # y
          BY <4>2, <4>8, <4>10, <4>11, <4>12, <5>2 DEF Has
        <5> QED
          BY <5>1, <5>2
      <4>13. Branching(Image(u), u.root)
        BY <3>2, <3>3, <3>7, <4>2, <4>3, <4>5, <4>9 DEF Once, Branching
      <4>14. Has(Image(v), v, y, -1)
        BY <4>8 DEF Has
      <4>15. Once(Image(u), u)
        <5>1. \A p \in Page : \A i \in Spot : Has(Image(u), u, p, i) =>
                 \/ Has(Image(v), v, p, i) /\ p # y
                 \/ p = x /\ i = -1
                 \/ p = y /\ i = -4
          BY <4>12
        <5>2. Spare(v, x) /\ Once(Image(v), v) /\ x # y /\ u.next = v.next /\ u.loose = v.loose
              /\ -1 \in Spot
          BY SMTT(40), <3>3, <3>7, <4>2, <4>3, <4>7
        <5> HIDE DEF x, y
        <5> QED
          BY SMTT(40), <4>13, <4>14, <5>1, <5>2, Moved
      <4>16. Tree(Image(u), u.root) = Tree(Image(v), v.root)
        BY SMTT(40), <3>2, <3>7, <4>2, <4>3, <4>5, <4>6, <4>9, Bounds DEF Tree, Place
      <4>17. \A k \in Key : Child(u, k) = Child(v, k)
        BY <3>2, <3>7, <4>2, <4>3, <4>4, Bounds DEF Child
      <4>18. LosesNone(t, u)
        <5>1. -1 \in Spot /\ -4 \in Spot /\ Has(Image(u), u, x, -1) /\ Has(Image(u), u, y, -4)
          BY <4>2, <4>7, <4>8 DEF Has
        <5>2. ASSUME NEW p \in Page, p # y, NEW i \in Spot, Has(Image(v), v, p, i)
              PROVE  Has(Image(u), u, p, i)
          BY <4>2, <4>8, <4>10, <4>11, <5>2 DEF Has
        <5>3. \A p \in Page : \A i \in Spot :
                 Has(Image(v), v, p, i) => \E j \in Spot : Has(Image(u), u, p, j)
          BY <5>1, <5>2
        <5> QED
          BY <3>3, <4>2, <5>1, <5>3, NoneLostOf
      <4> QED
        BY <3>3, <4>10, <4>15, <4>16, <4>17, <4>18 DEF Alike
    <3> QED
      BY SMTT(40), <3>5, <3>6, <3>7
  <2> QED
    BY <2>1, <2>2
<1> QED
  BY <1>7, <1>8 DEF u

(* The leaf of the freeDB, likewise.                                       *)
LEMMA FreeOnce ==
    ASSUME Shape, NEW t, Begun(t), Once(Image(t), t)
    PROVE  /\ Begun(OwnFree(t)) /\ Same(t, OwnFree(t)) /\ Further(t, OwnFree(t))
           /\ OwnFree(t).root = t.root /\ t.freed \subseteq OwnFree(t).freed
           /\ \A q \in DOMAIN t.buf : q \in DOMAIN OwnFree(t).buf
           /\ Once(Image(OwnFree(t)), OwnFree(t)) /\ Alike(t, OwnFree(t)) /\ LosesNone(t, OwnFree(t))
           /\ IF OwnFree(t).page = Invalid THEN OwnFree(t).freeRoot = t.freeRoot
              ELSE /\ OwnFree(t).freeRoot = OwnFree(t).page
                   /\ OwnFree(t).freeRoot \in DOMAIN OwnFree(t).buf
                   /\ OwnFree(t).freeRoot \in Page
           /\ t.freeRoot \in DOMAIN t.buf => OwnFree(t) = [t EXCEPT !.page = t.freeRoot]
<1> DEFINE w == Own(t, t.freeRoot)
           u == OwnFree(t)
<1>1. t \in Txns /\ t.root \in Place /\ t.freeRoot \in Place
  BY DEF Begun, Txns
<1>2. Owned(t, t.freeRoot, w)
  BY <1>1, OwnFacts
<1>3. u = IF w.page = Invalid THEN w ELSE [w EXCEPT !.freeRoot = w.page]
  BY DEF OwnFree, SetFree
<1> HIDE DEF w, u
<1>4. /\ Begun(w) /\ Same(t, w)
      /\ w.root = t.root /\ w.freeRoot = t.freeRoot
      /\ w.page # Invalid => w.page \in Page /\ w.page \in DOMAIN w.buf
      /\ \A q \in DOMAIN t.buf : q \in DOMAIN w.buf
      /\ Further(t, w) /\ t.freed \subseteq w.freed
      /\ t.freeRoot \in DOMAIN t.buf => w = [t EXCEPT !.page = t.freeRoot]
  BY <1>1, <1>2, OwnedKeeps
<1>5. w \in Txns
  BY <1>4 DEF Begun
<1>6. /\ u \in Txns /\ Same(w, u) /\ u.root = w.root /\ u.freed = w.freed /\ u.buf = w.buf
      /\ u.pghead = w.pghead /\ u.pglast = w.pglast /\ u.pgoldest = w.pgoldest /\ u.next = w.next
      /\ u.loose = w.loose /\ u.page = w.page
      /\ u.freeRoot = IF w.page = Invalid THEN w.freeRoot ELSE w.page
  BY SMTT(40), <1>3, <1>4, <1>5 DEF Txns, Same, Place
<1>7. /\ Begun(u) /\ Same(t, u) /\ Further(t, u) /\ u.root = t.root /\ t.freed \subseteq u.freed
      /\ \A q \in DOMAIN t.buf : q \in DOMAIN u.buf
      /\ IF u.page = Invalid THEN u.freeRoot = t.freeRoot
         ELSE u.freeRoot = u.page /\ u.freeRoot \in DOMAIN u.buf /\ u.freeRoot \in Page
  BY <1>4, <1>6 DEF Begun, Same, Further
<1>8. t.freeRoot \in DOMAIN t.buf => u = [t EXCEPT !.page = t.freeRoot]
  BY ZenonT(60), <1>1, <1>3, <1>4, ImageFacts, Bounds DEF Txns
<1>9. Once(Image(u), u) /\ Alike(t, u) /\ LosesNone(t, u)
  <2>1. CASE t.freeRoot \in DOMAIN t.buf
    <3>1. /\ u.root = t.root /\ u.freeRoot = t.freeRoot /\ u.buf = t.buf /\ u.freed = t.freed
          /\ u.pghead = t.pghead /\ u.pglast = t.pglast /\ u.next = t.next /\ u.loose = t.loose
          /\ u.id = t.id
      BY <1>1, <1>8, <2>1 DEF Txns
    <3>2. Image(u) = Image(t) /\ \A p \in Page : At(u, p) = At(t, p)
      BY <3>1 DEF Image, At
    <3>3. Records(u) = Records(t) /\ \A k \in Key : Child(u, k) = Child(t, k)
      BY <3>1 DEF Records, Child, At
    <3>4. \A p, i : Has(Image(u), u, p, i) <=> Has(Image(t), t, p, i)
      BY <3>1, <3>2 DEF Has, Pool
    <3>5. LosesNone(t, u)
      BY <3>1, <3>4, NoneLost
    <3> QED
      BY <3>1, <3>2, <3>3, <3>4, <3>5 DEF Once, Alike
  <2>2. CASE t.freeRoot \notin DOMAIN t.buf
    <3>1. PICK v : /\ Drawn(t, v)
                   /\ \/ (v.page = Invalid \/ t.freeRoot = Invalid) /\ w = v
                      \/ /\ v.page # Invalid /\ t.freeRoot # Invalid
                         /\ w = [v EXCEPT !.buf = w.buf, !.freed = @ \cup {t.freeRoot}]
                         /\ DOMAIN w.buf = DOMAIN v.buf /\ w.buf[v.page] = At(v, t.freeRoot)
                         /\ \A q \in DOMAIN v.buf : q # v.page => w.buf[q] = v.buf[q]
      BY ZenonT(60), <1>2, <2>2 DEF Owned
    <3>2. /\ Begun(v) /\ v.root = t.root /\ v.freeRoot = t.freeRoot
          /\ v.page # Invalid => v.page \in DOMAIN v.buf
      BY <3>1, DrawnKeeps
    <3>3. /\ Once(Image(v), v) /\ Alike(t, v)
          /\ v.page # Invalid => Spare(v, v.page)
          /\ Missing(Image(v), v) \subseteq Missing(Image(t), t) \cup {v.page}
          /\ \A p \in Page : p # v.page => At(v, p) = At(t, p)
          /\ v.page # Invalid => v.page # t.root /\ v.page # t.freeRoot
      BY <3>1, DrawnOnce
    <3>4. v \in Txns /\ Image(v) \in [Page -> Contents] /\ Image(u) \in [Page -> Contents]
      BY <1>6, <3>2, ImageFacts DEF Begun
    <3>5. CASE v.page = Invalid
      <4>1. u = v
        BY <1>3, <3>1, <3>5
      <4>2. Invalid \notin Missing(Image(v), v)
        BY Bounds DEF Missing
      <4> QED
        BY <3>3, <3>5, <4>1, <4>2 DEF LosesNone
    <3>6. CASE v.page # Invalid /\ t.freeRoot = Invalid
      <4> DEFINE x == v.page
      <4>1. /\ u.buf = v.buf /\ u.root = v.root /\ u.freeRoot = x /\ u.freed = v.freed
            /\ u.pghead = v.pghead /\ u.pglast = v.pglast /\ u.next = v.next /\ u.loose = v.loose
            /\ u.id = v.id
        BY <1>6, <3>1, <3>6 DEF Same
      <4>2. Image(u) = Image(v) /\ \A p \in Page : At(u, p) = At(v, p)
        BY <4>1 DEF Image, At
      <4>3. x \in Page /\ At(v, x) = Blank
        <5>1. v.buf[x] = Blank
          BY <3>1, <3>6, Bounds DEF Drawn, Taken
        <5> QED
          BY <3>2, <3>3, <3>6, <5>1 DEF Spare, At
      <4>4. Records(u) = <<>> /\ Records(v) = <<>>
        BY <3>2, <3>6, <4>1, <4>2, <4>3, Bounds DEF Records, Blank
      <4>5. Pool(Image(u), u) = {}
        BY <1>6, <4>4, EmptyMaps, ImageFacts DEF Pool
      <4>6. \A p, i : Has(Image(u), u, p, i) => Has(Image(v), v, p, i) \/ (p = x /\ i = -2)
        BY <4>1, <4>2, <4>5 DEF Has
      <4>7. Branching(Image(u), u.root)
        BY <3>3, <4>1, <4>2 DEF Once
      <4>8. Once(Image(u), u)
        <5>1. Spare(v, x) /\ Once(Image(v), v) /\ u.next = v.next /\ u.loose = v.loose
          BY <3>3, <3>6, <4>1
        <5> HIDE DEF x
        <5> QED
          BY <4>6, <4>7, <5>1, Added
      <4>9. \A k \in Key : Child(u, k) = Child(v, k)
        BY <4>1 DEF Child, At
      <4>10. LosesNone(t, u)
        <5>1. Pool(Image(v), v) = {} /\ Invalid \notin Page
          BY <3>4, <4>4, EmptyMaps, ImageFacts, Bounds DEF Pool
        <5>2. \A p \in Page : \A i \in Spot : Has(Image(v), v, p, i) => Has(Image(u), u, p, i)
          BY <3>2, <3>6, <4>1, <4>2, <5>1 DEF Has
        <5>3. -2 \in Spot /\ Has(Image(u), u, x, -2)
          BY <3>4, <4>1, PoolType DEF Has
        <5> QED
          BY <3>3, <4>1, <5>2, <5>3, NoneLostOf
      <4> QED
        BY <3>3, <4>1, <4>2, <4>4, <4>8, <4>9, <4>10 DEF Alike
    <3>7. CASE v.page # Invalid /\ t.freeRoot # Invalid
      <4> DEFINE x == v.page
                 y == t.freeRoot
      <4>1. /\ w = [v EXCEPT !.buf = w.buf, !.freed = @ \cup {y}] /\ w.page = x
            /\ DOMAIN w.buf = DOMAIN v.buf /\ w.buf[x] = At(v, y)
            /\ \A q \in DOMAIN v.buf : q # x => w.buf[q] = v.buf[q]
        BY <3>1, <3>4, <3>7 DEF Txns
      <4>2. /\ u.buf = w.buf /\ u.root = v.root /\ u.freeRoot = x /\ u.freed = v.freed \cup {y}
            /\ u.pghead = v.pghead /\ u.pglast = v.pglast /\ u.next = v.next /\ u.loose = v.loose
            /\ u.id = v.id
        BY ZenonT(60), <1>6, <3>4, <3>7, <4>1 DEF Same, Txns
      <4>3. x \in Page /\ y \in Page /\ x # y /\ x # v.root /\ x \in DOMAIN v.buf
        BY <1>1, <3>2, <3>3, <3>7 DEF Spare, Place
      <4>4. /\ \A p \in Page : p # x => At(u, p) = At(v, p)
            /\ At(u, x) = At(v, y)
        BY <4>1, <4>2, <4>3 DEF At
      <4>5. \A p \in Page : p # x => Image(u)[p] = Image(v)[p]
        BY <3>4, <4>4 DEF Image
      <4>6. x \notin TreePages(Image(v), v.root) /\ {-1, -2, -3, -4, -5} \subseteq Spot
            /\ Pool(Image(v), v) \cap {-1, -2, -3, -4, -5} = {}
        BY <3>3, <3>4, <3>7, PoolType DEF Spare, Has
      <4>7. /\ TreePages(Image(u), u.root) = TreePages(Image(v), v.root)
            /\ Tree(Image(u), u.root) = Tree(Image(v), v.root)
            /\ Branching(Image(u), u.root)
        <5>1. v.root \in Place /\ Branching(Image(v), v.root)
          BY <3>3, <3>4 DEF Txns, Once
        <5>2. \A p \in TreePages(Image(v), v.root) : Image(u)[p] = Image(v)[p]
          BY <3>4, <4>5, <4>6, <5>1, TreeType
        <5> QED
          BY <3>4, <4>2, <5>1, <5>2, Unaffected
      <4>8. Records(u) = Records(v) /\ RecordsIn(Image(u), u.freeRoot) = RecordsIn(Image(v), v.freeRoot)
        <5>1. Records(u) = Records(v)
          BY <3>2, <3>7, <4>2, <4>3, <4>4, Bounds DEF Records
        <5> QED
          BY <1>6, <3>4, <5>1, ImageFacts
      <4>9. Pool(Image(u), u) = Pool(Image(v), v)
        BY <4>2, <4>8 DEF Pool
      <4>10. Has(Image(v), v, y, -2)
        BY <3>2 DEF Has
      <4>11. ASSUME NEW p \in Page, NEW i \in Spot, Has(Image(u), u, p, i)
             PROVE  \/ Has(Image(v), v, p, i) /\ p # y
                    \/ p = x /\ i = -2
                    \/ p = y /\ i = -4
        <5>1. CASE p = y
          <6>1. i # -4 => Has(Image(v), v, y, i) /\ i # -2
            BY <4>2, <4>3, <4>6, <4>7, <4>8, <4>9, <4>11, <5>1 DEF Has
          <6> QED
            BY <3>3, <4>3, <4>6, <4>10, <5>1, <6>1 DEF Once
        <5>2. CASE p # y
          BY <4>2, <4>7, <4>8, <4>9, <4>11, <5>2 DEF Has
        <5> QED
          BY <5>1, <5>2
      <4>12. Once(Image(u), u)
        <5>1. \A p \in Page : \A i \in Spot : Has(Image(u), u, p, i) =>
                 \/ Has(Image(v), v, p, i) /\ p # y
                 \/ p = x /\ i = -2
                 \/ p = y /\ i = -4
          BY <4>11
        <5>2. Spare(v, x) /\ Once(Image(v), v) /\ x # y /\ u.next = v.next /\ u.loose = v.loose
              /\ -2 \in Spot
          BY <3>3, <3>7, <4>2, <4>3, <4>6
        <5> HIDE DEF x, y
        <5> QED
          BY <4>7, <4>10, <5>1, <5>2, Moved
      <4>13. \A k \in Key : Child(u, k) = Child(v, k)
        BY <3>4, <4>2, <4>3, <4>4 DEF Child, Txns, Place
      <4>14. LosesNone(t, u)
        <5>1. -2 \in Spot /\ -4 \in Spot /\ Has(Image(u), u, x, -2) /\ Has(Image(u), u, y, -4)
          BY <4>2, <4>6 DEF Has
        <5>2. ASSUME NEW p \in Page, p # y, NEW i \in Spot, Has(Image(v), v, p, i)
              PROVE  Has(Image(u), u, p, i)
          BY <3>2, <4>2, <4>7, <4>8, <4>9, <5>2 DEF Has
        <5>3. \A p \in Page : \A i \in Spot :
                 Has(Image(v), v, p, i) => \E j \in Spot : Has(Image(u), u, p, j)
          BY <5>1, <5>2
        <5> QED
          BY <3>3, <4>2, <5>1, <5>3, NoneLostOf
      <4> QED
        BY <3>3, <4>7, <4>8, <4>12, <4>13, <4>14 DEF Alike
    <3> QED
      BY <3>5, <3>6, <3>7
  <2> QED
    BY <2>1, <2>2
<1> QED
  BY <1>7, <1>8, <1>9 DEF u

-----------------------------------------------------------------------------
(* What a put or delete does to the places.                                *)

(* The pages of the main tree, in a transaction that owns its root.        *)
LEMMA ChildFacts ==
    ASSUME Shape, NEW t \in Txns, t.root # Invalid
    PROVE  /\ t.root \in Page
           /\ \A k \in Key : Child(t, k) \in Place /\ Child(t, k) = Image(t)[t.root].child[k]
           /\ TreePages(Image(t), t.root) = {t.root} \cup ({Child(t, k) : k \in Key} \ {Invalid})
           /\ \A k \in Key : Tree(Image(t), t.root)[k] =
                                IF Child(t, k) = Invalid THEN Absent ELSE At(t, Child(t, k)).val
<1>1. t.root \in Page
  BY DEF Txns, Place
<1>2. \A p \in Page : At(t, p) \in Contents /\ Image(t)[p] = At(t, p)
  BY AtType DEF Image
<1>3. \A k \in Key : Child(t, k) = Image(t)[t.root].child[k]
  BY <1>1, <1>2 DEF Child
<1>4. \A k \in Key : Child(t, k) \in Place
  BY <1>1, <1>2 DEF Child, Contents
<1>5. TreePages(Image(t), t.root) = {t.root} \cup ({Child(t, k) : k \in Key} \ {Invalid})
  BY <1>3 DEF TreePages
<1>6. \A k \in Key : Tree(Image(t), t.root)[k] =
                        IF Child(t, k) = Invalid THEN Absent ELSE At(t, Child(t, k)).val
  BY <1>2, <1>3, <1>4 DEF Tree, Place
<1> QED
  BY <1>1, <1>3, <1>4, <1>5, <1>6

(* A root that is owned gets another child.                                *)
LEMMA SetChildFacts ==
    ASSUME Shape, NEW t \in Txns, t.root \in DOMAIN t.buf, NEW k \in Key, NEW p \in Place
    PROVE  /\ SetChild(t, k, p) \in Txns
           /\ SetChild(t, k, p) = [t EXCEPT !.buf = SetChild(t, k, p).buf]
           /\ DOMAIN SetChild(t, k, p).buf = DOMAIN t.buf
           /\ SetChild(t, k, p).buf[t.root] = [t.buf[t.root] EXCEPT !.child[k] = p]
           /\ \A q \in Page : q # t.root => At(SetChild(t, k, p), q) = At(t, q)
           /\ Child(SetChild(t, k, p), k) = p
           /\ \A j \in Key : j # k => Child(SetChild(t, k, p), j) = Child(t, j)
<1> DEFINE c == [t.buf[t.root] EXCEPT !.child[k] = p]
           w == SetChild(t, k, p)
<1>1. t.root \in Page /\ t.root # Invalid
  BY Bounds, ImageFacts
<1>2. t.buf[t.root] \in Contents
  BY <1>1, AtType DEF At
<1>3. /\ c \in Contents /\ c.child[k] = p
      /\ \A j \in Key : j # k => c.child[j] = t.buf[t.root].child[j]
  BY <1>2 DEF Contents
<1>4. w = SetPage(t, t.root, c)
  BY DEF SetChild
<1> HIDE DEF c
<1>5. /\ w \in Txns /\ w = [t EXCEPT !.buf = w.buf]
      /\ DOMAIN w.buf = DOMAIN t.buf \cup {t.root} /\ w.buf[t.root] = c
      /\ \A q \in DOMAIN t.buf : q # t.root => w.buf[q] = t.buf[q]
  BY <1>1, <1>3, <1>4, SetPageType
<1> HIDE DEF w
<1>6. DOMAIN w.buf = DOMAIN t.buf /\ w.root = t.root
  BY SMTT(40), <1>5 DEF Txns
<1>7. \A q \in Page : q # t.root => At(w, q) = At(t, q)
  BY <1>5, <1>6 DEF At
<1>8. Child(w, k) = p /\ \A j \in Key : j # k => Child(w, j) = Child(t, j)
  BY <1>1, <1>3, <1>5, <1>6 DEF Child, At
<1> QED
  BY <1>5, <1>6, <1>7, <1>8 DEF w, c

(* A spare page takes the place of a child of the root.                    *)
LEMMA GraftOnce ==
    ASSUME Shape, NEW v \in Txns, NEW w \in Txns, Once(Image(v), v), v.root # Invalid,
           NEW k \in Key, NEW x, Spare(v, x), x # v.root, x # v.freeRoot,
           w.root = v.root, w.freeRoot = v.freeRoot, w.next = v.next, w.loose = v.loose,
           w.pghead = v.pghead, w.pglast = v.pglast, w.id = v.id,
           w.freed = v.freed \cup ({Child(v, k)} \ {Invalid}),
           \A p \in Page : p # x /\ p # v.root => At(w, p) = At(v, p),
           Child(w, k) = x, \A j \in Key : j # k => Child(w, j) = Child(v, j)
    PROVE  /\ Once(Image(w), w) /\ Records(w) = Records(v)
           /\ \A t : Missing(Image(v), v) \subseteq Missing(Image(t), t) \cup {x} => LosesNone(t, w)
<1> DEFINE y == Child(v, k)
<1>0. x \in Page /\ x # Invalid /\ \A i \in Spot : ~Has(Image(v), v, x, i)
  BY Bounds DEF Spare
<1>1. /\ v.root \in Page /\ y \in Place
      /\ TreePages(Image(v), v.root) = {v.root} \cup ({Child(v, j) : j \in Key} \ {Invalid})
      /\ \A j \in Key : Child(v, j) = Image(v)[v.root].child[j]
  BY ChildFacts
<1>2. /\ TreePages(Image(w), w.root) = {v.root} \cup ({Child(w, j) : j \in Key} \ {Invalid})
      /\ \A j \in Key : Child(w, j) = Image(w)[w.root].child[j]
  BY ChildFacts
<1>3. {-1, -2, -3, -4, -5} \subseteq Spot /\ Pool(Image(v), v) \cap {-1, -2, -3, -4, -5} = {}
  BY PoolType
<1>4. \A j \in Key : /\ Child(v, j) # v.root /\ Child(v, j) # x
                     /\ Child(v, j) = y => j = k \/ y = Invalid
  <2>1. \A j \in Key : Child(v, j) # v.root /\ (Child(v, j) = y => j = k \/ y = Invalid)
    BY <1>1 DEF Once, Branching
  <2>2. \A j \in Key : Child(v, j) # x
    BY <1>0, <1>1, <1>3 DEF Has
  <2> QED
    BY <2>1, <2>2
<1>5. v.freeRoot # v.root
  <2>1. Has(Image(v), v, v.root, -1)
    BY <1>1 DEF Has
  <2>2. v.freeRoot = v.root => Has(Image(v), v, v.root, -2)
    BY DEF Has
  <2> QED
    BY <1>1, <1>3, <2>1, <2>2 DEF Once
<1>6. Records(w) = Records(v)
  BY ZenonT(60), <1>5, Bounds DEF Records, Txns, Place
<1>7. RecordsIn(Image(w), w.freeRoot) = RecordsIn(Image(v), v.freeRoot)
  BY <1>6, ImageFacts
<1>8. Pool(Image(w), w) = Pool(Image(v), v)
  BY <1>7 DEF Pool
<1>9. \A p \in TreePages(Image(w), w.root) : p = x \/ (p \in TreePages(Image(v), v.root) /\ p # y)
  <2> SUFFICES ASSUME NEW p \in TreePages(Image(w), w.root), p # x
               PROVE  p \in TreePages(Image(v), v.root) /\ p # y
    OBVIOUS
  <2>1. CASE p = v.root
    BY <1>1, <1>4, <2>1
  <2>2. CASE p # v.root
    <3>1. PICK j \in Key : p = Child(w, j) /\ p # Invalid
      BY <1>2, <2>2
    <3>2. j # k /\ p = Child(v, j)
      BY <3>1
    <3> QED
      BY <1>1, <1>4, <3>1, <3>2
  <2> QED
    BY <2>1, <2>2
<1>10. y \in Page => Has(Image(v), v, y, -1)
  BY <1>1, Bounds DEF Has
<1>11. ASSUME NEW p \in Page, NEW i \in Spot, Has(Image(w), w, p, i)
       PROVE  \/ Has(Image(v), v, p, i) /\ p # y
              \/ p = x /\ i = -1
              \/ p = y /\ i = -4
  <2>1. \/ p = x /\ i = -1
        \/ p = y /\ i = -4
        \/ Has(Image(v), v, p, i) /\ (i = -1 => p # y)
    <3>1. CASE i = -1 /\ p \in TreePages(Image(w), w.root)
      BY <1>9, <3>1 DEF Has
    <3>2. CASE i = -4 /\ p \in w.freed
      BY <3>2 DEF Has
    <3>3. CASE i \in {-2, -3, -5} /\ (i = -2 => p = w.freeRoot) /\ (i = -3 => p \in w.pghead)
                /\ (i = -5 => p \in ToSet(w.loose))
      BY <3>3 DEF Has
    <3>4. CASE i \in Pool(Image(w), w) /\ p \in RecordsIn(Image(w), w.freeRoot)[i]
      BY <1>3, <1>7, <1>8, <3>4 DEF Has
    <3> QED
      BY <1>11, <3>1, <3>2, <3>3, <3>4 DEF Has
  <2>2. Has(Image(v), v, p, i) /\ i # -1 => p # y
    BY <1>3, <1>10 DEF Once
  <2> QED
    BY <2>1, <2>2
<1>12. Branching(Image(w), w.root)
  <2>1. ASSUME NEW i \in Key PROVE Child(w, i) # w.root
    BY <1>4
  <2>2. ASSUME NEW i \in Key, NEW j \in Key, Child(w, j) = Child(w, i)
        PROVE  j = i \/ Child(w, i) = Invalid
    <3>1. i = k /\ j # k => FALSE
      BY <1>4, <2>2
    <3>2. j = k /\ i # k => FALSE
      BY <1>4, <2>2
    <3>3. j # k /\ i # k => Child(v, j) = Child(v, i)
      BY <2>2
    <3>4. Child(v, j) = Child(v, i) => j = i \/ Child(v, i) = Invalid
      BY <1>1 DEF Once, Branching
    <3> QED
      BY <3>1, <3>2, <3>3, <3>4
  <2> QED
    BY <1>2, <2>1, <2>2 DEF Branching
<1>13. \A p \in Page : \A i, j \in Spot : Has(Image(v), v, p, i) /\ Has(Image(v), v, p, j) => i = j
  BY DEF Once
<1>14. y # x
  BY <1>4
<1>15. ASSUME NEW p \in Page, NEW i \in Spot, NEW j \in Spot,
              Has(Image(w), w, p, i), Has(Image(w), w, p, j)
       PROVE  i = j
  BY <1>0, <1>11, <1>13, <1>14, <1>15
<1>16. \A p \in Page : \A i \in Spot : Has(Image(w), w, p, i) => p < w.next
  <2>1. y \in Page => y < v.next
    BY <1>3, <1>10 DEF Once
  <2> QED
    BY <1>11, <2>1 DEF Once, Spare
<1>17. Once(Image(w), w)
  BY <1>12, <1>15, <1>16 DEF Once
<1>18. ASSUME NEW p \in Page, p # y, NEW i \in Spot, Has(Image(v), v, p, i)
       PROVE  Has(Image(w), w, p, i)
  <2>1. CASE i = -1 /\ p \in TreePages(Image(v), v.root)
    <3>1. p = v.root \/ \E j \in Key : j # k /\ p = Child(w, j) /\ p # Invalid
      BY <1>1, <1>18, <2>1
    <3> QED
      BY <1>2, <2>1, <3>1 DEF Has
  <2>2. CASE ~(i = -1 /\ p \in TreePages(Image(v), v.root))
    BY <1>7, <1>8, <1>18, <2>2 DEF Has
  <2> QED
    BY <2>1, <2>2
<1>19. y \in Page => Has(Image(w), w, y, -4)
  BY Bounds DEF Has
<1>20. \A p \in Page : \A i \in Spot :
          Has(Image(v), v, p, i) => \E j \in Spot : Has(Image(w), w, p, j)
  BY <1>3, <1>18, <1>19
<1>21. Has(Image(w), w, x, -1) /\ -1 \in Spot
  BY <1>0, <1>2, <1>3 DEF Has
<1>22. ASSUME NEW t, Missing(Image(v), v) \subseteq Missing(Image(t), t) \cup {x}
       PROVE  LosesNone(t, w)
  BY <1>20, <1>21, <1>22, NoneLostOf
<1> QED
  BY <1>6, <1>17, <1>22

(* The leaf of a key made the transaction's, or made, and its root too:    *)
(* nothing is seen of it, and the page it was copied from is freed.        *)
LEMMA ChildOnce ==
    ASSUME Shape, NEW t, Begun(t), Once(Image(t), t), t.root \in DOMAIN t.buf, NEW k \in Key,
           NEW u, u = Own(t, Child(t, k)), u.page # Invalid,
           NEW w, w = SetChild(u, k, u.page)
    PROVE  /\ Begun(w) /\ Same(t, w) /\ Further(t, w) /\ w.root = t.root
           /\ w.freeRoot = t.freeRoot /\ t.freed \subseteq w.freed /\ w.page = u.page
           /\ \A q \in DOMAIN t.buf : q \in DOMAIN w.buf
           /\ Once(Image(w), w) /\ Records(w) = Records(t) /\ LosesNone(t, w)
           /\ Tree(Image(w), w.root) = Tree(Image(t), t.root)
           /\ w.page \in DOMAIN w.buf /\ w.page # w.root /\ w.root \in DOMAIN w.buf
           /\ Child(w, k) = w.page /\ \A j \in Key : j # k => Child(w, j) = Child(t, j)
<1> DEFINE c == Child(t, k)
           x == u.page
<1>1. t \in Txns /\ t.root \in Page /\ t.root # Invalid /\ DOMAIN t.buf \subseteq Page
  BY Bounds, ImageFacts DEF Begun
<1>2. /\ c \in Place
      /\ \A j \in Key : Child(t, j) \in Place /\ Child(t, j) = Image(t)[t.root].child[j]
      /\ TreePages(Image(t), t.root) = {t.root} \cup ({Child(t, j) : j \in Key} \ {Invalid})
      /\ \A j \in Key : Tree(Image(t), t.root)[j] =
                           IF Child(t, j) = Invalid THEN Absent ELSE At(t, Child(t, j)).val
  BY <1>1, ChildFacts
<1>3. Owned(t, c, u)
  BY <1>2, OwnFacts
<1>4. /\ Begun(u) /\ Same(t, u)
      /\ u.root = t.root /\ u.freeRoot = t.freeRoot
      /\ x \in Page /\ x \in DOMAIN u.buf
      /\ \A q \in DOMAIN t.buf : q \in DOMAIN u.buf /\ (q # x => u.buf[q] = t.buf[q])
      /\ Further(t, u) /\ t.freed \subseteq u.freed
  BY <1>2, <1>3, OwnedKeeps
<1>5. u \in Txns /\ u.root \in DOMAIN u.buf /\ x \in Place
  BY SMTT(40), <1>1, <1>4 DEF Begun, Place
<1>6. /\ w \in Txns /\ w = [u EXCEPT !.buf = w.buf]
      /\ DOMAIN w.buf = DOMAIN u.buf
      /\ w.buf[u.root] = [u.buf[u.root] EXCEPT !.child[k] = x]
      /\ \A q \in Page : q # u.root => At(w, q) = At(u, q)
      /\ Child(w, k) = x
      /\ \A j \in Key : j # k => Child(w, j) = Child(u, j)
  BY <1>5, SetChildFacts
<1>7. /\ Same(u, w) /\ w.root = u.root /\ w.freeRoot = u.freeRoot /\ w.freed = u.freed
      /\ w.pghead = u.pghead /\ w.pglast = u.pglast /\ w.pgoldest = u.pgoldest /\ w.next = u.next
      /\ w.loose = u.loose /\ w.page = u.page /\ w.id = u.id
  BY SMTT(40), <1>5, <1>6 DEF Txns, Same
<1>8. /\ Begun(w) /\ Same(t, w) /\ Further(t, w) /\ w.root = t.root
      /\ w.freeRoot = t.freeRoot /\ t.freed \subseteq w.freed /\ w.page = x
      /\ \A q \in DOMAIN t.buf : q \in DOMAIN w.buf
      /\ w.page \in DOMAIN w.buf /\ w.root \in DOMAIN w.buf
  BY <1>4, <1>5, <1>6, <1>7 DEF Begun, Same, Further
<1>9. /\ \A j \in Key : Tree(Image(w), w.root)[j] =
                           IF Child(w, j) = Invalid THEN Absent ELSE At(w, Child(w, j)).val
      /\ \A j \in Key : Child(w, j) = Image(w)[w.root].child[j]
  BY SMTT(40), <1>1, <1>6, <1>8, ChildFacts
<1>10. \A j \in Key : Child(t, j) # t.root /\ (Child(t, j) = c => j = k \/ c = Invalid)
  BY <1>1, <1>2 DEF Once, Branching
<1>11. CASE c \in DOMAIN t.buf
  <2>1. u = [t EXCEPT !.page = c]
    BY ZenonT(60), <1>3, <1>11 DEF Owned
  <2>2. /\ x = c /\ u.buf = t.buf /\ u.freed = t.freed /\ u.pghead = t.pghead /\ u.pglast = t.pglast
        /\ u.next = t.next /\ u.loose = t.loose /\ u.id = t.id
    BY SMTT(40), <1>1, <2>1 DEF Txns
  <2>3. u.buf[u.root] \in Contents /\ u.buf[u.root].child[k] = c
    BY ZenonT(60), <1>1, <1>4, <2>2, AtType DEF Child, At
  <2>4. w.buf[u.root] = u.buf[u.root]
    BY <1>6, <2>2, <2>3 DEF Contents
  <2>5. \A q \in Page : At(w, q) = At(t, q)
    BY <1>4, <1>5, <1>6, <1>7, <2>2, <2>4 DEF At
  <2>6. Image(w) = Image(t)
    BY <2>5 DEF Image
  <2>7. Records(w) = Records(t)
    BY SMTT(40), <1>1, <1>8, <2>5 DEF Records, Txns, Place
  <2>8. \A j \in Key : Child(w, j) = Child(t, j)
    BY ZenonT(60), <1>1, <1>8, <2>5 DEF Child
  <2>9. \A p, i : Has(Image(w), w, p, i) <=> Has(Image(t), t, p, i)
    BY <1>7, <1>8, <2>2, <2>6 DEF Has, Pool
  <2>10. Once(Image(w), w)
    BY <1>7, <1>8, <2>2, <2>6, <2>9 DEF Once
  <2>11. x # t.root
    BY SMTT(40), <1>10, <2>2
  <2>12. LosesNone(t, w)
    BY <1>7, <2>2, <2>9, NoneLost
  <2> QED
    BY <1>6, <1>8, <2>6, <2>7, <2>8, <2>10, <2>11, <2>12
<1>12. CASE c \notin DOMAIN t.buf
  <2>1. PICK v : /\ Drawn(t, v)
                 /\ \/ (v.page = Invalid \/ c = Invalid) /\ u = v
                    \/ /\ v.page # Invalid /\ c # Invalid
                       /\ u = [v EXCEPT !.buf = u.buf, !.freed = @ \cup {c}]
                       /\ DOMAIN u.buf = DOMAIN v.buf /\ u.buf[v.page] = At(v, c)
                       /\ \A q \in DOMAIN v.buf : q # v.page => u.buf[q] = v.buf[q]
    BY ZenonT(60), <1>3, <1>12 DEF Owned
  <2>2. /\ Begun(v) /\ v.root = t.root /\ v.freeRoot = t.freeRoot
        /\ v.page # Invalid => v.page \in DOMAIN v.buf
    BY <2>1, DrawnKeeps
  <2>3. v \in Txns
    BY <2>2 DEF Begun
  <2>4. /\ u.page = v.page /\ u.next = v.next /\ u.loose = v.loose /\ u.pghead = v.pghead
        /\ u.pglast = v.pglast /\ u.id = v.id /\ u.freed = v.freed \cup ({c} \ {Invalid})
    BY ZenonT(60), <2>1, <2>3 DEF Txns
  <2>5. /\ Once(Image(v), v) /\ Alike(t, v) /\ Spare(v, x)
        /\ \A p \in Page : p # x => At(v, p) = At(t, p)
        /\ x # t.root /\ x # t.freeRoot /\ x \notin TreePages(Image(t), t.root)
        /\ Missing(Image(v), v) \subseteq Missing(Image(t), t) \cup {x}
    BY <2>1, <2>4, DrawnOnce
  <2>6. /\ x \in DOMAIN v.buf /\ DOMAIN u.buf = DOMAIN v.buf
        /\ \A q \in DOMAIN v.buf : q # x => u.buf[q] = v.buf[q]
        /\ u.buf[x] = IF c = Invalid THEN v.buf[x] ELSE At(v, c)
    BY <2>1, <2>2, <2>4
  <2>7. \A p \in Page : p # x => At(u, p) = At(v, p)
    BY <2>6 DEF At
  <2>8. \A j \in Key : Child(v, j) = Child(t, j)
    BY <2>5 DEF Alike
  <2>9. \A j \in Key : Child(u, j) = Child(v, j)
    BY ZenonT(60), <1>1, <1>4, <2>2, <2>5, <2>7 DEF Child
  <2>10. Once(Image(w), w) /\ Records(w) = Records(v) /\ LosesNone(t, w)
    <3>1. v.root # Invalid /\ w.root = v.root /\ w.freeRoot = v.freeRoot
      BY <1>1, <1>8, <2>2
    <3>2. /\ w.next = v.next /\ w.loose = v.loose /\ w.pghead = v.pghead /\ w.pglast = v.pglast
          /\ w.id = v.id /\ w.freed = v.freed \cup ({Child(v, k)} \ {Invalid})
      BY <1>7, <2>4, <2>8
    <3>3. \A p \in Page : p # x /\ p # v.root => At(w, p) = At(v, p)
      BY <1>4, <1>6, <2>2, <2>7
    <3>4. Child(w, k) = x /\ \A j \in Key : j # k => Child(w, j) = Child(v, j)
      BY <1>6, <2>9
    <3>5. x # v.root /\ x # v.freeRoot
      BY <2>2, <2>5
    <3> HIDE DEF x
    <3> QED
      BY SMTT(40), <1>6, <2>3, <2>5, <3>1, <3>2, <3>3, <3>4, <3>5, GraftOnce
  <2>11. At(w, x).val = IF c = Invalid THEN Absent ELSE At(t, c).val
    <3>1. At(w, x) = u.buf[x]
      BY <1>4, <1>6, <2>5, <2>6 DEF At
    <3>2. CASE c = Invalid
      <4>1. v.buf[x] = Blank
        BY <1>4, <2>1, <2>4, Bounds DEF Drawn, Taken
      <4> QED
        BY <2>6, <3>1, <3>2, <4>1 DEF Blank
    <3>3. CASE c # Invalid
      <4>1. c \in TreePages(Image(t), t.root) /\ c \in Page
        BY <1>2, <3>3 DEF Place
      <4>2. At(v, c) = At(t, c)
        BY <2>5, <4>1
      <4> QED
        BY <2>6, <3>1, <3>3, <4>2
    <3> QED
      BY <3>2, <3>3
  <2>12. \A j \in Key : Tree(Image(w), w.root)[j] = Tree(Image(t), t.root)[j]
    <3> SUFFICES ASSUME NEW j \in Key PROVE Tree(Image(w), w.root)[j] = Tree(Image(t), t.root)[j]
      OBVIOUS
    <3>1. CASE j = k
      BY <1>2, <1>4, <1>6, <1>9, <2>11, <3>1, Bounds
    <3>2. CASE j # k
      <4>1. Child(w, j) = Child(t, j)
        BY <1>6, <2>8, <2>9, <3>2
      <4>2. CASE Child(t, j) = Invalid
        BY <1>2, <1>9, <4>1, <4>2
      <4>3. CASE Child(t, j) # Invalid
        <5>1. Child(t, j) \in TreePages(Image(t), t.root) /\ Child(t, j) \in Page /\ Child(t, j) # t.root
          BY <1>2, <1>10, <4>3 DEF Place
        <5>2. At(w, Child(t, j)) = At(t, Child(t, j))
          BY SMTT(40), <1>4, <1>6, <2>5, <2>7, <5>1
        <5> QED
          BY <1>2, <1>9, <4>1, <5>2
      <4> QED
        BY <4>2, <4>3
    <3> QED
      BY <3>1, <3>2
  <2>13. Tree(Image(w), w.root) = Tree(Image(t), t.root)
    BY ZenonT(60), <2>12 DEF Tree
  <2>14. Records(w) = Records(t) /\ \A j \in Key : j # k => Child(w, j) = Child(t, j)
    BY <1>6, <2>5, <2>8, <2>9, <2>10 DEF Alike
  <2> QED
    BY SMTT(40), <1>6, <1>8, <2>5, <2>10, <2>13, <2>14
<1> QED
  BY <1>11, <1>12

(* A leaf set where the root already points to it: the page alone changes. *)
LEMMA LeafWritten ==
    ASSUME Shape, NEW t \in Txns, t.root \in DOMAIN t.buf, NEW k \in Key,
           NEW x \in Page, x \in DOMAIN t.buf, x # t.root, NEW leaf \in Contents,
           NEW w, w = SetChild(t, k, x), NEW u, u = SetChild(SetPage(t, x, leaf), k, x)
    PROVE  /\ u \in Txns /\ u = [t EXCEPT !.buf = u.buf]
           /\ w \in Txns /\ w = [t EXCEPT !.buf = w.buf]
           /\ DOMAIN u.buf = DOMAIN t.buf /\ DOMAIN w.buf = DOMAIN t.buf
           /\ At(u, x) = leaf /\ \A q \in Page : q # x => At(u, q) = At(w, q)
<1> DEFINE a == SetPage(t, x, leaf)
<1>1. x \in Place /\ t.root \in Page
  BY ImageFacts DEF Place
<1>2. /\ a \in Txns /\ a = [t EXCEPT !.buf = a.buf]
      /\ DOMAIN a.buf = DOMAIN t.buf \cup {x} /\ a.buf[x] = leaf
      /\ \A q \in DOMAIN t.buf : q # x => a.buf[q] = t.buf[q]
  BY SetPageType
<1>3. u = SetChild(a, k, x)
  OBVIOUS
<1>4. /\ w \in Txns /\ w = [t EXCEPT !.buf = w.buf]
      /\ DOMAIN w.buf = DOMAIN t.buf
      /\ w.buf[t.root] = [t.buf[t.root] EXCEPT !.child[k] = x]
      /\ \A q \in Page : q # t.root => At(w, q) = At(t, q)
  BY <1>1, SetChildFacts
<1> HIDE DEF a
<1>5. a.root = t.root /\ DOMAIN a.buf = DOMAIN t.buf /\ a.buf[t.root] = t.buf[t.root]
  BY <1>2, BufOnly
<1>6. /\ u \in Txns /\ u = [a EXCEPT !.buf = u.buf]
      /\ DOMAIN u.buf = DOMAIN a.buf
      /\ u.buf[t.root] = [a.buf[t.root] EXCEPT !.child[k] = x]
      /\ \A q \in Page : q # t.root => At(u, q) = At(a, q)
  <2>1. a.root \in DOMAIN a.buf
    BY <1>5
  <2>2. a \in Txns /\ x \in Place
    BY <1>1, <1>2
  <2> QED
    BY SMTT(40), <1>3, <1>5, <2>1, <2>2, SetChildFacts
<1>7. u = [t EXCEPT !.buf = u.buf]
  BY ZenonT(60), <1>2, <1>6 DEF Txns
<1>8. At(u, x) = leaf
  <2>1. At(u, x) = At(a, x) /\ x \in DOMAIN a.buf
    BY <1>5, <1>6
  <2> QED
    BY <1>2, <2>1 DEF At
<1>9. \A q \in Page : q # x => At(u, q) = At(w, q)
  <2>1. ASSUME NEW q \in Page, q # x  PROVE  At(a, q) = At(t, q)
    BY <1>2, <1>5, <2>1 DEF At
  <2>2. At(u, t.root) = At(w, t.root)
    BY <1>4, <1>5, <1>6 DEF At
  <2> QED
    BY <1>4, <1>6, <2>1, <2>2
<1> QED
  BY <1>4, <1>5, <1>6, <1>7, <1>8, <1>9

(* So no page changes its place, and only the value of the leaf differs.   *)
LEMMA LeafOnce ==
    ASSUME Shape, NEW w \in Txns, Once(Image(w), w), w.root \in DOMAIN w.buf, w.root \in Page,
           NEW k \in Key, NEW n \in 0 .. MaxWrites, NEW x \in Page, x # w.root, Child(w, k) = x,
           NEW u \in Txns, DOMAIN u.buf = DOMAIN w.buf,
           u.root = w.root, u.freeRoot = w.freeRoot, u.freed = w.freed, u.pghead = w.pghead,
           u.pglast = w.pglast, u.next = w.next, u.loose = w.loose, u.id = w.id,
           At(u, x).val = n,
           \A q \in Page : q # x => At(u, q) = At(w, q)
    PROVE  /\ Once(Image(u), u) /\ Records(u) = Records(w)
           /\ \A p, i : Has(Image(u), u, p, i) <=> Has(Image(w), w, p, i)
           /\ \A j \in Key : Tree(Image(u), u.root)[j] = IF j = k THEN n ELSE Tree(Image(w), w.root)[j]
<1>1. w.root \in Page /\ w.root # Invalid /\ u.root # Invalid
  BY Bounds
<1>2. \A j \in Key : Child(u, j) = Child(w, j)
  <2>1. u.root = w.root /\ u.root # Invalid /\ At(u, u.root) = At(w, w.root)
    BY <1>1
  <2>2. ASSUME NEW j \in Key  PROVE  Child(u, j) = Child(w, j)
    BY <2>1, Zenon DEF Child
  <2> QED
    BY <2>2
<1>3. TreePages(Image(u), u.root) = TreePages(Image(w), w.root)
  <2>1. TreePages(Image(u), u.root) = {u.root} \cup ({Child(u, j) : j \in Key} \ {Invalid})
    BY <1>1, ChildFacts
  <2>2. TreePages(Image(w), w.root) = {w.root} \cup ({Child(w, j) : j \in Key} \ {Invalid})
    BY ZenonT(60), <1>1, ChildFacts
  <2> QED
    BY <1>2, <2>1, <2>2
<1>4. w.freeRoot # x
  <2>1. Has(Image(w), w, x, -1)
    <3>1. TreePages(Image(w), w.root) = {w.root} \cup ({Child(w, j) : j \in Key} \ {Invalid})
      BY <1>1, ChildFacts
    <3>2. x \in TreePages(Image(w), w.root)
      BY <3>1, Bounds
    <3> QED
      BY <3>2 DEF Has
  <2>2. w.freeRoot = x => Has(Image(w), w, x, -2)
    BY DEF Has
  <2>3. -1 \in Spot /\ -2 \in Spot
    BY PoolType
  <2> QED
    BY <2>1, <2>2, <2>3 DEF Once
<1>5. Records(u) = Records(w)
  <2>1. u.freeRoot = w.freeRoot /\ w.freeRoot \in Place /\ w.freeRoot # x
    BY <1>4 DEF Txns
  <2>2. w.freeRoot # Invalid => At(u, w.freeRoot) = At(w, w.freeRoot)
    BY <2>1 DEF Place
  <2> QED
    BY SMTT(40), <2>1, <2>2 DEF Records
<1>6. RecordsIn(Image(u), u.freeRoot) = RecordsIn(Image(w), w.freeRoot)
  BY SMTT(40), <1>5, ImageFacts
<1>7. \A p, i : Has(Image(u), u, p, i) <=> Has(Image(w), w, p, i)
  BY SMTT(40), <1>3, <1>6 DEF Has, Pool
<1>8. Branching(Image(u), u.root)
  <2>1. Branching(Image(w), w.root)
    BY DEF Once
  <2>2. \A j \in Key : Child(u, j) = Image(u)[u.root].child[j]
    BY <1>1, ChildFacts
  <2>3. \A j \in Key : Child(w, j) = Image(w)[w.root].child[j]
    BY SMTT(40), <1>1, ChildFacts
  <2>4. \A j \in Key : Image(u)[u.root].child[j] = Image(w)[w.root].child[j]
    BY <1>2, <2>2, <2>3
  <2>5. u.root = w.root /\ w.root # Invalid
    BY SMTT(40), <1>1
  <2>6. ASSUME NEW j \in Key
        PROVE  /\ Image(u)[u.root].child[j] # u.root
               /\ \A i \in Key : Image(u)[u.root].child[i] = Image(u)[u.root].child[j] =>
                                    i = j \/ Image(u)[u.root].child[j] = Invalid
    <3>1. /\ Image(w)[w.root].child[j] # w.root
          /\ \A i \in Key : Image(w)[w.root].child[i] = Image(w)[w.root].child[j] =>
                               i = j \/ Image(w)[w.root].child[j] = Invalid
      BY ZenonT(60), <2>1, <2>5, <2>6 DEF Branching
    <3> QED
      BY SMTT(40), <2>4, <2>5, <3>1
  <2> QED
    BY ZenonT(60), <2>6 DEF Branching
<1>9. Once(Image(u), u)
  BY <1>7, <1>8 DEF Once
<1>10. \A j \in Key : Tree(Image(u), u.root)[j] = IF j = k THEN n ELSE Tree(Image(w), w.root)[j]
  <2>1. \A j \in Key : Child(w, j) \in Place /\ (Child(w, j) = x => j = k)
    <3>1. \A j \in Key : Child(w, j) \in Place /\ Child(w, j) = Image(w)[w.root].child[j]
      BY <1>1, ChildFacts
    <3>2. x # Invalid
      BY Bounds
    <3> QED
      BY <1>1, <3>1, <3>2 DEF Once, Branching
  <2>2. \A j \in Key : Tree(Image(u), u.root)[j] = IF Child(u, j) = Invalid THEN Absent ELSE At(u, Child(u, j)).val
    BY <1>1, ChildFacts
  <2>3. \A j \in Key : Tree(Image(w), w.root)[j] = IF Child(w, j) = Invalid THEN Absent ELSE At(w, Child(w, j)).val
    BY <1>1, ChildFacts
  <2>4. x # Invalid
    BY Bounds
  <2>5. ASSUME NEW j \in Key, j # k
        PROVE  Tree(Image(u), u.root)[j] = Tree(Image(w), w.root)[j]
    BY <1>2, <2>1, <2>2, <2>3, <2>5 DEF Place
  <2> QED
    BY <1>2, <2>2, <2>4, <2>5
<1> QED
  BY <1>5, <1>7, <1>9, <1>10

(* mdb_put leaves the transaction with the value under its key, and no     *)
(* page in two places.                                                     *)
LEMMA PutOnce ==
    ASSUME Shape, NEW t, Begun(t), Once(Image(t), t), NEW k \in Key, NEW n \in 0 .. MaxWrites,
           NEW t1, t1 = OwnRoot(t), t1.page # Invalid,
           NEW t2, t2 = Own(t1, Child(t1, k)), t2.page # Invalid,
           NEW u, u = SetChild(SetPage(t2, t2.page, [Blank EXCEPT !.val = n]), k, t2.page)
    PROVE  /\ Begun(u) /\ Same(t, u) /\ Further(t, u) /\ u.freeRoot = t.freeRoot
           /\ t.freed \subseteq u.freed /\ \A q \in DOMAIN t.buf : q \in DOMAIN u.buf
           /\ Once(Image(u), u) /\ Records(u) = Records(t) /\ LosesNone(t, u)
           /\ Tree(Image(u), u.root) = [Tree(Image(t), t.root) EXCEPT ![k] = n]
           /\ DOMAIN u.buf # {}
<1> DEFINE x == t2.page
           leaf == [Blank EXCEPT !.val = n]
           w == SetChild(t2, k, x)
<1>1. /\ Begun(t1) /\ Same(t, t1) /\ Further(t, t1)
      /\ t1.freeRoot = t.freeRoot /\ t.freed \subseteq t1.freed
      /\ \A q \in DOMAIN t.buf : q \in DOMAIN t1.buf
      /\ Once(Image(t1), t1) /\ Alike(t, t1) /\ LosesNone(t, t1)
      /\ t1.root \in DOMAIN t1.buf /\ t1.root \in Page
  BY RootOnce
<1>2. /\ Begun(w) /\ Same(t1, w) /\ Further(t1, w) /\ w.root = t1.root
      /\ w.freeRoot = t1.freeRoot /\ t1.freed \subseteq w.freed /\ w.page = x
      /\ \A q \in DOMAIN t1.buf : q \in DOMAIN w.buf
      /\ Once(Image(w), w) /\ Records(w) = Records(t1) /\ LosesNone(t1, w)
      /\ Tree(Image(w), w.root) = Tree(Image(t1), t1.root)
      /\ x \in DOMAIN w.buf /\ x # w.root /\ w.root \in DOMAIN w.buf
      /\ Child(w, k) = x /\ \A j \in Key : j # k => Child(w, j) = Child(t1, j)
  BY <1>1, ChildOnce
<1>3. t1 \in Txns /\ Child(t1, k) \in Place
  BY <1>1, Bounds, ChildFacts DEF Begun
<1>4. /\ t2 \in Txns /\ t2.root = t1.root /\ x \in Page /\ x \in DOMAIN t2.buf
      /\ \A q \in DOMAIN t1.buf : q \in DOMAIN t2.buf
  BY <1>1, <1>3, OwnFacts, OwnedKeeps DEF Begun
<1>5. leaf \in Contents /\ leaf.val = n
  BY BlankType DEF Contents, Blank
<1> HIDE DEF leaf
<1>6. x # t2.root /\ t2.root \in DOMAIN t2.buf /\ t2 \in Txns
  BY <1>1, <1>2, <1>4
<1>7. /\ u \in Txns /\ u = [t2 EXCEPT !.buf = u.buf]
      /\ w \in Txns /\ w = [t2 EXCEPT !.buf = w.buf]
      /\ DOMAIN u.buf = DOMAIN t2.buf /\ DOMAIN w.buf = DOMAIN t2.buf
      /\ At(u, x) = leaf /\ \A q \in Page : q # x => At(u, q) = At(w, q)
  <2>1. u = SetChild(SetPage(t2, x, leaf), k, x)
    BY DEF leaf
  <2> QED
    BY SMTT(40), <1>4, <1>5, <1>6, <2>1, LeafWritten
<1> HIDE DEF w
<1>8. /\ Same(w, u) /\ u.root = w.root /\ u.freeRoot = w.freeRoot /\ u.freed = w.freed
       /\ u.pghead = w.pghead /\ u.pglast = w.pglast /\ u.pgoldest = w.pgoldest
       /\ u.next = w.next /\ u.loose = w.loose /\ u.id = w.id /\ DOMAIN u.buf = DOMAIN w.buf
  <2>1. /\ Same(t2, u) /\ u.root = t2.root /\ u.freeRoot = t2.freeRoot /\ u.freed = t2.freed
        /\ u.pghead = t2.pghead /\ u.pglast = t2.pglast /\ u.pgoldest = t2.pgoldest
        /\ u.next = t2.next /\ u.loose = t2.loose /\ u.id = t2.id
    BY SMTT(40), <1>6, <1>7, BufOnly
  <2>2. /\ Same(t2, w) /\ w.root = t2.root /\ w.freeRoot = t2.freeRoot /\ w.freed = t2.freed
        /\ w.pghead = t2.pghead /\ w.pglast = t2.pglast /\ w.pgoldest = t2.pgoldest
        /\ w.next = t2.next /\ w.loose = t2.loose /\ w.id = t2.id
    BY SMTT(40), <1>6, <1>7, BufOnly
  <2>3. Same(w, u)
    BY <2>1, <2>2, SameTwo
  <2> QED
    BY SMTT(40), <1>7, <2>1, <2>2, <2>3
<1>9. /\ At(u, x) = leaf
       /\ \A q \in Page : q # x => At(u, q) = At(w, q)
  BY ZenonT(60), <1>7
<1>10. u \in Txns /\ w \in Txns
  BY ZenonT(60), <1>7
<1>11. w.root \in Page
  BY <1>1, <1>2
<1>12. /\ Once(Image(u), u) /\ Records(u) = Records(w)
       /\ \A p, i : Has(Image(u), u, p, i) <=> Has(Image(w), w, p, i)
       /\ \A j \in Key : Tree(Image(u), u.root)[j] = IF j = k THEN n ELSE Tree(Image(w), w.root)[j]
  <2>1. At(u, x).val = n
    BY <1>5, <1>9
  <2> HIDE DEF x
  <2> QED
    BY SMTT(40), <1>2, <1>4, <1>10, <1>8, <1>9, <1>11, <2>1, LeafOnce
<1>13. Tree(Image(u), u.root) = [Tree(Image(t), t.root) EXCEPT ![k] = n]
  <2>1. Tree(Image(w), w.root) = Tree(Image(t), t.root)
    BY SMTT(40), <1>1, <1>2 DEF Alike
  <2>2. Tree(Image(u), u.root) = [j \in Key |-> IF j = k THEN n ELSE Tree(Image(w), w.root)[j]]
    BY ZenonT(60), <1>12 DEF Tree
  <2> DEFINE T == Tree(Image(t), t.root)
  <2>3. T = [j \in Key |-> T[j]]
    BY DEF Tree
  <2>4. Tree(Image(u), u.root) = [j \in Key |-> IF j = k THEN n ELSE T[j]]
    BY <2>1, <2>2
  <2> HIDE DEF T
  <2>5. [T EXCEPT ![k] = n] = [j \in Key |-> IF j = k THEN n ELSE T[j]]
    BY <2>3
  <2>6. Tree(Image(u), u.root) = [T EXCEPT ![k] = n]
    BY SMTT(40), <2>4, <2>5
  <2> QED
    BY SMTT(40), <2>6 DEF T
<1>14. Begun(u) /\ Same(t, u)
  BY <1>1, <1>2, <1>10, <1>8 DEF Begun, Same
<1>15. Further(t, u)
  <2>1. Records(t1) = Records(t)
    BY <1>1 DEF Alike
  <2>2. t.pglast \in Nat /\ t1.pglast \in Nat /\ w.pglast \in Nat
    BY <1>1, <1>2, BegunFacts
  <2> QED
    BY <1>1, <1>2, <1>8, <2>1, <2>2 DEF Further
<1>16. /\ u.freeRoot = t.freeRoot /\ t.freed \subseteq u.freed
       /\ \A q \in DOMAIN t.buf : q \in DOMAIN u.buf
  BY <1>1, <1>2, <1>8
<1>17. Records(u) = Records(t)
  BY <1>1, <1>2, <1>12 DEF Alike
<1>18. DOMAIN u.buf # {}
  BY <1>2, <1>8
<1>19. LosesNone(t, u)
  <2>1. LosesNone(w, u)
    BY <1>8, <1>12, NoneLost
  <2> QED
    BY <1>1, <1>2, <2>1 DEF LosesNone
<1> QED
  BY ZenonT(60), <1>12, <1>13, <1>14, <1>15, <1>16, <1>17, <1>18, <1>19

(* A page that goes from one place to another leaves none in two.          *)
LEMMA Relocated ==
    ASSUME NEW v, NEW u, Once(Image(v), v), u.next = v.next,
           NEW y \in Page, NEW c \in Spot, Has(Image(v), v, y, c), NEW b,
           \A p \in Page : \A i \in Spot : Has(Image(u), u, p, i) =>
              (Has(Image(v), v, p, i) /\ p # y) \/ (p = y /\ i = b),
           Branching(Image(u), u.root), \A i, j \in DOMAIN u.loose : u.loose[i] = u.loose[j] => i = j
    PROVE  Once(Image(u), u)
<1>1. \A p \in Page : \A i, j \in Spot : Has(Image(v), v, p, i) /\ Has(Image(v), v, p, j) => i = j
  BY DEF Once
<1>2. ASSUME NEW p \in Page, NEW i \in Spot, NEW j \in Spot,
             Has(Image(u), u, p, i), Has(Image(u), u, p, j)
      PROVE  i = j
  BY <1>1, <1>2
<1>3. \A p \in Page : \A i \in Spot : Has(Image(u), u, p, i) => p < u.next
  BY DEF Once
<1> QED
  BY <1>2, <1>3 DEF Once

(* A page in front of a sequence that does not have it.                    *)
LEMMA InFront ==
    ASSUME NEW s \in Seq(Page), NEW x \in Page, x \notin ToSet(s),
           \A i, j \in DOMAIN s : s[i] = s[j] => i = j
    PROVE  /\ <<x>> \o s \in Seq(Page) /\ ToSet(<<x>> \o s) = ToSet(s) \cup {x}
           /\ \A i, j \in DOMAIN (<<x>> \o s) : (<<x>> \o s)[i] = (<<x>> \o s)[j] => i = j
<1> DEFINE w == <<x>> \o s
<1>1. /\ w \in Seq(Page) /\ Len(w) = Len(s) + 1 /\ w[1] = x
      /\ \A i \in 1 .. Len(w) : i # 1 => w[i] = s[i - 1]
  OBVIOUS
<1>2. DOMAIN w = 1 .. Len(w) /\ DOMAIN s = 1 .. Len(s) /\ Len(s) \in Nat
  BY <1>1
<1> HIDE DEF w
<1>3. \A i \in DOMAIN w : i # 1 => i - 1 \in DOMAIN s /\ w[i] = s[i - 1]
  BY <1>1, <1>2
<1>4. \A i \in DOMAIN s : i + 1 \in DOMAIN w /\ w[i + 1] = s[i]
  BY <1>1, <1>2
<1>5. 1 \in DOMAIN w
  BY <1>1, <1>2
<1>6. ToSet(w) = ToSet(s) \cup {x}
  <2>1. \A i \in DOMAIN w : w[i] \in ToSet(s) \cup {x}
    BY <1>1, <1>3 DEF ToSet
  <2>2. \A i \in DOMAIN s : s[i] \in ToSet(w)
    BY <1>4 DEF ToSet
  <2>3. x \in ToSet(w)
    BY <1>1, <1>5 DEF ToSet
  <2> QED
    BY <2>1, <2>2, <2>3 DEF ToSet
<1>7. \A i \in DOMAIN s : s[i] # x
  BY DEF ToSet
<1>8. ASSUME NEW i \in DOMAIN w, NEW j \in DOMAIN w, w[i] = w[j] PROVE i = j
  <2>1. i \in Int /\ j \in Int
    BY <1>2
  <2> QED
    BY SMTT(40), <1>1, <1>3, <1>7, <1>8, <2>1
<1> QED
  BY <1>1, <1>6, <1>8 DEF w

(* The leaf under k has become loose, and nothing else has changed.        *)
Loosened(w, u, k) ==
    /\ u \in Txns /\ Same(w, u) /\ u.root = w.root /\ u.freeRoot = w.freeRoot /\ u.freed = w.freed
    /\ u.pghead = w.pghead /\ u.pglast = w.pglast /\ u.pgoldest = w.pgoldest
    /\ u.next = w.next /\ u.loose = <<w.page>> \o w.loose /\ DOMAIN u.buf = DOMAIN w.buf
    /\ ToSet(u.loose) = ToSet(w.loose) \cup {w.page}
    /\ Once(Image(u), u) /\ Records(u) = Records(w)
    /\ Tree(Image(u), u.root) = [Tree(Image(w), w.root) EXCEPT ![k] = Absent]
    /\ u.root \in DOMAIN u.buf /\ LosesNone(w, u)

(* The leaf taken from the root becomes a loose page.                      *)
LEMMA LoosenOnce ==
    ASSUME Shape, NEW t2 \in Txns, t2.root \in DOMAIN t2.buf, NEW k \in Key, t2.page \in Page,
           NEW w, w = SetChild(t2, k, t2.page), Once(Image(w), w), w.page # w.root,
           NEW u, u = Loosen(t2, k)
    PROVE  Loosened(w, u, k)
<1> DEFINE x == t2.page
           a == SetChild(t2, k, Invalid)
<1>1. x \in Place /\ Invalid \in Place /\ x # Invalid /\ t2.root \in Page /\ t2.root # Invalid
  BY Bounds, ImageFacts DEF Place
<1>2. /\ w \in Txns /\ w = [t2 EXCEPT !.buf = w.buf]
      /\ DOMAIN w.buf = DOMAIN t2.buf
      /\ w.buf[t2.root] = [t2.buf[t2.root] EXCEPT !.child[k] = x]
      /\ \A q \in Page : q # t2.root => At(w, q) = At(t2, q)
      /\ Child(w, k) = x
      /\ \A j \in Key : j # k => Child(w, j) = Child(t2, j)
  BY SMTT(40), <1>1, SetChildFacts
<1>3. /\ a \in Txns /\ a = [t2 EXCEPT !.buf = a.buf]
      /\ DOMAIN a.buf = DOMAIN t2.buf
      /\ a.buf[t2.root] = [t2.buf[t2.root] EXCEPT !.child[k] = Invalid]
      /\ \A q \in Page : q # t2.root => At(a, q) = At(t2, q)
      /\ Child(a, k) = Invalid
      /\ \A j \in Key : j # k => Child(a, j) = Child(t2, j)
  BY <1>1, SetChildFacts
<1>4. u = [a EXCEPT !.loose = <<x>> \o a.loose]
  <2>1. a.page = x
    BY <1>3 DEF Txns
  <2> QED
    BY <2>1 DEF Loosen
<1> HIDE DEF a
<1>5. /\ Same(t2, w) /\ w.root = t2.root /\ w.freeRoot = t2.freeRoot /\ w.freed = t2.freed
      /\ w.pghead = t2.pghead /\ w.pglast = t2.pglast /\ w.pgoldest = t2.pgoldest
      /\ w.next = t2.next /\ w.loose = t2.loose /\ w.id = t2.id /\ w.page = x
  BY SMTT(40), <1>2 DEF Txns, Same
<1>6. /\ Same(t2, a) /\ a.root = t2.root /\ a.freeRoot = t2.freeRoot /\ a.freed = t2.freed
      /\ a.pghead = t2.pghead /\ a.pglast = t2.pglast /\ a.pgoldest = t2.pgoldest
      /\ a.next = t2.next /\ a.loose = t2.loose /\ a.id = t2.id
  BY SMTT(40), <1>3 DEF Txns, Same
<1>7. /\ w.root \in Page /\ w.root # Invalid /\ x # w.root
      /\ TreePages(Image(w), w.root) = {w.root} \cup ({Child(w, j) : j \in Key} \ {Invalid})
      /\ \A j \in Key : Child(w, j) \in Place /\ Child(w, j) = Image(w)[w.root].child[j]
      /\ \A j \in Key : Tree(Image(w), w.root)[j] =
                           IF Child(w, j) = Invalid THEN Absent ELSE At(w, Child(w, j)).val
  BY <1>1, <1>2, <1>5, ChildFacts
<1>8. {-1, -2, -3, -4, -5} \subseteq Spot /\ Pool(Image(w), w) \cap {-1, -2, -3, -4, -5} = {}
  BY <1>2, PoolType
<1>9. Has(Image(w), w, x, -1)
  BY <1>1, <1>2, <1>7 DEF Has
<1>10. x \notin ToSet(w.loose) /\ w.freeRoot # x /\ w.freeRoot # w.root
  <2>1. x \in ToSet(w.loose) => Has(Image(w), w, x, -5)
    BY DEF Has
  <2>2. w.freeRoot = x => Has(Image(w), w, x, -2)
    BY DEF Has
  <2>3. Has(Image(w), w, w.root, -1)
    BY <1>7 DEF Has
  <2>4. w.freeRoot = w.root => Has(Image(w), w, w.root, -2)
    BY DEF Has
  <2> QED
    BY <1>7, <1>8, <1>9, <2>1, <2>2, <2>3, <2>4 DEF Once
<1>11. /\ <<x>> \o w.loose \in Seq(Page) /\ ToSet(<<x>> \o w.loose) = ToSet(w.loose) \cup {x}
       /\ \A i, j \in DOMAIN (<<x>> \o w.loose) : (<<x>> \o w.loose)[i] = (<<x>> \o w.loose)[j] => i = j
  <2>1. w.loose \in Seq(Page) /\ \A i, j \in DOMAIN w.loose : w.loose[i] = w.loose[j] => i = j
    BY <1>2 DEF Txns, Once
  <2> HIDE DEF x
  <2> QED
    BY <1>10, <2>1, InFront DEF x
<1>12. u \in Txns /\ u.loose = <<x>> \o w.loose /\ u.buf = a.buf
  <2> DEFINE y == <<x>> \o w.loose
  <2>1. u = [a EXCEPT !.loose = y] /\ y \in Seq(Page)
    BY <1>4, <1>5, <1>6, <1>11
  <2> HIDE DEF y
  <2>2. u \in Txns /\ u.loose = y /\ u.buf = a.buf
    BY ZenonT(60), <1>3, <2>1 DEF Txns
  <2> QED
    BY <2>2 DEF y
<1>13. /\ Same(w, u) /\ u.root = w.root /\ u.freeRoot = w.freeRoot /\ u.freed = w.freed
       /\ u.pghead = w.pghead /\ u.pglast = w.pglast /\ u.pgoldest = w.pgoldest
       /\ u.next = w.next /\ u.id = w.id
  <2>1. /\ Same(a, u) /\ u.root = a.root /\ u.freeRoot = a.freeRoot /\ u.freed = a.freed
        /\ u.pghead = a.pghead /\ u.pglast = a.pglast /\ u.pgoldest = a.pgoldest
        /\ u.next = a.next /\ u.id = a.id
    BY <1>3, <1>4 DEF Txns, Same
  <2> QED
    BY <1>5, <1>6, <2>1 DEF Same
<1>14. DOMAIN u.buf = DOMAIN w.buf /\ u.root \in DOMAIN u.buf
  BY <1>2, <1>3, <1>5, <1>12, <1>13
<1>15. /\ \A q \in Page : q # w.root => At(u, q) = At(w, q)
       /\ Child(u, k) = Invalid /\ \A j \in Key : j # k => Child(u, j) = Child(w, j)
  <2>1. \A q \in Page : At(u, q) = At(a, q)
    BY <1>12 DEF At
  <2>2. \A j \in Key : Child(u, j) = Child(a, j)
    BY <1>5, <1>6, <1>7, <1>13, <2>1 DEF Child
  <2> QED
    BY <1>2, <1>3, <1>5, <2>1, <2>2
<1>16. /\ TreePages(Image(u), u.root) = {u.root} \cup ({Child(u, j) : j \in Key} \ {Invalid})
       /\ \A j \in Key : Child(u, j) = Image(u)[u.root].child[j]
       /\ \A j \in Key : Tree(Image(u), u.root)[j] =
                            IF Child(u, j) = Invalid THEN Absent ELSE At(u, Child(u, j)).val
  BY ZenonT(60), <1>7, <1>12, <1>13, ChildFacts
<1>17. \A j \in Key : /\ Child(w, j) # w.root
                      /\ \A i \in Key : Child(w, i) = Child(w, j) => i = j \/ Child(w, j) = Invalid
  BY <1>7 DEF Once, Branching
<1>18. Records(u) = Records(w)
  BY SMTT(40), <1>2, <1>10, <1>13, <1>15 DEF Records, Txns, Place
<1>19. RecordsIn(Image(u), u.freeRoot) = RecordsIn(Image(w), w.freeRoot)
  BY <1>2, <1>12, <1>18, ImageFacts
<1>20. \A p \in TreePages(Image(u), u.root) : p \in TreePages(Image(w), w.root) /\ p # x
  <2> SUFFICES ASSUME NEW p \in TreePages(Image(u), u.root)
               PROVE  p \in TreePages(Image(w), w.root) /\ p # x
    OBVIOUS
  <2>1. CASE p = w.root
    BY <1>7, <2>1
  <2>2. CASE p # w.root
    <3>1. PICK j \in Key : p = Child(u, j) /\ p # Invalid
      BY <1>13, <1>16, <2>2
    <3>2. j # k /\ p = Child(w, j)
      BY <1>15, <3>1
    <3> QED
      BY <1>1, <1>2, <1>7, <1>17, <3>1, <3>2
  <2> QED
    BY <2>1, <2>2
<1>21. ASSUME NEW p \in Page, NEW i \in Spot, Has(Image(u), u, p, i)
       PROVE  (Has(Image(w), w, p, i) /\ p # x) \/ (p = x /\ i = -5)
  <2>1. CASE i = -1 /\ p \in TreePages(Image(u), u.root)
    BY <1>20, <2>1 DEF Has
  <2>2. CASE i = -5 /\ p \in ToSet(u.loose)
    BY <1>8, <1>10, <1>11, <1>12, <2>2 DEF Has
  <2>3. CASE \/ i = -2 /\ p = u.freeRoot
             \/ i = -3 /\ p \in u.pghead
             \/ i = -4 /\ p \in u.freed
             \/ i \in Pool(Image(u), u) /\ p \in RecordsIn(Image(u), u.freeRoot)[i]
    <3>1. Has(Image(w), w, p, i) /\ i # -1
      BY <1>8, <1>13, <1>19, <2>3 DEF Has, Pool
    <3> QED
      BY <1>8, <1>9, <3>1 DEF Once
  <2> QED
    BY <1>21, <2>1, <2>2, <2>3 DEF Has
<1>22. Branching(Image(u), u.root)
  <2>1. \A j \in Key : Child(u, j) # u.root
    BY <1>7, <1>13, <1>15, <1>17, Bounds
  <2>2. \A j \in Key : \A i \in Key : Child(u, i) = Child(u, j) => i = j \/ Child(u, j) = Invalid
    BY <1>15, <1>17
  <2> QED
    BY <1>16, <2>1, <2>2 DEF Branching
<1>23. Once(Image(u), u)
  <2>1. \A p \in Page : \A i \in Spot : Has(Image(u), u, p, i) =>
           (Has(Image(w), w, p, i) /\ p # x) \/ (p = x /\ i = -5)
    BY <1>21
  <2>2. \A i, j \in DOMAIN u.loose : u.loose[i] = u.loose[j] => i = j
    BY <1>11, <1>12
  <2>3. x \in Page /\ -1 \in Spot /\ u.next = w.next
    BY <1>8, <1>13
  <2> HIDE DEF x
  <2> QED
    BY SMTT(40), <1>9, <1>22, <2>1, <2>2, <2>3, Relocated
<1>24. \A j \in Key : Tree(Image(u), u.root)[j] = IF j = k THEN Absent ELSE Tree(Image(w), w.root)[j]
  <2> SUFFICES ASSUME NEW j \in Key, j # k
               PROVE  Tree(Image(u), u.root)[j] = Tree(Image(w), w.root)[j]
    BY <1>15, <1>16
  <2>1. Child(u, j) = Child(w, j) /\ Child(w, j) # w.root /\ Child(w, j) \in Place
    BY <1>7, <1>15, <1>17
  <2> QED
    BY <1>7, <1>15, <1>16, <2>1 DEF Place
<1>25. Tree(Image(u), u.root) = [Tree(Image(w), w.root) EXCEPT ![k] = Absent]
  <2> DEFINE T == Tree(Image(w), w.root)
  <2>1. T = [j \in Key |-> T[j]]
    BY DEF Tree
  <2>2. Tree(Image(u), u.root) = [j \in Key |-> IF j = k THEN Absent ELSE T[j]]
    BY ZenonT(60), <1>24 DEF Tree
  <2> HIDE DEF T
  <2>3. Tree(Image(u), u.root) = [T EXCEPT ![k] = Absent]
    BY <2>1, <2>2
  <2> QED
    BY <2>3 DEF T
<1>26. u.loose = <<w.page>> \o w.loose /\ ToSet(u.loose) = ToSet(w.loose) \cup {w.page}
  BY <1>5, <1>11, <1>12
<1>27. LosesNone(w, u)
  <2>1. Has(Image(u), u, x, -5) /\ -5 \in Spot
    BY <1>8, <1>11, <1>12 DEF Has
  <2>2. ASSUME NEW p \in Page, p # x, NEW i \in Spot, Has(Image(w), w, p, i)
        PROVE  Has(Image(u), u, p, i)
    <3>1. CASE i = -1 /\ p \in TreePages(Image(w), w.root)
      <4>1. p = w.root \/ \E j \in Key : p = Child(w, j) /\ p # Invalid
        BY <1>7, <3>1
      <4>2. p = u.root \/ \E j \in Key : p = Child(u, j) /\ p # Invalid
        BY <1>2, <1>13, <1>15, <2>2, <4>1
      <4> QED
        BY <1>16, <3>1, <4>2 DEF Has
    <3>2. CASE ~(i = -1 /\ p \in TreePages(Image(w), w.root))
      BY <1>11, <1>12, <1>13, <1>19, <2>2, <3>2 DEF Has, Pool
    <3> QED
      BY <3>1, <3>2
  <2>3. \A p \in Page : \A i \in Spot :
           Has(Image(w), w, p, i) => \E j \in Spot : Has(Image(u), u, p, j)
    BY <2>1, <2>2
  <2> QED
    BY <1>13, <2>3, NoneLost
<1> QED
  BY <1>12, <1>13, <1>14, <1>18, <1>23, <1>25, <1>26, <1>27 DEF Loosened

(* A root without children is freed: the tree is empty as it was.          *)
LEMMA DropRootOnce ==
    ASSUME Shape, NEW l \in Txns, l.root \in DOMAIN l.buf, Once(Image(l), l),
           NEW u, u = DropRoot(l)
    PROVE  /\ u \in Txns /\ Same(l, u) /\ u.freeRoot = l.freeRoot /\ l.freed \subseteq u.freed
           /\ u.pghead = l.pghead /\ u.pglast = l.pglast /\ u.pgoldest = l.pgoldest
           /\ u.next = l.next /\ u.loose = l.loose /\ u.buf = l.buf
           /\ Once(Image(u), u) /\ Records(u) = Records(l)
           /\ Tree(Image(u), u.root) = Tree(Image(l), l.root) /\ LosesNone(l, u)
<1>1. CASE \E k \in Key : Child(l, k) # Invalid
  <2>1. u = l
    BY <1>1 DEF DropRoot
  <2> QED
    BY <2>1 DEF Same, LosesNone
<1>2. CASE \A k \in Key : Child(l, k) = Invalid
  <2> DEFINE y == l.root
  <2>1. u = [l EXCEPT !.root = Invalid, !.freed = l.freed \cup {y}]
    BY <1>2 DEF DropRoot
  <2>2. y \in Page /\ y # Invalid
    BY Bounds, ImageFacts
  <2>3. u \in Txns /\ u.root = Invalid /\ u.freed = l.freed \cup {y}
    <3> HIDE DEF y
    <3>1. l.freed \cup {y} \in SUBSET Page /\ Invalid \in Place
      BY <2>2 DEF Txns, Place
    <3> QED
      BY ZenonT(60), <2>1, <3>1 DEF Txns
  <2>4. /\ Same(l, u) /\ u.freeRoot = l.freeRoot
        /\ u.pghead = l.pghead /\ u.pglast = l.pglast /\ u.pgoldest = l.pgoldest
        /\ u.next = l.next /\ u.loose = l.loose /\ u.buf = l.buf /\ u.id = l.id
    BY <2>1 DEF Txns, Same
  <2>5. \A p \in Page : At(u, p) = At(l, p)
    BY <2>4 DEF At
  <2>6. Image(u) = Image(l)
    BY <2>5 DEF Image
  <2>7. Records(u) = Records(l)
    BY <2>4, <2>5 DEF Records, Txns, Place
  <2>8. /\ TreePages(Image(l), y) = {y} \cup ({Child(l, k) : k \in Key} \ {Invalid})
        /\ \A k \in Key : Tree(Image(l), l.root)[k] =
                             IF Child(l, k) = Invalid THEN Absent ELSE At(l, Child(l, k)).val
    BY <2>2, ChildFacts
  <2>9. TreePages(Image(l), l.root) = {y} /\ TreePages(Image(u), u.root) = {}
    BY <1>2, <2>3, <2>8 DEF TreePages
  <2>10. Tree(Image(u), u.root) = Tree(Image(l), l.root)
    BY <1>2, <2>3, <2>8 DEF Tree
  <2>11. {-1, -2, -3, -4, -5} \subseteq Spot /\ Pool(Image(l), l) \cap {-1, -2, -3, -4, -5} = {}
    BY PoolType
  <2>12. Has(Image(l), l, y, -1)
    BY <2>9 DEF Has
  <2>13. ASSUME NEW p \in Page, NEW i \in Spot, Has(Image(u), u, p, i)
         PROVE  (Has(Image(l), l, p, i) /\ p # y) \/ (p = y /\ i = -4)
    <3>1. CASE i = -4 /\ p \in u.freed
      <4>1. p # y => Has(Image(l), l, p, i)
        BY <2>3, <3>1 DEF Has
      <4> QED
        BY <3>1, <4>1
    <3>2. CASE \/ i = -2 /\ p = u.freeRoot
               \/ i = -3 /\ p \in u.pghead
               \/ i = -5 /\ p \in ToSet(u.loose)
               \/ i \in Pool(Image(u), u) /\ p \in RecordsIn(Image(u), u.freeRoot)[i]
      <4>1. Has(Image(l), l, p, i) /\ i # -1
        BY <2>4, <2>6, <2>11, <3>2 DEF Has, Pool
      <4> QED
        BY <2>11, <2>12, <4>1 DEF Once
    <3> QED
      BY <2>9, <2>13, <3>1, <3>2 DEF Has
  <2>14. Branching(Image(u), u.root)
    BY <2>3 DEF Branching
  <2>15. Once(Image(u), u)
    <3>1. \A p \in Page : \A i \in Spot : Has(Image(u), u, p, i) =>
             (Has(Image(l), l, p, i) /\ p # y) \/ (p = y /\ i = -4)
      BY <2>13
    <3>2. \A i, j \in DOMAIN u.loose : u.loose[i] = u.loose[j] => i = j
      BY <2>4 DEF Once
    <3>3. y \in Page /\ -1 \in Spot /\ u.next = l.next
      BY <2>2, <2>4, <2>11
    <3> HIDE DEF y
    <3> QED
      BY <2>12, <2>14, <3>1, <3>2, <3>3, Relocated
  <2>16. LosesNone(l, u)
    <3>1. -4 \in Spot /\ Has(Image(u), u, y, -4)
      BY <2>3, <2>11 DEF Has
    <3>2. ASSUME NEW p \in Page, p # y, NEW i \in Spot, Has(Image(l), l, p, i)
          PROVE  Has(Image(u), u, p, i)
      BY <2>3, <2>4, <2>6, <2>9, <3>2 DEF Has, Pool
    <3>3. \A p \in Page : \A i \in Spot :
             Has(Image(l), l, p, i) => \E j \in Spot : Has(Image(u), u, p, j)
      BY <3>1, <3>2
    <3> QED
      BY <2>4, <3>3, NoneLost
  <2> QED
    BY <2>3, <2>4, <2>7, <2>10, <2>15, <2>16
<1> QED
  BY <1>1, <1>2

(* mdb_del leaves the transaction without the key, and no page in two      *)
(* places.                                                                 *)
LEMMA DelOnce ==
    ASSUME Shape, NEW t, Begun(t), Once(Image(t), t), NEW k \in Key, Child(t, k) # Invalid,
           NEW t1, t1 = OwnRoot(t), t1.page # Invalid,
           NEW t2, t2 = Touch(t1, Child(t1, k)), t2.page # Invalid,
           NEW u, u = DropRoot(Loosen(t2, k))
    PROVE  /\ Begun(u) /\ Same(t, u) /\ u.freeRoot = t.freeRoot
           /\ t.freed \subseteq u.freed /\ \A q \in DOMAIN t.buf : q \in DOMAIN u.buf
           /\ \/ u.pglast = t.pglast /\ (t.pghead = {} => u.pghead = {})
              \/ u.pglast \in DOMAIN Records(t) /\ t.pglast < u.pglast
           /\ Once(Image(u), u) /\ Records(u) = Records(t) /\ LosesNone(t, u)
           /\ Tree(Image(u), u.root) = [Tree(Image(t), t.root) EXCEPT ![k] = Absent]
           /\ DOMAIN u.buf # {}
<1> DEFINE w == SetChild(t2, k, t2.page)
           l == Loosen(t2, k)
<1>1. /\ Begun(t1) /\ Same(t, t1) /\ Further(t, t1)
      /\ t1.freeRoot = t.freeRoot /\ t.freed \subseteq t1.freed
      /\ \A q \in DOMAIN t.buf : q \in DOMAIN t1.buf
      /\ Once(Image(t1), t1) /\ Alike(t, t1) /\ LosesNone(t, t1)
      /\ t1.root \in DOMAIN t1.buf /\ t1.root \in Page
  BY RootOnce
<1>2. Child(t1, k) = Child(t, k) /\ Child(t1, k) # Invalid /\ t2 = Own(t1, Child(t1, k))
  BY <1>1 DEF Alike, Own
<1>3. /\ Begun(w) /\ Same(t1, w) /\ Further(t1, w) /\ w.root = t1.root
      /\ w.freeRoot = t1.freeRoot /\ t1.freed \subseteq w.freed /\ w.page = t2.page
      /\ \A q \in DOMAIN t1.buf : q \in DOMAIN w.buf
      /\ Once(Image(w), w) /\ Records(w) = Records(t1) /\ LosesNone(t1, w)
      /\ Tree(Image(w), w.root) = Tree(Image(t1), t1.root)
      /\ w.page \in DOMAIN w.buf /\ w.page # w.root /\ w.root \in DOMAIN w.buf
  BY <1>1, <1>2, ChildOnce
<1>4. t1 \in Txns /\ Child(t1, k) \in Place
  BY <1>1, Bounds, ChildFacts DEF Begun
<1>5. /\ t2 \in Txns /\ t2.root = t1.root /\ t2.page \in Page
      /\ \A q \in DOMAIN t1.buf : q \in DOMAIN t2.buf
  BY <1>1, <1>2, <1>4, OwnFacts, OwnedKeeps DEF Begun
<1>6. /\ l \in Txns /\ Same(w, l) /\ l.root = w.root /\ l.freeRoot = w.freeRoot /\ l.freed = w.freed
      /\ l.pghead = w.pghead /\ l.pglast = w.pglast /\ l.pgoldest = w.pgoldest
      /\ l.next = w.next /\ l.loose = <<w.page>> \o w.loose /\ DOMAIN l.buf = DOMAIN w.buf
      /\ Once(Image(l), l) /\ Records(l) = Records(w) /\ LosesNone(w, l)
      /\ Tree(Image(l), l.root) = [Tree(Image(w), w.root) EXCEPT ![k] = Absent]
      /\ l.root \in DOMAIN l.buf
  <2>1. t2.root \in DOMAIN t2.buf /\ w = SetChild(t2, k, t2.page) /\ l = Loosen(t2, k)
    BY <1>1, <1>5
  <2>2. Once(Image(w), w) /\ w.page # w.root
    BY <1>3
  <2> HIDE DEF w, l
  <2>3. Loosened(w, l, k)
    BY <1>5, <2>1, <2>2, LoosenOnce
  <2> QED
    BY <2>3 DEF Loosened
<1> HIDE DEF w, l
<1>7. /\ u \in Txns /\ Same(l, u) /\ u.freeRoot = l.freeRoot /\ l.freed \subseteq u.freed
      /\ u.pghead = l.pghead /\ u.pglast = l.pglast /\ u.pgoldest = l.pgoldest
      /\ u.next = l.next /\ u.loose = l.loose /\ u.buf = l.buf
      /\ Once(Image(u), u) /\ Records(u) = Records(l) /\ LosesNone(l, u)
      /\ Tree(Image(u), u.root) = Tree(Image(l), l.root)
  BY <1>6, DropRootOnce DEF l
<1>8. Begun(u) /\ Same(t, u)
  BY <1>1, <1>3, <1>6, <1>7 DEF Begun, Same
<1>9. /\ Records(t1) = Records(t)
      /\ t.pglast \in Nat /\ t1.pglast \in Nat /\ w.pglast \in Nat
  BY <1>1, <1>3, BegunFacts DEF Alike
<1>10. \/ u.pglast = t.pglast /\ (t.pghead = {} => u.pghead = {})
       \/ u.pglast \in DOMAIN Records(t) /\ t.pglast < u.pglast
  BY <1>1, <1>3, <1>6, <1>7, <1>9 DEF Further
<1>11. LosesNone(t, u)
  BY <1>1, <1>3, <1>6, <1>7 DEF LosesNone
<1> QED
  BY <1>1, <1>3, <1>6, <1>7, <1>8, <1>10, <1>11 DEF Alike

-----------------------------------------------------------------------------
(* What mdb_freelist_save does to the places.                              *)

(* A transaction with no page in two places, and nothing in a new place,   *)
(* has none.                                                               *)
LEMMA FewerOnce ==
    ASSUME NEW v, NEW u, Once(Image(v), v), u.next = v.next,
           \A p \in Page : \A i \in Spot : Has(Image(u), u, p, i) => Has(Image(v), v, p, i),
           Branching(Image(u), u.root), \A i, j \in DOMAIN u.loose : u.loose[i] = u.loose[j] => i = j
    PROVE  Once(Image(u), u)
<1>1. \A p \in Page : \A i, j \in Spot : Has(Image(v), v, p, i) /\ Has(Image(v), v, p, j) => i = j
  BY DEF Once
<1>2. ASSUME NEW p \in Page, NEW i \in Spot, NEW j \in Spot,
             Has(Image(u), u, p, i), Has(Image(u), u, p, j)
      PROVE  i = j
  BY <1>1, <1>2
<1>3. \A p \in Page : \A i \in Spot : Has(Image(u), u, p, i) => p < u.next
  BY DEF Once
<1> QED
  BY <1>2, <1>3 DEF Once

(* The two roots, and a loose page and either tree, are apart.             *)
LEMMA RootsApart ==
    ASSUME Shape, NEW t \in Txns, Once(Image(t), t)
    PROVE  /\ t.freeRoot # Invalid => t.freeRoot \notin TreePages(Image(t), t.root)
           /\ t.freeRoot \notin ToSet(t.loose)
           /\ \A p \in TreePages(Image(t), t.root) : p \notin ToSet(t.loose)
           /\ ToSet(t.loose) \subseteq Page
<1>1. {-1, -2, -3, -4, -5} \subseteq Spot
  BY PoolType
<1>2. ToSet(t.loose) \subseteq Page /\ Invalid \notin Page
  BY SMTT(40), Bounds DEF ToSet, Txns
<1>3. t.root \in Place /\ t.freeRoot \in Place
  BY DEF Txns
<1>4. TreePages(Image(t), t.root) \subseteq Page
  BY <1>3, ImageFacts, TreeType
<1>5. \A p \in Page : /\ p \in TreePages(Image(t), t.root) => Has(Image(t), t, p, -1)
                      /\ p = t.freeRoot => Has(Image(t), t, p, -2)
                      /\ p \in ToSet(t.loose) => Has(Image(t), t, p, -5)
  BY DEF Has
<1>6. \A p \in Page : \A i, j \in Spot : Has(Image(t), t, p, i) /\ Has(Image(t), t, p, j) => i = j
  BY DEF Once
<1> QED
  BY <1>1, <1>2, <1>3, <1>4, <1>5, <1>6 DEF Place

(* Loose pages dropped from the dirty list.                                *)
Shed(t) ==
    [t EXCEPT !.loose = <<>>, !.buf = [p \in DOMAIN t.buf \ ToSet(t.loose) |-> t.buf[p]]]

(* Loose pages dropped from the dirty list leave the trees as they are.    *)
LEMMA ShedFacts ==
    ASSUME Shape, NEW t \in Txns, Once(Image(t), t), NEW u, u = Shed(t)
    PROVE  /\ u \in Txns /\ u = [t EXCEPT !.buf = u.buf, !.loose = <<>>]
           /\ DOMAIN u.buf = DOMAIN t.buf \ ToSet(t.loose)
           /\ \A p \in Page : p \notin ToSet(t.loose) => At(u, p) = At(t, p)
           /\ Records(u) = Records(t)
           /\ TreePages(Image(u), u.root) = TreePages(Image(t), t.root)
           /\ Tree(Image(u), u.root) = Tree(Image(t), t.root)
           /\ Branching(Image(u), u.root)
<1> DEFINE b == [p \in DOMAIN t.buf \ ToSet(t.loose) |-> t.buf[p]]
<1>1. b \in Bufs
  <2>1. PICK S \in SUBSET Page : t.buf \in [S -> Contents]
    BY DEF Txns, Bufs
  <2>2. b \in [S \ ToSet(t.loose) -> Contents]
    BY <2>1
  <2> QED
    BY <2>2 DEF Bufs
<1>2. u = [t EXCEPT !.loose = <<>>, !.buf = b]
  BY DEF Shed
<1>3. DOMAIN b = DOMAIN t.buf \ ToSet(t.loose) /\ \A p \in DOMAIN b : b[p] = t.buf[p]
  OBVIOUS
<1>4. <<>> \in Seq(Page)
  OBVIOUS
<1> HIDE DEF b
<1>5. /\ u \in Txns /\ u.buf = b /\ u = [t EXCEPT !.buf = u.buf, !.loose = <<>>]
      /\ u.root = t.root /\ u.freeRoot = t.freeRoot
  BY ZenonT(60), <1>1, <1>2, <1>4 DEF Txns
<1>6. \A p \in Page : p \notin ToSet(t.loose) => At(u, p) = At(t, p)
  BY <1>3, <1>5 DEF At
<1>7. /\ t.freeRoot \notin ToSet(t.loose)
      /\ \A p \in TreePages(Image(t), t.root) : p \notin ToSet(t.loose)
  BY RootsApart
<1>8. Records(u) = Records(t)
  BY SMTT(40), <1>5, <1>6, <1>7 DEF Records, Txns, Place
<1>9. t.root \in Place /\ Image(t) \in [Page -> Contents] /\ Image(u) \in [Page -> Contents]
  BY <1>5, ImageFacts DEF Txns
<1>10. TreePages(Image(t), t.root) \subseteq Page
  BY <1>9, TreeType
<1>11. \A p \in TreePages(Image(t), t.root) : Image(u)[p] = Image(t)[p]
  BY <1>6, <1>7, <1>10 DEF Image
<1>12. Branching(Image(t), t.root)
  BY DEF Once
<1> QED
  BY <1>3, <1>5, <1>6, <1>8, <1>9, <1>11, <1>12, Unaffected

(* The loose pages among those freed.                                      *)
LEMMA FreeLooseOnce ==
    ASSUME Shape, NEW t \in Txns, Once(Image(t), t), NEW u, u = FreeLoose(t)
    PROVE  /\ u \in Txns /\ Same(t, u) /\ u.root = t.root /\ u.freeRoot = t.freeRoot
           /\ u.pghead = t.pghead /\ u.pglast = t.pglast /\ u.pgoldest = t.pgoldest /\ u.next = t.next
           /\ t.freed \subseteq u.freed /\ Once(Image(u), u) /\ Records(u) = Records(t)
           /\ Tree(Image(u), u.root) = Tree(Image(t), t.root) /\ LosesNone(t, u)
           /\ IF t.pglast > 0 THEN u = t
              ELSE u.loose = <<>> /\ DOMAIN u.buf = DOMAIN t.buf \ ToSet(t.loose)
<1>1. CASE t.pglast > 0
  <2>1. u = t
    BY <1>1 DEF FreeLoose
  <2> QED
    BY <1>1, <2>1 DEF Same, LosesNone
<1>2. CASE ~(t.pglast > 0)
  <2> DEFINE v == Shed(t)
             L == ToSet(t.loose)
  <2>1. u = [v EXCEPT !.freed = t.freed \cup L]
    <3>1. u = [t EXCEPT !.freed = @ \cup L, !.loose = <<>>,
                        !.buf = [p \in DOMAIN t.buf \ L |-> t.buf[p]]]
      BY <1>2 DEF FreeLoose
    <3> QED
      BY <3>1 DEF Shed, Txns
  <2>2. /\ v \in Txns /\ v = [t EXCEPT !.buf = v.buf, !.loose = <<>>]
        /\ DOMAIN v.buf = DOMAIN t.buf \ L
        /\ Records(v) = Records(t)
        /\ TreePages(Image(v), v.root) = TreePages(Image(t), t.root)
        /\ Tree(Image(v), v.root) = Tree(Image(t), t.root)
        /\ Branching(Image(v), v.root)
    BY ZenonT(60), ShedFacts
  <2>3. L \subseteq Page
    BY RootsApart
  <2> HIDE DEF v, L
  <2>4. /\ u \in Txns /\ u.freed = t.freed \cup L /\ u.buf = v.buf /\ u.loose = <<>>
        /\ u.root = t.root /\ u.freeRoot = t.freeRoot
        /\ u.pghead = t.pghead /\ u.pglast = t.pglast /\ u.pgoldest = t.pgoldest
        /\ u.next = t.next /\ u.id = t.id
    <3>1. /\ v.root = t.root /\ v.freeRoot = t.freeRoot /\ v.loose = <<>>
          /\ v.pghead = t.pghead /\ v.pglast = t.pglast /\ v.pgoldest = t.pgoldest
          /\ v.next = t.next /\ v.id = t.id
      BY ZenonT(60), <2>2 DEF Txns
    <3>2. t.freed \cup L \in SUBSET Page
      BY <2>3 DEF Txns
    <3> QED
      BY ZenonT(60), <2>1, <2>2, <3>1, <3>2 DEF Txns
  <2>5. Same(t, u)
    <3>1. Same(t, v)
      BY ZenonT(60), <2>2 DEF Txns, Same
    <3>2. Same(v, u)
      BY SMTT(40), <2>1, <2>2, <2>4 DEF Txns, Same
    <3> QED
      BY ZenonT(60), <3>1, <3>2 DEF Same
  <2>6. \A p : At(u, p) = At(v, p)
    BY <2>4 DEF At
  <2>7. Image(u) = Image(v) /\ v.root = t.root /\ v.freeRoot = t.freeRoot
    <3>1. Image(u) = Image(v)
      BY ZenonT(60), <2>6 DEF Image
    <3> QED
      BY ZenonT(60), <2>2, <3>1 DEF Txns
  <2>8. Records(u) = Records(t)
    BY <2>2, <2>4, <2>6, <2>7 DEF Records
  <2>9. RecordsIn(Image(u), u.freeRoot) = RecordsIn(Image(t), t.freeRoot)
    BY <2>4, <2>8, ImageFacts
  <2>10. {-1, -2, -3, -4, -5} \subseteq Spot /\ Pool(Image(t), t) \cap {-1, -2, -3, -4, -5} = {}
    BY PoolType
  <2>11. TreePages(Image(u), u.root) = TreePages(Image(t), t.root)
    BY <2>2, <2>4, <2>7
  <2>12. ToSet(u.loose) = {}
    BY <2>4 DEF ToSet
  <2>13. ASSUME NEW p \in Page, NEW i \in Spot, Has(Image(u), u, p, i)
         PROVE  Has(Image(t), t, p, i) \/ (i = -4 /\ Has(Image(t), t, p, -5))
    BY <2>4, <2>9, <2>11, <2>12, <2>13 DEF Has, Pool, L
  <2>14. ASSUME NEW p \in Page, NEW i \in Spot, Has(Image(u), u, p, i)
         PROVE  i # -5
    BY <2>4, <2>10, <2>12, <2>14, PoolType DEF Has
  <2>15. ASSUME NEW p \in Page, NEW i \in Spot, NEW j \in Spot,
                Has(Image(u), u, p, i), Has(Image(u), u, p, j)
         PROVE  i = j
    <3>1. Has(Image(t), t, p, i) \/ (i = -4 /\ Has(Image(t), t, p, -5))
      BY <2>13, <2>15
    <3>2. Has(Image(t), t, p, j) \/ (j = -4 /\ Has(Image(t), t, p, -5))
      BY <2>13, <2>15
    <3>3. i # -5 /\ j # -5
      BY <2>14, <2>15
    <3>4. \A a, c \in Spot : Has(Image(t), t, p, a) /\ Has(Image(t), t, p, c) => a = c
      BY DEF Once
    <3> QED
      BY <2>10, <3>1, <3>2, <3>3, <3>4
  <2>16. \A p \in Page : \A i \in Spot : Has(Image(u), u, p, i) => p < u.next
    BY <2>4, <2>10, <2>13 DEF Once
  <2>17. Branching(Image(u), u.root)
    BY <2>2, <2>4, <2>7
  <2>18. \A i, j \in DOMAIN u.loose : u.loose[i] = u.loose[j] => i = j
    BY <2>4, EmptyMaps
  <2>19. Once(Image(u), u)
    BY <2>15, <2>16, <2>17, <2>18 DEF Once
  <2>20. LosesNone(t, u)
    <3>1. ASSUME NEW p \in Page, NEW i \in Spot, Has(Image(t), t, p, i)
          PROVE  Has(Image(u), u, p, i) \/ Has(Image(u), u, p, -4)
      BY <2>4, <2>9, <2>11, <3>1 DEF Has, Pool, L
    <3>2. \A p \in Page : \A i \in Spot :
             Has(Image(t), t, p, i) => \E j \in Spot : Has(Image(u), u, p, j)
      BY <2>10, <3>1
    <3> QED
      BY <2>4, <3>2, NoneLost
  <2> QED
    BY <1>2, <2>2, <2>4, <2>5, <2>7, <2>8, <2>19, <2>20 DEF L
<1> QED
  BY <1>1, <1>2

(* The leaf of the freeDB rewritten with the records R.                    *)
Rewrite(t, R) == SetPage(t, t.freeRoot, [Blank EXCEPT !.recs = R])

(* New records in the transaction's own leaf of the freeDB change nothing  *)
(* else.                                                                   *)
LEMMA RewriteFacts ==
    ASSUME Shape, NEW t \in Txns, Once(Image(t), t), t.freeRoot \in DOMAIN t.buf, NEW R \in Recs,
           NEW u, u = Rewrite(t, R)
    PROVE  /\ u \in Txns /\ u = [t EXCEPT !.buf = u.buf] /\ DOMAIN u.buf = DOMAIN t.buf
           /\ Records(u) = R
           /\ \A p \in Page : p # t.freeRoot => At(u, p) = At(t, p)
           /\ TreePages(Image(u), u.root) = TreePages(Image(t), t.root)
           /\ Tree(Image(u), u.root) = Tree(Image(t), t.root)
           /\ Branching(Image(u), u.root)
<1> DEFINE c == [Blank EXCEPT !.recs = R]
<1>1. t.freeRoot \in Page /\ t.freeRoot # Invalid
  BY Bounds, ImageFacts
<1>2. c \in Contents /\ c.recs = R
  BY BlankType DEF Blank, Contents
<1>3. u = SetPage(t, t.freeRoot, c)
  BY DEF Rewrite
<1> HIDE DEF c
<1>4. /\ u \in Txns /\ u = [t EXCEPT !.buf = u.buf]
      /\ DOMAIN u.buf = DOMAIN t.buf \cup {t.freeRoot} /\ u.buf[t.freeRoot] = c
      /\ \A q \in DOMAIN t.buf : q # t.freeRoot => u.buf[q] = t.buf[q]
  BY <1>1, <1>2, <1>3, SetPageType
<1>5. DOMAIN u.buf = DOMAIN t.buf /\ u.freeRoot = t.freeRoot /\ u.root = t.root
  BY SMTT(40), <1>4 DEF Txns
<1>6. \A p \in Page : p # t.freeRoot => At(u, p) = At(t, p)
  BY <1>4, <1>5 DEF At
<1>7. Records(u) = R
  BY <1>1, <1>2, <1>4, <1>5 DEF Records, At
<1>8. t.freeRoot \notin TreePages(Image(t), t.root)
  BY <1>1, RootsApart
<1>9. t.root \in Place /\ Image(t) \in [Page -> Contents] /\ Image(u) \in [Page -> Contents]
  BY <1>4, ImageFacts DEF Txns
<1>10. TreePages(Image(t), t.root) \subseteq Page
  BY <1>9, TreeType
<1>11. \A p \in TreePages(Image(t), t.root) : Image(u)[p] = Image(t)[p]
  BY <1>6, <1>8, <1>10 DEF Image
<1>12. Branching(Image(t), t.root)
  BY DEF Once
<1> QED
  BY <1>4, <1>5, <1>6, <1>7, <1>9, <1>11, <1>12, Unaffected

(* Records that go, or are of no use to the transaction, leave no page in  *)
(* two places.                                                             *)
LEMMA RewriteOnce ==
    ASSUME Shape, NEW t \in Txns, Once(Image(t), t), t.freeRoot \in DOMAIN t.buf, NEW R \in Recs,
           NEW u, u = Rewrite(t, R),
           \A i \in DOMAIN R : t.pglast < i /\ i # t.id => i \in DOMAIN Records(t) /\ R[i] = Records(t)[i]
    PROVE  Once(Image(u), u)
<1>1. /\ u \in Txns /\ u = [t EXCEPT !.buf = u.buf]
      /\ Records(u) = R
      /\ TreePages(Image(u), u.root) = TreePages(Image(t), t.root)
      /\ Branching(Image(u), u.root)
  BY RewriteFacts
<1>2. /\ u.root = t.root /\ u.freeRoot = t.freeRoot /\ u.pghead = t.pghead /\ u.freed = t.freed
      /\ u.loose = t.loose /\ u.pglast = t.pglast /\ u.id = t.id /\ u.next = t.next
  BY SMTT(40), <1>1 DEF Txns
<1>3. RecordsIn(Image(u), u.freeRoot) = R /\ RecordsIn(Image(t), t.freeRoot) = Records(t)
  BY <1>1, ImageFacts
<1>4. \A i \in Pool(Image(u), u) : i \in Pool(Image(t), t) /\ R[i] = Records(t)[i]
  BY <1>2, <1>3 DEF Pool
<1>5. ASSUME NEW p \in Page, NEW i \in Spot, Has(Image(u), u, p, i) PROVE Has(Image(t), t, p, i)
  BY <1>1, <1>2, <1>3, <1>4, <1>5 DEF Has
<1>6. \A i, j \in DOMAIN u.loose : u.loose[i] = u.loose[j] => i = j
  BY <1>2 DEF Once
<1>7. \A p \in Page : \A i \in Spot : Has(Image(u), u, p, i) => Has(Image(t), t, p, i)
  BY <1>5
<1> QED
  BY <1>1, <1>2, <1>6, <1>7, FewerOnce

(* And none is lost with the records the transaction may read kept.        *)
LEMMA RewriteAll ==
    ASSUME Shape, NEW t \in Txns, Once(Image(t), t), t.freeRoot \in DOMAIN t.buf, NEW R \in Recs,
           NEW u, u = Rewrite(t, R),
           \A i \in DOMAIN Records(t) :
              t.pglast < i /\ i # t.id => i \in DOMAIN R /\ R[i] = Records(t)[i]
    PROVE  LosesNone(t, u)
<1>1. /\ u \in Txns /\ u = [t EXCEPT !.buf = u.buf]
      /\ Records(u) = R
      /\ TreePages(Image(u), u.root) = TreePages(Image(t), t.root)
  BY RewriteFacts
<1>2. /\ u.root = t.root /\ u.freeRoot = t.freeRoot /\ u.pghead = t.pghead /\ u.freed = t.freed
      /\ u.loose = t.loose /\ u.pglast = t.pglast /\ u.id = t.id /\ u.next = t.next
  BY SMTT(40), <1>1 DEF Txns
<1>3. RecordsIn(Image(u), u.freeRoot) = R /\ RecordsIn(Image(t), t.freeRoot) = Records(t)
  BY <1>1, ImageFacts
<1>4. \A i \in Pool(Image(t), t) : i \in Pool(Image(u), u) /\ R[i] = Records(t)[i]
  BY <1>2, <1>3 DEF Pool
<1>5. ASSUME NEW p \in Page, NEW i \in Spot, Has(Image(t), t, p, i) PROVE Has(Image(u), u, p, i)
  BY <1>1, <1>2, <1>3, <1>4, <1>5 DEF Has
<1> QED
  BY <1>2, <1>5, NoneLost

(* What a rewritten leaf leaves of the transaction, whatever is noted of   *)
(* the save besides.                                                       *)
Noted(t, u) ==
    /\ u.id = t.id /\ u.noMetaSync = t.noMetaSync /\ u.error = t.error
    /\ u.root = t.root /\ u.freeRoot = t.freeRoot /\ u.next = t.next /\ u.buf = t.buf
    /\ u.freed = t.freed /\ u.loose = t.loose /\ u.pghead = t.pghead
    /\ u.pglast = t.pglast /\ u.pgoldest = t.pgoldest

(* Counters of mdb_freelist_save that change leave the pages alone.        *)
LEMMA NotedSame ==
    ASSUME Shape, NEW t \in Txns, NEW u \in Txns, Noted(t, u)
    PROVE  /\ Image(u) = Image(t) /\ Records(u) = Records(t)
           /\ Once(Image(t), t) => Once(Image(u), u)
           /\ LosesNone(t, u)
<1>1. \A p : At(u, p) = At(t, p)
  BY DEF Noted, At
<1>2. Image(u) = Image(t)
  BY <1>1 DEF Image
<1>3. Records(u) = Records(t)
  BY <1>1 DEF Noted, Records
<1>4. \A p, i : Has(Image(u), u, p, i) <=> Has(Image(t), t, p, i)
  BY <1>2 DEF Noted, Has, Pool
<1>5. Once(Image(t), t) => Once(Image(u), u)
  BY <1>2, <1>4 DEF Noted, Once
<1>6. LosesNone(t, u)
  BY <1>4, NoneLost DEF Noted
<1> QED
  BY <1>2, <1>3, <1>5, <1>6

(* One record put into the leaf.                                           *)
With(R, id, pages) == [i \in DOMAIN R \cup {id} |-> IF i = id THEN pages ELSE R[i]]

(* A record put is a rewrite of the leaf.                                  *)
LEMMA RecordFacts ==
    ASSUME Shape, NEW t \in Txns, NEW id \in Ids, NEW pages \in SUBSET Page
    PROVE  /\ Record(t, id, pages) = Rewrite(t, With(Records(t), id, pages))
           /\ With(Records(t), id, pages) \in Recs
<1> DEFINE R == Records(t)
<1>1. PICK S \in SUBSET Ids : R \in [S -> SUBSET Page]
  BY RecordsType DEF Recs
<1>2. With(R, id, pages) \in [S \cup {id} -> SUBSET Page]
  BY <1>1 DEF With
<1>3. With(R, id, pages) \in Recs
  BY <1>2 DEF Recs
<1> QED
  BY <1>3 DEF Record, Rewrite, With

(* One record taken out.                                                   *)
LessOne(R, id) == [i \in DOMAIN R \ {id} |-> R[i]]

(* And so is one deleted.                                                  *)
LEMMA RemoveFacts ==
    ASSUME Shape, NEW t \in Txns, NEW id \in Ids
    PROVE  /\ RemoveRecord(t, id) = [Rewrite(t, LessOne(Records(t), id))
                                        EXCEPT !.dropped = id, !.headId = id, !.room = 0]
           /\ LessOne(Records(t), id) \in Recs
<1> DEFINE R == Records(t)
<1>1. PICK S \in SUBSET Ids : R \in [S -> SUBSET Page]
  BY RecordsType DEF Recs
<1>2. LessOne(R, id) \in [S \ {id} -> SUBSET Page]
  BY <1>1 DEF LessOne
<1>3. LessOne(R, id) \in Recs
  BY <1>2 DEF Recs
<1> QED
  BY <1>3 DEF RemoveRecord, Rewrite, LessOne

(* A leaf without records is freed.                                        *)
LEMMA DropFreeOnce ==
    ASSUME Shape, NEW t \in Txns, Once(Image(t), t), t.freeRoot \in DOMAIN t.buf,
           NEW u, u = DropFree(t)
    PROVE  /\ u \in Txns /\ Same(t, u) /\ u.root = t.root
           /\ u.pghead = t.pghead /\ u.pglast = t.pglast /\ u.pgoldest = t.pgoldest
           /\ u.next = t.next /\ u.loose = t.loose /\ u.buf = t.buf
           /\ Once(Image(u), u) /\ DOMAIN Records(u) = DOMAIN Records(t)
           /\ \A i \in DOMAIN Records(t) : Records(u)[i] = Records(t)[i]
           /\ Tree(Image(u), u.root) = Tree(Image(t), t.root) /\ LosesNone(t, u)
           /\ IF DOMAIN Records(t) = {} THEN u.freeRoot = Invalid /\ u.freed = t.freed \cup {t.freeRoot}
              ELSE u = t
<1>1. CASE DOMAIN Records(t) # {}
  <2>1. u = t
    BY <1>1 DEF DropFree
  <2> QED
    BY <1>1, <2>1 DEF Same, LosesNone
<1>2. CASE DOMAIN Records(t) = {}
  <2> DEFINE y == t.freeRoot
  <2>1. u = [t EXCEPT !.freeRoot = Invalid, !.freed = t.freed \cup {y}]
    BY <1>2 DEF DropFree
  <2>2. y \in Page /\ y # Invalid
    BY Bounds, ImageFacts
  <2> HIDE DEF y
  <2>3. u \in Txns /\ u.freeRoot = Invalid /\ u.freed = t.freed \cup {y}
    <3>1. t.freed \cup {y} \in SUBSET Page /\ Invalid \in Place
      BY <2>2 DEF Txns, Place
    <3> QED
      BY ZenonT(60), <2>1, <3>1 DEF Txns
  <2>4. /\ Same(t, u) /\ u.root = t.root
        /\ u.pghead = t.pghead /\ u.pglast = t.pglast /\ u.pgoldest = t.pgoldest
        /\ u.next = t.next /\ u.loose = t.loose /\ u.buf = t.buf /\ u.id = t.id
    BY <2>1 DEF Txns, Same
  <2>5. \A p : At(u, p) = At(t, p)
    BY <2>4 DEF At
  <2>6. Image(u) = Image(t)
    BY <2>5 DEF Image
  <2>7. Records(u) = <<>> /\ RecordsIn(Image(u), u.freeRoot) = <<>>
    BY <2>3 DEF Records, RecordsIn
  <2>8. Pool(Image(u), u) = {}
    BY <2>7, EmptyMaps DEF Pool
  <2>9. {-1, -2, -3, -4, -5} \subseteq Spot /\ Pool(Image(t), t) \cap {-1, -2, -3, -4, -5} = {}
    BY PoolType
  <2>10. Has(Image(t), t, y, -2)
    BY DEF Has, y
  <2>11. ASSUME NEW p \in Page, NEW i \in Spot, Has(Image(u), u, p, i)
         PROVE  (Has(Image(t), t, p, i) /\ p # y) \/ (p = y /\ i = -4)
    <3>1. p # Invalid
      BY Bounds
    <3>2. CASE i = -4 /\ p \in u.freed
      <4>1. p # y => Has(Image(t), t, p, i)
        BY <2>3, <3>2 DEF Has
      <4> QED
        BY <3>2, <4>1
    <3>3. CASE \/ i = -1 /\ p \in TreePages(Image(u), u.root)
               \/ i = -3 /\ p \in u.pghead
               \/ i = -5 /\ p \in ToSet(u.loose)
      <4>1. Has(Image(t), t, p, i) /\ i # -2
        BY <2>4, <2>6, <3>3 DEF Has
      <4> QED
        BY <2>9, <2>10, <4>1 DEF Once
    <3> QED
      BY <2>3, <2>8, <2>11, <3>1, <3>2, <3>3 DEF Has
  <2>12. Branching(Image(u), u.root)
    BY <2>4, <2>6 DEF Once
  <2>13. Once(Image(u), u)
    <3>1. \A p \in Page : \A i \in Spot : Has(Image(u), u, p, i) =>
             (Has(Image(t), t, p, i) /\ p # y) \/ (p = y /\ i = -4)
      BY <2>11
    <3>2. \A i, j \in DOMAIN u.loose : u.loose[i] = u.loose[j] => i = j
      BY <2>4 DEF Once
    <3>3. -2 \in Spot /\ y \in Page /\ u.next = t.next
      BY <2>2, <2>4, <2>9
    <3> QED
      BY <2>10, <2>12, <3>1, <3>2, <3>3, Relocated
  <2>14. LosesNone(t, u)
    <3>1. -4 \in Spot /\ Has(Image(u), u, y, -4)
      BY <2>3, <2>9 DEF Has
    <3>2. RecordsIn(Image(t), t.freeRoot) = Records(t)
      BY ImageFacts
    <3>3. Pool(Image(t), t) = {}
      BY <1>2, <3>2 DEF Pool
    <3>4. ASSUME NEW p \in Page, p # y, NEW i \in Spot, Has(Image(t), t, p, i)
          PROVE  Has(Image(u), u, p, i)
      BY <2>3, <2>4, <2>6, <3>3, <3>4 DEF Has, y
    <3>5. \A p \in Page : \A i \in Spot :
             Has(Image(t), t, p, i) => \E j \in Spot : Has(Image(u), u, p, j)
      BY <3>1, <3>4
    <3> QED
      BY <2>4, <3>5, NoneLost
  <2> QED
    BY <1>2, <2>3, <2>4, <2>6, <2>7, <2>13, <2>14, EmptyMaps DEF y
<1> QED
  BY <1>1, <1>2

-----------------------------------------------------------------------------
(* Pages a transaction does not come by.                                   *)

(* It has none of the pages of P, and no free page is one of them; nothing *)
(* it has looked up or may look up lets it read a record of s or later.    *)
Apart(t, P, s) ==
    /\ P \cap DOMAIN t.buf = {}
    /\ t.pgoldest <= s /\ Oldest(t) <= s
    /\ \A p \in P : p < t.next /\ p \notin t.pghead /\ p \notin ToSet(t.loose)

Unrecorded(t, P, s) ==
    \A i \in DOMAIN Records(t) :
       t.pglast < i /\ i # t.id /\ i < s => \A p \in P : p \notin Records(t)[i]

Held(t, P, s) == Apart(t, P, s) /\ Unrecorded(t, P, s)

(* Pages held are not dirty, and not there to be taken.                    *)
LEMMA HeldKeeps ==
    ASSUME Shape, NEW t \in Txns, NEW P, NEW s
    PROVE  Held(t, P, s) <=>
             /\ P \cap DOMAIN t.buf = {} /\ t.pgoldest <= s /\ Oldest(t) <= s
             /\ Keeps(Image(t), t, P, s)
<1>1. RecordsIn(Image(t), t.freeRoot) = Records(t)
  BY ImageFacts
<1> QED
  BY <1>1 DEF Held, Apart, Unrecorded, Keeps, Pool

(* The page taken is none of P, whatever it is taken from.                 *)
LEMMA DrawnApart ==
    ASSUME Shape, NEW t, Begun(t), NEW P \in SUBSET Page, NEW s \in Int, Held(t, P, s),
           NEW u, Drawn(t, u)
    PROVE  Apart(u, P, s) /\ u.page \notin P /\ t.pglast <= u.pglast
<1> PICK v \in Txns : /\ v = t \/ (t.loose = <<>> /\ t.pghead = {} /\ Refilled(t, v))
                      /\ Taken(v, u)
  BY DEF Drawn
<1>0. t \in Txns /\ Invalid \notin P
  BY Bounds DEF Begun
<1>1. Apart(v, P, s) /\ t.pglast <= v.pglast
  <2>1. CASE v = t
    BY <2>1, BegunFacts DEF Held
  <2>2. CASE Refilled(t, v)
    <3>1. /\ v.buf = t.buf /\ v.loose = t.loose /\ v.next = t.next /\ v.id = t.id
      BY <1>0, <2>2 DEF Refilled, Txns
    <3>2. v.pgoldest <= s /\ Oldest(v) <= s
      BY <2>2, <3>1 DEF Refilled, Held, Apart, Oldest
    <3>3. CASE v.pglast = t.pglast /\ v.pghead = t.pghead
      BY <3>1, <3>2, <3>3, BegunFacts DEF Held, Apart
    <3>4. CASE /\ v.pglast \in DOMAIN Records(t)
               /\ t.pglast < v.pglast /\ v.pglast < v.pgoldest
               /\ v.pghead = Records(t)[v.pglast]
      <4>1. v.pglast \in Nat /\ v.pgoldest \in Nat /\ v.pgoldest < t.id
        <5>1. v.pgoldest \in {t.pgoldest, Oldest(t)}
          BY <2>2 DEF Refilled
        <5>2. Oldest(t) \in 0 .. t.id - 1 /\ t.pgoldest \in Nat /\ t.pgoldest < t.id /\ t.id \in Nat
          BY OldestFacts, BegunFacts
        <5>3. v.pgoldest \in Nat /\ v.pgoldest < t.id
          BY <5>1, <5>2
        <5>4. v.pglast \in Nat
          BY Bounds DEF Txns
        <5> QED
          BY <5>3, <5>4
      <4>2. t.id \in Nat /\ t.pglast \in Nat
        BY BegunFacts
      <4>3. v.pglast < s /\ v.pglast # t.id /\ t.pglast <= v.pglast
        BY <3>2, <3>4, <4>1, <4>2
      <4>4. \A p \in P : p \notin v.pghead
        BY <3>4, <4>3 DEF Held, Unrecorded
      <4> QED
        BY <3>1, <3>2, <4>3, <4>4 DEF Held, Apart
    <3> QED
      BY <2>2, <3>3, <3>4 DEF Refilled
  <2> QED
    BY <2>1, <2>2
<1>2. u \in Txns /\ u.pgoldest = v.pgoldest /\ u.id = v.id /\ u.pglast = v.pglast
  BY DEF Taken, Txns
<1>3. Oldest(u) = Oldest(v)
  BY <1>2 DEF Oldest
<1>4. CASE u.page = Invalid
  <2>1. u.buf = v.buf /\ u.loose = v.loose /\ u.pghead = v.pghead /\ u.next = v.next
    BY <1>4, Bounds DEF Taken
  <2> QED
    BY <1>0, <1>1, <1>2, <1>3, <1>4, <2>1 DEF Apart
<1>5. CASE u.page # Invalid
  <2>1. DOMAIN u.buf = DOMAIN v.buf \cup {u.page} /\ TakenFrom(v, u)
    BY <1>5 DEF Taken, Dirtied
  <2>2. v.next \in Int /\ P \subseteq Int /\ v.loose \in Seq(Page)
    BY Bounds DEF Txns
  <2>3. /\ u.page \notin P
        /\ \A p \in P : p < u.next /\ p \notin u.pghead /\ p \notin ToSet(u.loose)
    <3>1. CASE v.loose # <<>> /\ u.page = Head(v.loose) /\ u.loose = Tail(v.loose)
               /\ u.pghead = v.pghead /\ u.next = v.next
      <4>1. Head(v.loose) \in ToSet(v.loose) /\ ToSet(Tail(v.loose)) \subseteq ToSet(v.loose)
        BY <2>2, <3>1, HeadAndTail
      <4> QED
        BY <1>1, <3>1, <4>1 DEF Apart
    <3>2. CASE u.page \in v.pghead /\ u.pghead = v.pghead \ {u.page}
               /\ u.loose = v.loose /\ u.next = v.next
      BY <1>1, <3>2 DEF Apart
    <3>3. CASE u.page = v.next /\ u.next = v.next + 1
               /\ u.loose = v.loose /\ u.pghead = v.pghead
      <4>1. \A p \in P : p < v.next
        BY <1>1 DEF Apart
      <4>2. v.next \notin P /\ \A p \in P : p < v.next + 1
        <5>1. \A p \in P : p \in Int /\ v.next \in Int /\ p < v.next
          BY <2>2, <4>1
        <5>2. \A p \in P : p # v.next /\ p < v.next + 1
          BY <5>1
        <5> QED
          BY <5>2
      <4> QED
        BY <1>1, <3>3, <4>2 DEF Apart
    <3> QED
      BY <2>1, <3>1, <3>2, <3>3 DEF TakenFrom
  <2> QED
    BY <1>1, <1>2, <1>3, <2>1, <2>3 DEF Apart
<1> QED
  BY <1>4, <1>5

(* Making a page the transaction's takes no page that is held.             *)
LEMMA OwnedApart ==
    ASSUME Shape, NEW t, Begun(t), NEW P \in SUBSET Page, NEW s \in Int, Held(t, P, s),
           NEW p \in Place, NEW u, Owned(t, p, u)
    PROVE  Apart(u, P, s) /\ u.page \notin P /\ t.pglast <= u.pglast
<1>0. t \in Txns /\ Invalid \notin P
  BY Bounds DEF Begun
<1>1. CASE p \in DOMAIN t.buf /\ u = [t EXCEPT !.page = p]
  <2>1. /\ u.buf = t.buf /\ u.loose = t.loose /\ u.pghead = t.pghead /\ u.next = t.next
        /\ u.pgoldest = t.pgoldest /\ u.id = t.id /\ u.pglast = t.pglast /\ u.page = p
    BY <1>0, <1>1 DEF Txns
  <2> QED
    BY <1>1, <2>1, BegunFacts DEF Held, Apart, Oldest
<1>2. ASSUME NEW v, Drawn(t, v),
             \/ u = v
             \/ /\ u = [v EXCEPT !.buf = u.buf, !.freed = @ \cup {p}]
                /\ DOMAIN u.buf = DOMAIN v.buf
      PROVE  Apart(u, P, s) /\ u.page \notin P /\ t.pglast <= u.pglast
  <2>1. Apart(v, P, s) /\ v.page \notin P /\ t.pglast <= v.pglast
    BY <1>2, DrawnApart
  <2>2. CASE u = v
    BY <2>1, <2>2
  <2>3. CASE u = [v EXCEPT !.buf = u.buf, !.freed = @ \cup {p}] /\ DOMAIN u.buf = DOMAIN v.buf
    <3>1. v \in Txns
      BY <1>2, DrawnKeeps DEF Begun
    <3>2. /\ u.loose = v.loose /\ u.pghead = v.pghead /\ u.next = v.next
          /\ u.pgoldest = v.pgoldest /\ u.id = v.id /\ u.pglast = v.pglast /\ u.page = v.page
      BY ZenonT(60), <2>3, <3>1 DEF Txns
    <3> QED
      BY <2>1, <2>3, <3>2 DEF Apart, Oldest
  <2> QED
    BY <1>2, <2>2, <2>3
<1> QED
  BY ZenonT(60), <1>1, <1>2 DEF Owned

(* What is apart stays unrecorded, if the records are the same.            *)
LEMMA StaysUnrecorded ==
    ASSUME Shape, NEW t, Begun(t), NEW P, NEW s, Unrecorded(t, P, s),
           NEW u, Begun(u), u.id = t.id, t.pglast <= u.pglast, Records(u) = Records(t)
    PROVE  Unrecorded(u, P, s)
<1>1. /\ t \in Txns /\ DOMAIN Records(t) \subseteq Int
      /\ t.pglast \in Int /\ u.pglast \in Int
  BY BegunFacts, RecordsType, Bounds DEF Begun
<1>2. \A i \in DOMAIN Records(t) : u.pglast < i => t.pglast < i
  BY <1>1
<1> QED
  BY <1>2 DEF Unrecorded

(* Nor does making the root its own.                                       *)
LEMMA RootHeld ==
    ASSUME Shape, NEW t, Begun(t), Once(Image(t), t), NEW P \in SUBSET Page, NEW s \in Int,
           Held(t, P, s)
    PROVE  Held(OwnRoot(t), P, s)
<1> DEFINE w == Own(t, t.root)
           u == OwnRoot(t)
<1>1. t \in Txns /\ t.root \in Place
  BY DEF Begun, Txns
<1>2. Owned(t, t.root, w)
  BY <1>1, OwnFacts
<1>3. u = IF w.page = Invalid THEN w ELSE [w EXCEPT !.root = w.page]
  BY DEF OwnRoot, SetRoot
<1>4. Begun(u) /\ Alike(t, u) /\ Same(t, u)
  BY RootOnce
<1> HIDE DEF w, u
<1>5. Apart(w, P, s) /\ t.pglast <= w.pglast /\ w \in Txns
  BY <1>1, <1>2, OwnedApart, OwnedKeeps DEF Begun
<1>6. /\ u.buf = w.buf /\ u.loose = w.loose /\ u.pghead = w.pghead /\ u.next = w.next
      /\ u.pgoldest = w.pgoldest /\ u.id = w.id /\ u.pglast = w.pglast
  BY <1>3, <1>5 DEF Txns
<1>7. Apart(u, P, s)
  BY <1>5, <1>6 DEF Apart, Oldest
<1>8. Unrecorded(u, P, s)
  BY <1>4, <1>5, <1>6, StaysUnrecorded DEF Held, Alike, Same
<1> QED
  BY <1>7, <1>8 DEF Held, u

(* Nor does making the leaf of the freeDB its own.                         *)
LEMMA FreeHeld ==
    ASSUME Shape, NEW t, Begun(t), Once(Image(t), t), NEW P \in SUBSET Page, NEW s \in Int,
           Held(t, P, s)
    PROVE  Held(OwnFree(t), P, s)
<1> DEFINE w == Own(t, t.freeRoot)
           u == OwnFree(t)
<1>1. t \in Txns /\ t.freeRoot \in Place
  BY DEF Begun, Txns
<1>2. Owned(t, t.freeRoot, w)
  BY <1>1, OwnFacts
<1>3. u = IF w.page = Invalid THEN w ELSE [w EXCEPT !.freeRoot = w.page]
  BY DEF OwnFree, SetFree
<1>4. Begun(u) /\ Alike(t, u) /\ Same(t, u)
  BY FreeOnce
<1> HIDE DEF w, u
<1>5. Apart(w, P, s) /\ t.pglast <= w.pglast /\ w \in Txns
  BY <1>1, <1>2, OwnedApart, OwnedKeeps DEF Begun
<1>6. /\ u.buf = w.buf /\ u.loose = w.loose /\ u.pghead = w.pghead /\ u.next = w.next
      /\ u.pgoldest = w.pgoldest /\ u.id = w.id /\ u.pglast = w.pglast
  BY <1>3, <1>5 DEF Txns
<1>7. Apart(u, P, s)
  BY <1>5, <1>6 DEF Apart, Oldest
<1>8. Unrecorded(u, P, s)
  BY <1>4, <1>5, <1>6, StaysUnrecorded DEF Held, Alike, Same
<1> QED
  BY <1>7, <1>8 DEF Held, u

(* mdb_put takes none of the pages kept from it.                          *)
LEMMA PutHeld ==
    ASSUME Shape, NEW t, Begun(t), Once(Image(t), t), NEW k \in Key, NEW n \in 0 .. MaxWrites,
           NEW t1, t1 = OwnRoot(t), t1.page # Invalid,
           NEW t2, t2 = Own(t1, Child(t1, k)), t2.page # Invalid,
           NEW u, u = SetChild(SetPage(t2, t2.page, [Blank EXCEPT !.val = n]), k, t2.page),
           NEW P \in SUBSET Page, NEW s \in Int, Held(t, P, s)
    PROVE  Held(u, P, s)
<1> DEFINE leaf == [Blank EXCEPT !.val = n]
           w == SetChild(t2, k, t2.page)
<1>1. /\ Begun(t1) /\ Same(t, t1)
      /\ Once(Image(t1), t1) /\ Alike(t, t1) /\ t1.root \in DOMAIN t1.buf /\ t1.root \in Page
  BY RootOnce
<1>2. Held(t1, P, s)
  BY RootHeld
<1>3. t1 \in Txns /\ Child(t1, k) \in Place
  BY <1>1, Bounds, ChildFacts DEF Begun
<1>4. /\ Begun(t2) /\ Same(t1, t2) /\ t2.root = t1.root /\ t2.page \in Page /\ t2.page \in DOMAIN t2.buf
      /\ \A q \in DOMAIN t1.buf : q \in DOMAIN t2.buf
  BY <1>1, <1>3, OwnFacts, OwnedKeeps
<1>5. Apart(t2, P, s) /\ t1.pglast <= t2.pglast
  BY <1>1, <1>2, <1>3, OwnFacts, OwnedApart
<1>6. leaf \in Contents /\ t2 \in Txns
  BY <1>4, BlankType DEF Contents, Blank, Begun
<1>7. t2.page # w.root /\ w.root = t1.root
  BY <1>1, ChildOnce
<1>8. t2.page # t2.root /\ t2.root \in DOMAIN t2.buf
  BY <1>1, <1>4, <1>7
<1>9. u = SetChild(SetPage(t2, t2.page, leaf), k, t2.page) /\ w = SetChild(t2, k, t2.page)
  OBVIOUS
<1> HIDE DEF leaf, w
<1>10. u \in Txns /\ u = [t2 EXCEPT !.buf = u.buf] /\ DOMAIN u.buf = DOMAIN t2.buf
  BY SMTT(40), <1>9, <1>4, <1>6, <1>8, LeafWritten
<1>11. /\ DOMAIN u.buf = DOMAIN t2.buf /\ u.loose = t2.loose /\ u.pghead = t2.pghead /\ u.next = t2.next
       /\ u.pgoldest = t2.pgoldest /\ u.id = t2.id /\ u.pglast = t2.pglast
  BY SMTT(40), <1>6, <1>10, BufOnly
<1>12. Apart(u, P, s)
  BY <1>5, <1>11 DEF Apart, Oldest
<1>13. /\ Begun(u) /\ Same(t, u) /\ Records(u) = Records(t)
       /\ Tree(Image(u), u.root) = [Tree(Image(t), t.root) EXCEPT ![k] = n]
  BY PutOnce
<1>14. t.pglast \in Int /\ t1.pglast \in Int /\ u.pglast \in Int /\ t.pglast <= t1.pglast
  <2>1. t.pglast \in Int /\ t1.pglast \in Int /\ u.pglast \in Int
    BY <1>1, <1>13, BegunFacts
  <2>2. Further(t, t1)
    BY RootOnce
  <2> QED
    BY <2>1, <2>2 DEF Further
<1>15. Unrecorded(u, P, s)
  <2>1. t.pglast <= u.pglast
    BY <1>5, <1>11, <1>14
  <2> QED
    BY <1>13, <2>1, StaysUnrecorded DEF Held, Same
<1> QED
  BY <1>12, <1>15 DEF Held

(* Nor does mdb_del.                                                       *)
LEMMA DelHeld ==
    ASSUME Shape, NEW t, Begun(t), Once(Image(t), t), NEW k \in Key, Child(t, k) # Invalid,
           NEW t1, t1 = OwnRoot(t), t1.page # Invalid,
           NEW t2, t2 = Touch(t1, Child(t1, k)), t2.page # Invalid,
           NEW u, u = DropRoot(Loosen(t2, k)),
           NEW P \in SUBSET Page, NEW s \in Int, Held(t, P, s)
    PROVE  Held(u, P, s)
<1> DEFINE w == SetChild(t2, k, t2.page)
           l == Loosen(t2, k)
<1>1. /\ Begun(t1) /\ Same(t, t1) /\ Further(t, t1)
      /\ Once(Image(t1), t1) /\ Alike(t, t1) /\ t1.root \in DOMAIN t1.buf /\ t1.root \in Page
  BY RootOnce
<1>2. Held(t1, P, s)
  BY RootHeld
<1>3. t1 \in Txns /\ Child(t1, k) \in Place /\ t2 = Own(t1, Child(t1, k))
  BY <1>1, Bounds, ChildFacts DEF Begun, Alike, Own
<1>4. /\ Begun(t2) /\ t2.root = t1.root /\ t2.page \in Page /\ t2.page \in DOMAIN t2.buf
      /\ \A q \in DOMAIN t1.buf : q \in DOMAIN t2.buf
  BY <1>1, <1>3, OwnFacts, OwnedKeeps
<1>5. Apart(t2, P, s) /\ t1.pglast <= t2.pglast /\ t2.page \notin P
  BY <1>1, <1>2, <1>3, OwnFacts, OwnedApart
<1>6. t2 \in Txns /\ t2.root \in DOMAIN t2.buf /\ t2.page \in Place
  BY <1>1, <1>4 DEF Begun, Place
<1>7. Once(Image(w), w) /\ w.page # w.root
  BY SMTT(40), <1>1, <1>3, ChildOnce
<1>8. /\ w \in Txns /\ w = [t2 EXCEPT !.buf = w.buf]
      /\ DOMAIN w.buf = DOMAIN t2.buf
      /\ w.buf[t2.root] = [t2.buf[t2.root] EXCEPT !.child[k] = t2.page]
  BY SMTT(40), <1>6, SetChildFacts
<1>9. /\ l \in Txns /\ Same(w, l) /\ l.root = w.root /\ l.freeRoot = w.freeRoot /\ l.freed = w.freed
      /\ l.pghead = w.pghead /\ l.pglast = w.pglast /\ l.pgoldest = w.pgoldest
      /\ l.next = w.next /\ l.loose = <<w.page>> \o w.loose /\ DOMAIN l.buf = DOMAIN w.buf
      /\ ToSet(l.loose) = ToSet(w.loose) \cup {w.page}
      /\ Once(Image(l), l) /\ Records(l) = Records(w)
      /\ Tree(Image(l), l.root) = [Tree(Image(w), w.root) EXCEPT ![k] = Absent]
      /\ l.root \in DOMAIN l.buf
  <2>1. t2 \in Txns /\ t2.root \in DOMAIN t2.buf /\ t2.page \in Page
    BY <1>4, <1>6
  <2>2. Once(Image(w), w) /\ w.page # w.root
    BY <1>7
  <2>3. w = SetChild(t2, k, t2.page) /\ l = Loosen(t2, k)
    OBVIOUS
  <2> HIDE DEF w, l
  <2>4. Loosened(w, l, k)
    BY <2>1, <2>2, <2>3, LoosenOnce
  <2> QED
    BY <2>4 DEF Loosened
<1> HIDE DEF w, l
<1>10. /\ u \in Txns /\ Same(l, u)
       /\ u.pghead = l.pghead /\ u.pglast = l.pglast /\ u.pgoldest = l.pgoldest
       /\ u.next = l.next /\ u.loose = l.loose /\ u.buf = l.buf
  BY <1>9, DropRootOnce DEF l
<1>11. /\ w.loose = t2.loose /\ w.pghead = t2.pghead /\ w.next = t2.next /\ w.page = t2.page
       /\ w.pgoldest = t2.pgoldest /\ w.id = t2.id /\ w.pglast = t2.pglast
  BY SMTT(40), <1>6, <1>8 DEF Txns
<1>12. Apart(u, P, s)
  <2>1. /\ DOMAIN u.buf = DOMAIN t2.buf /\ u.pghead = t2.pghead /\ u.next = t2.next
        /\ u.pgoldest = t2.pgoldest /\ u.id = t2.id
        /\ ToSet(u.loose) = ToSet(t2.loose) \cup {t2.page}
    BY <1>8, <1>9, <1>10, <1>11 DEF Same
  <2> QED
    BY <1>5, <2>1 DEF Apart, Oldest
<1>13. /\ Begun(u) /\ Same(t, u) /\ Records(u) = Records(t)
       /\ Tree(Image(u), u.root) = [Tree(Image(t), t.root) EXCEPT ![k] = Absent]
  <2>1. \A z : z = DropRoot(Loosen(t2, k)) =>
           /\ Begun(z) /\ Same(t, z) /\ Records(z) = Records(t)
           /\ Tree(Image(z), z.root) = [Tree(Image(t), t.root) EXCEPT ![k] = Absent]
    BY SMTT(40), DelOnce
  <2> QED
    BY <2>1
<1>14. t.pglast \in Int /\ t1.pglast \in Int /\ u.pglast \in Int /\ t.pglast <= t1.pglast
  <2>1. t.pglast \in Int /\ t1.pglast \in Int /\ u.pglast \in Int
    BY <1>1, <1>13, BegunFacts
  <2> QED
    BY <1>1, <2>1 DEF Further
<1>15. Unrecorded(u, P, s)
  <2>1. t.pglast <= u.pglast
    BY <1>5, <1>9, <1>10, <1>11, <1>14
  <2> QED
    BY <1>13, <2>1, StaysUnrecorded DEF Held, Same
<1> QED
  BY <1>12, <1>15 DEF Held

(* Nor does anything mdb_freelist_save does with the pages it has.         *)
LEMMA FreeLooseHeld ==
    ASSUME Shape, NEW t \in Txns, Once(Image(t), t), NEW u, u = FreeLoose(t),
           NEW P, NEW s, Held(t, P, s)
    PROVE  Held(u, P, s)
<1>1. /\ Same(t, u) /\ u.pghead = t.pghead /\ u.pglast = t.pglast /\ u.pgoldest = t.pgoldest
      /\ u.next = t.next /\ Records(u) = Records(t)
      /\ IF t.pglast > 0 THEN u = t
         ELSE u.loose = <<>> /\ DOMAIN u.buf = DOMAIN t.buf \ ToSet(t.loose)
  BY FreeLooseOnce
<1>2. DOMAIN u.buf \subseteq DOMAIN t.buf /\ \A p \in P : p \notin ToSet(u.loose)
  BY <1>1 DEF Held, Apart, ToSet
<1> QED
  BY <1>1, <1>2 DEF Held, Apart, Unrecorded, Oldest, Same

(* Nor what is noted of the save.                                         *)
LEMMA NotedHeld ==
    ASSUME Shape, NEW t \in Txns, NEW u \in Txns, Noted(t, u), NEW P, NEW s, Held(t, P, s)
    PROVE  Held(u, P, s)
BY NotedSame DEF Noted, Held, Apart, Unrecorded, Oldest

(* Nor the leaf rewritten, with no record of use that was not there.       *)
LEMMA RewriteHeld ==
    ASSUME Shape, NEW t \in Txns, Once(Image(t), t), t.freeRoot \in DOMAIN t.buf, NEW R \in Recs,
           NEW u, u = Rewrite(t, R),
           \A i \in DOMAIN R : t.pglast < i /\ i # t.id => i \in DOMAIN Records(t) /\ R[i] = Records(t)[i],
           NEW P, NEW s, Held(t, P, s)
    PROVE  Held(u, P, s)
<1>1. /\ u \in Txns /\ u = [t EXCEPT !.buf = u.buf] /\ DOMAIN u.buf = DOMAIN t.buf
      /\ Records(u) = R
      /\ TreePages(Image(u), u.root) = TreePages(Image(t), t.root)
      /\ Branching(Image(u), u.root)
  BY RewriteFacts
<1>2. /\ u.pghead = t.pghead /\ u.loose = t.loose /\ u.pglast = t.pglast /\ u.id = t.id
      /\ u.next = t.next /\ u.pgoldest = t.pgoldest
  BY SMTT(40), <1>1 DEF Txns
<1> QED
  BY <1>1, <1>2 DEF Held, Apart, Unrecorded, Oldest

(* Nor the leaf freed.                                                     *)
LEMMA DropFreeHeld ==
    ASSUME Shape, NEW t \in Txns, Once(Image(t), t), t.freeRoot \in DOMAIN t.buf,
           NEW u, u = DropFree(t), NEW P, NEW s, Held(t, P, s)
    PROVE  Held(u, P, s)
<1>1. /\ u \in Txns /\ Same(t, u) /\ u.root = t.root
      /\ u.pghead = t.pghead /\ u.pglast = t.pglast /\ u.pgoldest = t.pgoldest
      /\ u.next = t.next /\ u.loose = t.loose /\ u.buf = t.buf
      /\ Once(Image(u), u) /\ DOMAIN Records(u) = DOMAIN Records(t)
      /\ \A i \in DOMAIN Records(t) : Records(u)[i] = Records(t)[i]
  BY DropFreeOnce
<1> QED
  BY <1>1 DEF Held, Apart, Unrecorded, Oldest, Same

-----------------------------------------------------------------------------
(* What a commit leaves.                                                   *)

(* The transaction that begins on a meta page.                             *)
Opening(m) ==
    [NoTxn EXCEPT !.id = m.txnid + 1, !.root = m.root, !.freeRoot = m.freeRoot, !.next = m.last + 1]

Dated(recs, n) == \A i \in DOMAIN recs : 0 < i /\ i <= n

(* The pages of a meta page, in the pages f: no page is in two places, nor *)
(* in none, and the records are of it and the transactions before.         *)
Whole(f, m) ==
    /\ Once(f, Opening(m)) /\ Missing(f, Opening(m)) = {}
    /\ Dated(RecordsIn(f, m.freeRoot), m.txnid)

(* It has taken and freed nothing yet.                                     *)
LEMMA OpeningFields ==
    ASSUME NEW m
    PROVE  /\ Opening(m).id = m.txnid + 1 /\ Opening(m).root = m.root
           /\ Opening(m).freeRoot = m.freeRoot /\ Opening(m).next = m.last + 1
           /\ Opening(m).pghead = {} /\ Opening(m).freed = {} /\ Opening(m).loose = <<>>
           /\ Opening(m).pglast = 0 /\ Opening(m).pgoldest = 0
BY DEF Opening, NoTxn

(* The meta page of a transaction at the end of its save.                  *)
MetaFor(t) == [txnid |-> t.id, root |-> t.root, freeRoot |-> t.freeRoot, last |-> t.next - 1]

(* There is room for the pages left over, and the pages freed are recorded.*)
Fillable(t) ==
    /\ t.pglast = 0 => t.pghead = {} /\ t.loose = <<>>
    /\ t.pglast > 0 /\ t.pghead \cup ToSet(t.loose) # {} =>
          t.freeRoot \in DOMAIN t.buf /\ t.headId = t.pglast
    /\ \A i \in DOMAIN Records(t) : i <= t.pglast => i = t.pglast /\ Records(t)[i] = {}
    /\ IF t.id \in DOMAIN Records(t) THEN Records(t)[t.id] = t.freed ELSE t.freed = {}

(* The pages left over fill the record kept for them: each page freed, and *)
(* each one left over, is in one record, and so none is lost.              *)
LEMMA FillOnce ==
    ASSUME Shape, NEW t, Begun(t), Once(Image(t), t), Dated(Records(t), t.id), Fillable(t),
           Missing(Image(t), t) = {},
           NEW u, u = Fill(t, t.pghead \cup ToSet(t.loose))
    PROVE  /\ u \in Txns /\ u.id = t.id /\ u.noMetaSync = t.noMetaSync /\ u.error = t.error
           /\ u.pglast = t.pglast /\ u.pgoldest = t.pgoldest /\ u.next = t.next
           /\ u.rounds = t.rounds
           /\ DOMAIN u.buf = DOMAIN t.buf \ ToSet(t.loose)
           /\ Whole(Image(u), MetaFor(u))
           /\ Tree(Image(u), u.root) = Tree(Image(t), t.root)
           /\ \A i \in DOMAIN Records(u) :
                 \/ i = t.pglast /\ Records(u)[i] \subseteq t.pghead \cup ToSet(t.loose)
                 \/ i = t.id
                 \/ i \in DOMAIN Records(t) /\ t.pglast < i /\ Records(u)[i] = Records(t)[i]
<1> USE DEF Fillable
<1> DEFINE L == ToSet(t.loose)
           left == t.pghead \cup L
           R == With(Records(t), t.headId, left)
           v == IF left = {} THEN t ELSE Record(t, t.headId, left)
           w == Shed(v)
<1>1. /\ t \in Txns /\ t.id \in 1 .. MaxTxns /\ t.pglast \in Nat /\ t.pglast < t.id
      /\ left \in SUBSET Page /\ t.headId \in Ids /\ t.id \in Ids /\ L \subseteq Page
  <2>1. t \in Txns /\ t.id \in 1 .. MaxTxns /\ t.pglast \in Nat /\ t.pglast < t.id
    BY BegunFacts
  <2>2. L \subseteq Page
    BY <2>1, RootsApart
  <2> QED
    BY <2>1, <2>2 DEF Txns
<1>2. left # {} => t.pglast > 0 /\ t.freeRoot \in DOMAIN t.buf /\ t.headId = t.pglast
  BY <1>1 DEF ToSet
<1>3. R \in Recs /\ (left # {} => v = Rewrite(t, R)) /\ (left = {} => v = t)
  BY <1>1, RecordFacts
<1>4. \A i \in DOMAIN R : i # t.headId => i \in DOMAIN Records(t) /\ R[i] = Records(t)[i]
  BY DEF With
<1>5. R[t.headId] = left
  BY DEF With
<1> HIDE DEF R
<1>6. /\ v \in Txns /\ v = [t EXCEPT !.buf = v.buf] /\ DOMAIN v.buf = DOMAIN t.buf
      /\ Once(Image(v), v) /\ LosesNone(t, v)
      /\ Tree(Image(v), v.root) = Tree(Image(t), t.root)
      /\ Records(v) = IF left = {} THEN Records(t) ELSE R
  <2>1. CASE left = {}
    BY <1>1, <1>3, <2>1 DEF Txns, LosesNone
  <2>2. CASE left # {}
    <3>1. v = Rewrite(t, R) /\ t.freeRoot \in DOMAIN t.buf /\ t.headId = t.pglast
      BY <1>2, <1>3, <2>2
    <3> HIDE DEF v
    <3>2. /\ v \in Txns /\ v = [t EXCEPT !.buf = v.buf] /\ DOMAIN v.buf = DOMAIN t.buf
          /\ Records(v) = R
          /\ \A p \in Page : p # t.freeRoot => At(v, p) = At(t, p)
          /\ TreePages(Image(v), v.root) = TreePages(Image(t), t.root)
          /\ Tree(Image(v), v.root) = Tree(Image(t), t.root)
          /\ Branching(Image(v), v.root)
      BY <1>1, <1>3, <3>1, RewriteFacts
    <3>3. \A i \in DOMAIN R : t.pglast < i /\ i # t.id => i \in DOMAIN Records(t) /\ R[i] = Records(t)[i]
      BY <1>1, <1>4, <3>1
    <3>4. Once(Image(v), v)
      BY <1>1, <1>3, <3>1, <3>3, RewriteOnce
    <3>5. \A i \in DOMAIN Records(t) :
             t.pglast < i /\ i # t.id => i \in DOMAIN R /\ R[i] = Records(t)[i]
      <4>1. \A i \in DOMAIN Records(t) : i \in Int
        BY <1>1, RecordsType, Bounds
      <4> QED
        BY <1>1, <3>1, <4>1 DEF With, R
    <3>6. LosesNone(t, v)
      BY <1>1, <1>3, <3>1, <3>5, RewriteAll
    <3> QED
      BY <2>2, <3>2, <3>4, <3>6
  <2> QED
    BY <2>1, <2>2
<1>7. /\ v.root = t.root /\ v.freeRoot = t.freeRoot /\ v.loose = t.loose /\ v.pghead = t.pghead
      /\ v.freed = t.freed /\ v.pglast = t.pglast /\ v.pgoldest = t.pgoldest /\ v.next = t.next
      /\ v.id = t.id /\ v.noMetaSync = t.noMetaSync /\ v.error = t.error /\ v.rounds = t.rounds
  BY SMTT(40), <1>1, <1>6 DEF Txns
<1>8. u = [w EXCEPT !.pghead = {}]
  <2>1. u = [v EXCEPT !.pghead = {}, !.loose = <<>>,
                      !.buf = [p \in DOMAIN v.buf \ L |-> v.buf[p]]]
    BY DEF Fill
  <2> QED
    BY ZenonT(60), <1>6, <1>7, <2>1 DEF Shed, Txns
<1> HIDE DEF v
<1>9. /\ w \in Txns /\ w = [v EXCEPT !.buf = w.buf, !.loose = <<>>]
      /\ DOMAIN w.buf = DOMAIN v.buf \ ToSet(v.loose)
      /\ \A p \in Page : p \notin ToSet(v.loose) => At(w, p) = At(v, p)
      /\ Records(w) = Records(v)
      /\ TreePages(Image(w), w.root) = TreePages(Image(v), v.root)
      /\ Tree(Image(w), w.root) = Tree(Image(v), v.root)
      /\ Branching(Image(w), w.root)
  BY ZenonT(60), <1>6, ShedFacts
<1> HIDE DEF w
<1>10. /\ w.root = t.root /\ w.freeRoot = t.freeRoot
       /\ w.freed = t.freed /\ w.pglast = t.pglast /\ w.pgoldest = t.pgoldest /\ w.next = t.next
       /\ w.id = t.id /\ w.noMetaSync = t.noMetaSync /\ w.error = t.error /\ w.rounds = t.rounds
  BY ZenonT(60), <1>6, <1>7, <1>9 DEF Txns
<1>11. /\ u \in Txns /\ u.buf = w.buf /\ u.root = t.root /\ u.freeRoot = t.freeRoot
       /\ u.pglast = t.pglast /\ u.pgoldest = t.pgoldest /\ u.next = t.next
       /\ u.id = t.id /\ u.noMetaSync = t.noMetaSync /\ u.error = t.error /\ u.rounds = t.rounds
  <2>1. {} \in SUBSET Page
    OBVIOUS
  <2> QED
    BY ZenonT(60), <1>8, <1>9, <1>10, <2>1 DEF Txns
<1>12. \A p : At(u, p) = At(w, p)
  BY <1>11 DEF At
<1>13. Image(u) = Image(w) /\ Records(u) = Records(v)
  <2>1. Image(u) = Image(w)
    BY <1>12 DEF Image
  <2>2. Records(u) = Records(w)
    BY ZenonT(60), <1>10, <1>11, <1>12 DEF Records
  <2> QED
    BY <1>9, <2>1, <2>2
<1>14. /\ TreePages(Image(u), u.root) = TreePages(Image(v), v.root)
       /\ Tree(Image(u), u.root) = Tree(Image(t), t.root)
       /\ Branching(Image(u), u.root)
  BY <1>6, <1>7, <1>9, <1>10, <1>11, <1>13
<1>15. RecordsIn(Image(u), u.freeRoot) = Records(v) /\ RecordsIn(Image(v), v.freeRoot) = Records(v)
  BY <1>6, <1>11, <1>13, ImageFacts
<1>16. DOMAIN Records(v) \subseteq Ids /\ \A i \in DOMAIN Records(v) : i \in Int
  BY <1>6, RecordsType, Bounds
<1>17. ASSUME NEW i \in DOMAIN Records(v)
       PROVE  /\ 0 < i /\ i <= t.id
              /\ \/ i = t.pglast /\ Records(v)[i] \subseteq left
                 \/ i = t.id /\ Records(v)[i] = t.freed
                 \/ /\ i \in DOMAIN Records(t) /\ t.pglast < i /\ i # t.id
                    /\ Records(v)[i] = Records(t)[i]
  <2>1. i \in Int
    BY <1>16
  <2>2. CASE i \in DOMAIN Records(t) /\ Records(v)[i] = Records(t)[i]
    <3>1. 0 < i /\ i <= t.id
      BY <2>2 DEF Dated
    <3>2. CASE i <= t.pglast
      BY <2>2, <3>1, <3>2
    <3>3. CASE i > t.pglast
      BY <1>1, <2>1, <2>2, <3>1, <3>3
    <3> QED
      BY <1>1, <2>1, <3>2, <3>3
  <2>3. CASE left # {} /\ i = t.headId
    BY <1>1, <1>2, <1>5, <1>6, <2>3
  <2> QED
    BY <1>4, <1>6, <2>2, <2>3
<1> DEFINE m == MetaFor(u)
           o == Opening(m)
<1>18. /\ o.id = t.id + 1 /\ o.root = t.root /\ o.freeRoot = t.freeRoot /\ o.next = t.next
       /\ o.pghead = {} /\ o.freed = {} /\ o.loose = <<>> /\ o.pglast = 0
  <2>1. m.txnid = t.id /\ m.root = t.root /\ m.freeRoot = t.freeRoot /\ m.last = t.next - 1
    BY <1>11 DEF MetaFor
  <2>2. t.next \in Int
    BY <1>1, Bounds DEF Txns
  <2>3. /\ o.id = m.txnid + 1 /\ o.root = m.root /\ o.freeRoot = m.freeRoot /\ o.next = m.last + 1
        /\ o.pghead = {} /\ o.freed = {} /\ o.loose = <<>> /\ o.pglast = 0
    BY OpeningFields
  <2> HIDE DEF o, m
  <2> QED
    BY <2>1, <2>2, <2>3
<1> HIDE DEF m, o
<1>19. /\ {-1, -2, -3, -4, -5} \subseteq Spot /\ Spot \subseteq Int
       /\ Pool(Image(v), v) \cap {-1, -2, -3, -4, -5} = {}
  BY <1>6, PoolType
<1>20. ToSet(o.loose) = {}
  BY <1>18 DEF ToSet
<1> DEFINE From(p, i, c) ==
             /\ c \in Spot /\ Has(Image(v), v, p, c)
             /\ \/ i \in {-1, -2} /\ c = i
                \/ i = t.pglast /\ i > 0 /\ c \in {-3, -5}
                \/ i = t.id /\ c = -4
                \/ c = i /\ i > 0 /\ i # t.pglast /\ i # t.id
<1>21. ASSUME NEW p \in Page, NEW i \in Spot, Has(Image(u), o, p, i)
       PROVE  \E c : From(p, i, c)
  <2>1. CASE i = -1 /\ p \in TreePages(Image(u), o.root)
    <3>1. Has(Image(v), v, p, -1)
      BY <1>11, <1>14, <1>18, <2>1 DEF Has
    <3> QED
      BY <1>19, <2>1, <3>1
  <2>2. CASE i = -2 /\ p = o.freeRoot
    <3>1. Has(Image(v), v, p, -2)
      BY <1>7, <1>18, <2>2 DEF Has
    <3> QED
      BY <1>19, <2>2, <3>1
  <2>3. CASE i \in Pool(Image(u), o) /\ p \in RecordsIn(Image(u), o.freeRoot)[i]
    <3>1. i \in DOMAIN Records(v) /\ p \in Records(v)[i]
      BY <1>11, <1>15, <1>18, <2>3 DEF Pool
    <3>2. 0 < i
      BY <1>17, <3>1
    <3>3. CASE i = t.pglast /\ p \in left
      <4>1. p \in t.pghead => Has(Image(v), v, p, -3)
        BY <1>7 DEF Has
      <4>2. p \in L => Has(Image(v), v, p, -5)
        BY <1>7 DEF Has
      <4> QED
        BY <1>19, <3>2, <3>3, <4>1, <4>2
    <3>4. CASE i = t.id /\ p \in t.freed
      <4>1. Has(Image(v), v, p, -4)
        BY <1>7, <3>4 DEF Has
      <4> QED
        BY <1>19, <3>4, <4>1
    <3>5. CASE t.pglast < i /\ i # t.id
      <4>1. i \in Pool(Image(v), v)
        BY <1>7, <1>15, <3>1, <3>5 DEF Pool
      <4>2. Has(Image(v), v, p, i)
        BY <1>15, <3>1, <4>1 DEF Has
      <4>3. i # t.pglast
        BY <1>1, <1>19, <3>5
      <4> QED
        BY <3>2, <3>5, <4>2, <4>3
    <3> QED
      BY <1>17, <3>1, <3>3, <3>4, <3>5
  <2> QED
    BY <1>18, <1>20, <1>21, <2>1, <2>2, <2>3 DEF Has
<1>22. \A p \in Page : \A i, j \in Spot : Has(Image(v), v, p, i) /\ Has(Image(v), v, p, j) => i = j
  BY <1>6 DEF Once
<1>23. ASSUME NEW p \in Page, NEW i \in Spot, NEW j \in Spot,
              Has(Image(u), o, p, i), Has(Image(u), o, p, j)
       PROVE  i = j
  <2>1. PICK c : From(p, i, c)
    BY <1>21, <1>23
  <2>2. PICK d : From(p, j, d)
    BY <1>21, <1>23
  <2>3. c = d
    BY <1>22, <2>1, <2>2
  <2>4. i \in Int /\ j \in Int /\ t.pglast < t.id /\ t.id > 0
    BY <1>1, <1>19
  <2> QED
    BY <1>1, <2>1, <2>2, <2>3, <2>4
<1>24. ASSUME NEW p \in Page, NEW i \in Spot, Has(Image(u), o, p, i) PROVE p < o.next
  <2>1. PICK c : From(p, i, c)
    BY <1>21, <1>24
  <2> QED
    BY <1>6, <1>7, <1>18, <2>1 DEF Once
<1>25. Once(Image(u), o)
  <2>1. \A a, b \in DOMAIN o.loose : o.loose[a] = o.loose[b] => a = b
    BY <1>18, EmptyMaps
  <2>2. Branching(Image(u), o.root)
    BY <1>11, <1>14, <1>18
  <2> QED
    BY <1>23, <1>24, <2>1, <2>2 DEF Once
<1>26. Dated(RecordsIn(Image(u), m.freeRoot), m.txnid)
  BY <1>11, <1>15, <1>17 DEF Dated, m, MetaFor
<1>27. ASSUME NEW p \in Page, NEW c \in Spot, Has(Image(v), v, p, c)
       PROVE  \E i \in Spot : Has(Image(u), o, p, i)
  <2>1. CASE c = -1 /\ p \in TreePages(Image(v), v.root)
    <3>1. Has(Image(u), o, p, -1)
      BY <1>11, <1>14, <1>18, <2>1 DEF Has
    <3> QED
      BY <1>19, <3>1
  <2>2. CASE c = -2 /\ p = v.freeRoot
    <3>1. Has(Image(u), o, p, -2)
      BY <1>7, <1>18, <2>2 DEF Has
    <3> QED
      BY <1>19, <3>1
  <2>3. ASSUME NEW i \in DOMAIN Records(v), p \in Records(v)[i]
        PROVE  \E j \in Spot : Has(Image(u), o, p, j)
    <3>1. i \in Int /\ 0 < i /\ i <= t.id
      BY <1>16, <1>17
    <3>2. i \in Spot /\ i # o.id
      BY <1>1, <1>18, <3>1, Bounds DEF Spot
    <3>3. i \in Pool(Image(u), o) /\ p \in RecordsIn(Image(u), o.freeRoot)[i]
      BY <1>11, <1>15, <1>18, <2>3, <3>1, <3>2 DEF Pool
    <3> QED
      BY <3>2, <3>3 DEF Has
  <2>4. CASE p \in left
    <3>1. t.headId \in DOMAIN R /\ left # {}
      BY <2>4 DEF With, R
    <3>2. t.headId \in DOMAIN Records(v) /\ p \in Records(v)[t.headId]
      BY <1>5, <1>6, <2>4, <3>1
    <3> QED
      BY <2>3, <3>2
  <2>5. CASE p \in t.freed
    <3>1. t.id \in DOMAIN Records(t) /\ Records(t)[t.id] = t.freed
      BY <2>5
    <3>2. left # {} => t.id # t.headId
      BY <1>1, <1>2
    <3>3. left # {} => t.id \in DOMAIN R /\ R[t.id] = Records(t)[t.id]
      BY <3>1, <3>2 DEF With, R
    <3>4. t.id \in DOMAIN Records(v) /\ p \in Records(v)[t.id]
      BY <1>6, <2>5, <3>1, <3>3
    <3> QED
      BY <2>3, <3>4
  <2>6. CASE c \in Pool(Image(v), v) /\ p \in RecordsIn(Image(v), v.freeRoot)[c]
    <3>1. c \in DOMAIN Records(v) /\ p \in Records(v)[c]
      BY <1>15, <2>6 DEF Pool
    <3> QED
      BY <2>3, <3>1
  <2>7. v.pghead \subseteq left /\ ToSet(v.loose) \subseteq left /\ v.freed = t.freed
    BY <1>7
  <2> HIDE DEF left
  <2> QED
    BY <1>27, <2>1, <2>2, <2>4, <2>5, <2>6, <2>7 DEF Has
<1>28. Missing(Image(u), o) = {}
  <2>1. ASSUME NEW p \in Page, p < o.next PROVE \E i \in Spot : Has(Image(u), o, p, i)
    <3>1. p < v.next
      BY <1>7, <1>18, <2>1
    <3>2. p \notin Missing(Image(v), v)
      BY <1>6 DEF LosesNone
    <3>3. PICK c \in Spot : Has(Image(v), v, p, c)
      BY <3>1, <3>2 DEF Missing
    <3> QED
      BY <1>27, <3>3
  <2> QED
    BY <2>1 DEF Missing
<1>29. Whole(Image(u), m)
  BY <1>25, <1>26, <1>28 DEF Whole, o
<1>30. \A i \in DOMAIN Records(u) :
          \/ i = t.pglast /\ Records(u)[i] \subseteq t.pghead \cup ToSet(t.loose)
          \/ i = t.id
          \/ i \in DOMAIN Records(t) /\ t.pglast < i /\ Records(u)[i] = Records(t)[i]
  BY <1>13, <1>17
<1>31. DOMAIN u.buf = DOMAIN t.buf \ L
  BY <1>6, <1>7, <1>9, <1>11
<1> QED
  BY <1>11, <1>14, <1>29, <1>30, <1>31 DEF m

-----------------------------------------------------------------------------
(* The state of a transaction between two calls.                           *)

(* Open: nothing is saved yet, and the pages at hand are those of the last *)
(* record read.                                                            *)
Fresh(t) == t.dropped = 0 /\ t.saved = 0 /\ t.headId = 0 /\ t.room = 0 /\ t.rounds = 0

OpenOk(t) ==
    /\ t.pglast = 0 => t.pghead = {}
    /\ t.pglast > 0 => t.pglast \in DOMAIN Records(t)

(* How far the loop of mdb_freelist_save is: the pages freed have a record *)
(* of their own or not, and those left over have room or not.              *)
Phase(t, rounds, freed, room) ==
    /\ t.rounds = rounds
    /\ t.saved = (IF freed THEN Cardinality(t.freed) ELSE 0)
    /\ t.room = (IF room THEN LeftOver(t) ELSE 0)
    /\ freed <=> t.id \in DOMAIN Records(t)
    /\ room => ~Dropping(t) /\ (freed \/ t.freed = {})
    /\ rounds > 0 => t.freeRoot \in DOMAIN t.buf

SaveOk(t) ==
    /\ t.pglast = 0 => t.pghead = {} /\ t.loose = <<>>
    /\ t.pglast > 0 => IF t.freeRoot = Invalid THEN t.freed # {} ELSE t.freeRoot \in DOMAIN t.buf
    /\ t.dropped <= t.pglast /\ t.headId = t.dropped
    /\ Dropping(t) => t.pglast \in DOMAIN Records(t)
    /\ \A i \in DOMAIN Records(t) : i <= t.dropped => i = t.dropped /\ Records(t)[i] = {}
    /\ t.id \in DOMAIN Records(t) => Records(t)[t.id] = t.freed
    /\ \/ Phase(t, 0, FALSE, FALSE) \/ Phase(t, 1, TRUE, FALSE)
       \/ Phase(t, 1, FALSE, TRUE) \/ Phase(t, 2, TRUE, TRUE)

Safe(t, u) == \A P \in SUBSET Page, s \in Int : Held(t, P, s) => Held(u, P, s)

(* From a call to the next: no page comes to be in two places, none is     *)
(* lost, and none that was kept is taken.                                  *)
Proceeds(t, u) ==
    /\ Begun(u) /\ u.id = t.id /\ u.noMetaSync = t.noMetaSync /\ u.error = t.error
    /\ Once(Image(u), u) /\ LosesNone(t, u)
    /\ Safe(t, u)

(* Sets of pages are finite, and their sizes numbers.                      *)
LEMMA Sizes ==
    /\ \A S \in SUBSET Page : IsFiniteSet(S) /\ Cardinality(S) \in Nat
                              /\ (Cardinality(S) = 0 <=> S = {})
    /\ \A t \in Txns : LeftOver(t) \in Nat
<1>1. IsFiniteSet(Page)
  BY Bounds, FS_Interval
<1>2. \A S \in SUBSET Page : IsFiniteSet(S) /\ Cardinality(S) \in Nat
                             /\ (Cardinality(S) = 0 <=> S = {})
  BY <1>1, FS_Subset, FS_CardinalityType, FS_EmptySet
<1>3. ASSUME NEW t \in Txns PROVE LeftOver(t) \in Nat
  <2>1. t.pghead \in SUBSET Page /\ t.loose \in Seq(Page)
    BY DEF Txns
  <2>2. Cardinality(t.pghead) \in Nat /\ Len(t.loose) \in Nat
    BY SMTT(40), <1>2, <2>1
  <2> QED
    BY <2>2 DEF LeftOver
<1> QED
  BY <1>2, <1>3

(* A put: the key has its new value, the others theirs.                    *)
LEMMA PutProceeds ==
    ASSUME Shape, NEW t, Begun(t), Once(Image(t), t), OpenOk(t), NEW k \in Key, NEW n \in 0 .. MaxWrites,
           NEW t1, t1 = OwnRoot(t), t1.page # Invalid,
           NEW t2, t2 = Own(t1, Child(t1, k)), t2.page # Invalid,
           NEW u, u = SetChild(SetPage(t2, t2.page, [Blank EXCEPT !.val = n]), k, t2.page)
    PROVE  /\ Proceeds(t, u) /\ Same(t, u) /\ OpenOk(u) /\ Records(u) = Records(t)
           /\ Tree(Image(u), u.root) = [Tree(Image(t), t.root) EXCEPT ![k] = n]
<1>1. /\ Begun(u) /\ Same(t, u) /\ Further(t, u) /\ u.freeRoot = t.freeRoot
      /\ t.freed \subseteq u.freed /\ \A q \in DOMAIN t.buf : q \in DOMAIN u.buf
      /\ Once(Image(u), u) /\ Records(u) = Records(t) /\ LosesNone(t, u)
      /\ Tree(Image(u), u.root) = [Tree(Image(t), t.root) EXCEPT ![k] = n]
      /\ DOMAIN u.buf # {}
  BY PutOnce
<1>2. ASSUME NEW P \in SUBSET Page, NEW s \in Int, Held(t, P, s) PROVE Held(u, P, s)
  BY <1>2, PutHeld
<1>3. u.pglast \in Nat /\ t.pglast \in Nat
  BY <1>1, BegunFacts
<1>4. OpenOk(u)
  BY <1>1, <1>3 DEF OpenOk, Further
<1> QED
  BY <1>1, <1>2, <1>4 DEF Proceeds, Safe, Same

(* A delete: the key has none, the others have theirs.                     *)
LEMMA DelProceeds ==
    ASSUME Shape, NEW t, Begun(t), Once(Image(t), t), OpenOk(t), NEW k \in Key, Child(t, k) # Invalid,
           NEW t1, t1 = OwnRoot(t), t1.page # Invalid,
           NEW t2, t2 = Touch(t1, Child(t1, k)), t2.page # Invalid,
           NEW u, u = DropRoot(Loosen(t2, k))
    PROVE  /\ Proceeds(t, u) /\ Same(t, u) /\ OpenOk(u) /\ Records(u) = Records(t)
           /\ Tree(Image(u), u.root) = [Tree(Image(t), t.root) EXCEPT ![k] = Absent]
<1>1. /\ Begun(u) /\ Same(t, u) /\ u.freeRoot = t.freeRoot
      /\ t.freed \subseteq u.freed /\ \A q \in DOMAIN t.buf : q \in DOMAIN u.buf
      /\ \/ u.pglast = t.pglast /\ (t.pghead = {} => u.pghead = {})
         \/ u.pglast \in DOMAIN Records(t) /\ t.pglast < u.pglast
      /\ Once(Image(u), u) /\ Records(u) = Records(t) /\ LosesNone(t, u)
      /\ Tree(Image(u), u.root) = [Tree(Image(t), t.root) EXCEPT ![k] = Absent]
      /\ DOMAIN u.buf # {}
  BY SMTT(40), DelOnce
<1>2. ASSUME NEW P \in SUBSET Page, NEW s \in Int, Held(t, P, s) PROVE Held(u, P, s)
  BY <1>2, DelHeld
<1>3. u.pglast \in Nat /\ t.pglast \in Nat
  BY <1>1, BegunFacts
<1>4. OpenOk(u)
  BY <1>1, <1>3 DEF OpenOk
<1> QED
  BY <1>1, <1>2, <1>4 DEF Proceeds, Safe, Same

(* The beginning of mdb_freelist_save.                                     *)
LEMMA CommitProceeds ==
    ASSUME Shape, NEW t, Begun(t), Once(Image(t), t), OpenOk(t), Fresh(t),
           Dated(Records(t), t.id - 1),
           NEW t1, t1 = IF t.pglast > 0 THEN OwnFree(t) ELSE t, t.pglast > 0 => t1.page # Invalid,
           NEW u, u = FreeLoose(t1)
    PROVE  /\ Proceeds(t, u) /\ SaveOk(u) /\ Records(u) = Records(t) /\ u.rounds = 0
           /\ Tree(Image(u), u.root) = Tree(Image(t), t.root)
<1>0. /\ t.id \in 1 .. MaxTxns /\ t.pglast \in Nat /\ t.pglast < t.id
      /\ DOMAIN Records(t) \subseteq Int
  BY BegunFacts, RecordsType, Bounds
<1>1. /\ Begun(t1) /\ Same(t, t1) /\ t1.root = t.root
      /\ Once(Image(t1), t1) /\ Records(t1) = Records(t) /\ LosesNone(t, t1)
      /\ Tree(Image(t1), t1.root) = Tree(Image(t), t.root)
      /\ t.pglast > 0 => t1.freeRoot \in DOMAIN t1.buf
      /\ t.pglast > 0 => t1.pglast \in DOMAIN Records(t) /\ t1.pglast >= t.pglast
      /\ t.pglast = 0 => t1 = t
  <2>1. CASE t.pglast > 0
    <3>1. /\ Begun(OwnFree(t)) /\ Same(t, OwnFree(t)) /\ Further(t, OwnFree(t))
          /\ OwnFree(t).root = t.root /\ t.freed \subseteq OwnFree(t).freed
          /\ \A q \in DOMAIN t.buf : q \in DOMAIN OwnFree(t).buf
          /\ Once(Image(OwnFree(t)), OwnFree(t)) /\ Alike(t, OwnFree(t)) /\ LosesNone(t, OwnFree(t))
          /\ IF OwnFree(t).page = Invalid THEN OwnFree(t).freeRoot = t.freeRoot
             ELSE /\ OwnFree(t).freeRoot = OwnFree(t).page
                  /\ OwnFree(t).freeRoot \in DOMAIN OwnFree(t).buf
                  /\ OwnFree(t).freeRoot \in Page
      BY FreeOnce
    <3>2. OwnFree(t).pglast \in Nat
      BY <3>1, BegunFacts
    <3> QED
      BY <1>0, <2>1, <3>1, <3>2 DEF Alike, Further, OpenOk
  <2>2. CASE t.pglast = 0
    BY <2>2 DEF Same, LosesNone
  <2> QED
    BY <1>0, <2>1, <2>2
<1>2. t1 \in Txns /\ t1.pglast \in Nat
  BY <1>1, BegunFacts DEF Begun
<1>3. /\ u \in Txns /\ Same(t1, u) /\ u.root = t1.root /\ u.freeRoot = t1.freeRoot
      /\ u.pghead = t1.pghead /\ u.pglast = t1.pglast /\ u.pgoldest = t1.pgoldest /\ u.next = t1.next
      /\ t1.freed \subseteq u.freed /\ Once(Image(u), u) /\ Records(u) = Records(t1)
      /\ Tree(Image(u), u.root) = Tree(Image(t1), t1.root) /\ LosesNone(t1, u)
      /\ IF t1.pglast > 0 THEN u = t1
         ELSE u.loose = <<>> /\ DOMAIN u.buf = DOMAIN t1.buf \ ToSet(t1.loose)
  BY <1>1, <1>2, FreeLooseOnce
<1>4. ASSUME NEW P \in SUBSET Page, NEW s \in Int, Held(t, P, s) PROVE Held(u, P, s)
  <2>1. Held(t1, P, s)
    BY <1>0, <1>1, <1>4, FreeHeld
  <2> QED
    BY <1>1, <1>2, <2>1, FreeLooseHeld
<1>5. Begun(u) /\ Same(t, u) /\ Fresh(u)
  BY <1>1, <1>3 DEF Begun, Same, Fresh
<1>6. \A i \in DOMAIN Records(t) : 0 < i /\ i # t.id
  BY <1>0 DEF Dated
<1>7. SaveOk(u)
  <2>1. u.pglast = 0 => u.pghead = {} /\ u.loose = <<>>
    BY <1>0, <1>1, <1>2, <1>3 DEF OpenOk
  <2>2. u.pglast > 0 => u.freeRoot \in DOMAIN u.buf /\ u.pglast \in DOMAIN Records(u)
    BY <1>0, <1>1, <1>2, <1>3
  <2>3. \A i \in DOMAIN Records(u) : ~(i <= 0) /\ i # u.id
    BY <1>0, <1>1, <1>3, <1>6 DEF Same
  <2>4. u.dropped = 0 /\ u.headId = 0 /\ u.saved = 0 /\ u.room = 0 /\ u.rounds = 0
    BY <1>5 DEF Fresh
  <2>5. Phase(u, 0, FALSE, FALSE)
    BY <2>3, <2>4 DEF Phase
  <2>6. u.pglast > 0 => u.freeRoot # Invalid
    BY <1>3, <2>2, Bounds, ImageFacts
  <2>7. ~(u.dropped <= -1) /\ u.dropped <= u.pglast /\ u.headId = u.dropped
    BY <1>2, <1>3, <2>4
  <2>8. Dropping(u) => u.pglast \in DOMAIN Records(u)
    BY <1>2, <1>3, <2>2, <2>4 DEF Dropping
  <2>9. /\ \A i \in DOMAIN Records(u) : i <= u.dropped => i = u.dropped /\ Records(u)[i] = {}
        /\ u.id \in DOMAIN Records(u) => Records(u)[u.id] = u.freed
    BY <2>3, <2>4
  <2>10. u.pglast > 0 => IF u.freeRoot = Invalid THEN u.freed # {} ELSE u.freeRoot \in DOMAIN u.buf
    BY <2>2, <2>6
  <2> QED
    BY <2>1, <2>5, <2>7, <2>8, <2>9, <2>10 DEF SaveOk
<1>8. LosesNone(t, u)
  BY <1>1, <1>3 DEF LosesNone
<1> QED
  BY <1>1, <1>3, <1>4, <1>5, <1>7, <1>8 DEF Proceeds, Safe, Same, Fresh

(* A leaf that is owned is touched without a page taken.                   *)
LEMMA OwnedLeaf ==
    ASSUME Shape, NEW t, Begun(t), Once(Image(t), t), t.freeRoot \in DOMAIN t.buf,
           NEW t1, t1 = OwnFree(t)
    PROVE  /\ t1 = [t EXCEPT !.page = t.freeRoot] /\ t1 \in Txns /\ Begun(t1) /\ Noted(t, t1)
           /\ t1.page = t.freeRoot /\ Same(t, t1)
           /\ Once(Image(t1), t1) /\ Records(t1) = Records(t) /\ Image(t1) = Image(t)
           /\ LosesNone(t, t1)
<1>1. t1 = [t EXCEPT !.page = t.freeRoot] /\ Begun(t1) /\ Same(t, t1)
  BY FreeOnce
<1>2. t \in Txns /\ t1 \in Txns
  BY <1>1 DEF Begun
<1>3. t1.page = t.freeRoot /\ Noted(t, t1)
  BY <1>1, <1>2 DEF Txns, Noted
<1> QED
  BY <1>1, <1>2, <1>3, NotedSame

(* The first of the records in use is deleted.                             *)
LEMMA SaveDropProceeds ==
    ASSUME Shape, NEW t, Begun(t), Once(Image(t), t), SaveOk(t), Dated(Records(t), t.id), Dropping(t),
           NEW t1, t1 = OwnFree(t),
           NEW u, u = DropFree(RemoveRecord(t1, First(t1)))
    PROVE  /\ Proceeds(t, u) /\ SaveOk(u) /\ Dated(Records(u), u.id) /\ u.rounds = t.rounds
           /\ Tree(Image(u), u.root) = Tree(Image(t), t.root)
<1> DEFINE R == Records(t)
           m == Min(DOMAIN R)
           w == Rewrite(t1, LessOne(R, m))
           v == RemoveRecord(t1, m)
<1>0. /\ t \in Txns /\ t.id \in 1 .. MaxTxns /\ t.pglast \in Nat /\ t.pglast < t.id
      /\ R \in Recs /\ DOMAIN R \subseteq Ids /\ Ids \subseteq Nat /\ t.dropped \in Ids
  <2>1. t.dropped \in Ids
    BY DEF Begun, Txns
  <2> QED
    BY <2>1, BegunFacts, RecordsType, Bounds
<1>1. /\ t.pglast \in DOMAIN R /\ t.dropped < t.pglast /\ t.freeRoot \in DOMAIN t.buf
      /\ t.freeRoot # Invalid
  <2>1. t.pglast \in DOMAIN R /\ t.dropped < t.pglast /\ t.pglast > 0
    BY <1>0 DEF SaveOk, Dropping
  <2>2. t.freeRoot # Invalid
    BY <2>1, EmptyMaps DEF Records
  <2> QED
    BY <2>1, <2>2 DEF SaveOk
<1>2. m \in DOMAIN R /\ \A i \in DOMAIN R : m <= i
  BY <1>0, <1>1, MinOfSome, Bounds
<1>3. m \in Ids /\ m \in Nat /\ m <= t.pglast /\ m # t.id
  <2>1. m \in Ids /\ m <= t.pglast
    BY <1>0, <1>1, <1>2
  <2>2. m \in Nat
    BY <1>0, <2>1
  <2> HIDE DEF m
  <2> QED
    BY <1>0, <2>1, <2>2
<1>4. /\ t1 = [t EXCEPT !.page = t.freeRoot] /\ t1 \in Txns /\ Begun(t1) /\ Noted(t, t1)
      /\ t1.page = t.freeRoot /\ Same(t, t1)
      /\ Once(Image(t1), t1) /\ Records(t1) = Records(t) /\ Image(t1) = Image(t)
      /\ LosesNone(t, t1)
  BY <1>1, OwnedLeaf
<1>5. First(t1) = m
  BY <1>4 DEF First
<1>6. v = [w EXCEPT !.dropped = m, !.headId = m, !.room = 0] /\ LessOne(R, m) \in Recs
  <2>1. m \in Ids /\ t1 \in Txns /\ Records(t1) = R
    BY <1>3, <1>4
  <2> HIDE DEF m
  <2>2. /\ RemoveRecord(t1, m) = [Rewrite(t1, LessOne(Records(t1), m))
                                     EXCEPT !.dropped = m, !.headId = m, !.room = 0]
        /\ LessOne(Records(t1), m) \in Recs
    BY ZenonT(60), <2>1, RemoveFacts
  <2> QED
    BY ZenonT(60), <2>1, <2>2
<1>7. DOMAIN LessOne(R, m) = DOMAIN R \ {m} /\ \A i \in DOMAIN R \ {m} : LessOne(R, m)[i] = R[i]
  BY DEF LessOne
<1>8. t1.freeRoot \in DOMAIN t1.buf /\ t1.pglast = t.pglast /\ t1.id = t.id /\ t1.root = t.root
  BY <1>1, <1>4 DEF Noted
<1> HIDE DEF m
<1>9. /\ w \in Txns /\ w = [t1 EXCEPT !.buf = w.buf] /\ DOMAIN w.buf = DOMAIN t1.buf
      /\ Records(w) = LessOne(R, m)
      /\ \A p \in Page : p # t1.freeRoot => At(w, p) = At(t1, p)
      /\ TreePages(Image(w), w.root) = TreePages(Image(t1), t1.root)
      /\ Tree(Image(w), w.root) = Tree(Image(t1), t1.root)
      /\ Branching(Image(w), w.root)
  BY <1>4, <1>6, <1>8, RewriteFacts
<1>10. \A i \in DOMAIN LessOne(R, m) :
          t1.pglast < i /\ i # t1.id => i \in DOMAIN Records(t1) /\ LessOne(R, m)[i] = Records(t1)[i]
  BY <1>4, <1>7
<1>11. Once(Image(w), w)
  BY ZenonT(60), <1>4, <1>6, <1>8, <1>10, RewriteOnce
<1>12. LosesNone(t1, w)
  <2>1. \A i \in DOMAIN Records(t1) :
           t1.pglast < i /\ i # t1.id => i \in DOMAIN LessOne(R, m) /\ LessOne(R, m)[i] = Records(t1)[i]
    <3> TAKE i \in DOMAIN Records(t1)
    <3>1. i \in Int
      BY <1>0, <1>4
    <3>2. t1.pglast < i => i # m
      BY <1>0, <1>3, <1>8, <3>1
    <3> QED
      BY <1>4, <1>7, <3>2
  <2> QED
    BY <1>4, <1>6, <1>8, <2>1, RewriteAll DEF w
<1>13. u = DropFree(v)
  BY <1>5
<1> HIDE DEF v, w
<1>14. v \in Txns /\ Noted(w, v) /\ v.dropped = m /\ v.headId = m /\ v.room = 0
       /\ v.saved = w.saved /\ v.rounds = w.rounds /\ v.more = w.more
  <2> DEFINE x == [w EXCEPT !.dropped = m]
               y == [x EXCEPT !.headId = m]
               z == [y EXCEPT !.room = 0]
  <2>2. v = z
    BY <1>6
  <2>3. x \in Txns /\ Noted(w, x) /\ x.dropped = m /\ x.saved = w.saved /\ x.rounds = w.rounds
        /\ x.more = w.more
    BY <1>3, <1>9 DEF Txns, Noted
  <2> HIDE DEF x
  <2>4. y \in Txns /\ Noted(x, y) /\ y.dropped = x.dropped /\ y.headId = m /\ y.saved = x.saved
        /\ y.rounds = x.rounds /\ y.more = x.more
    BY ZenonT(60), <1>3, <2>3 DEF Txns, Noted
  <2> HIDE DEF y
  <2>5. z \in Txns /\ Noted(y, z) /\ z.dropped = y.dropped /\ z.headId = y.headId /\ z.room = 0
        /\ z.saved = y.saved /\ z.rounds = y.rounds /\ z.more = y.more
    BY SMTT(40), <2>4 DEF Txns, Noted
  <2> HIDE DEF z
  <2> QED
    BY <2>2, <2>3, <2>4, <2>5 DEF Noted
<1>15. /\ Image(v) = Image(w) /\ Records(v) = Records(w) /\ Once(Image(v), v)
       /\ LosesNone(w, v)
  BY <1>9, <1>11, <1>14, NotedSame
<1>16. /\ w.id = t1.id /\ w.noMetaSync = t1.noMetaSync /\ w.error = t1.error /\ w.root = t1.root
       /\ w.freeRoot = t1.freeRoot /\ w.pghead = t1.pghead /\ w.pglast = t1.pglast
       /\ w.pgoldest = t1.pgoldest /\ w.freed = t1.freed /\ w.loose = t1.loose
       /\ w.saved = t1.saved /\ w.rounds = t1.rounds /\ w.more = t1.more /\ w.next = t1.next
  BY ZenonT(60), <1>4, <1>9 DEF Txns
<1>17. v.freeRoot \in DOMAIN v.buf
  BY <1>8, <1>9, <1>14, <1>16 DEF Noted
<1>18. /\ u \in Txns /\ Same(v, u) /\ u.root = v.root
       /\ u.pghead = v.pghead /\ u.pglast = v.pglast /\ u.pgoldest = v.pgoldest
       /\ u.next = v.next /\ u.loose = v.loose /\ u.buf = v.buf
       /\ Once(Image(u), u) /\ DOMAIN Records(u) = DOMAIN Records(v)
       /\ \A i \in DOMAIN Records(v) : Records(u)[i] = Records(v)[i]
       /\ Tree(Image(u), u.root) = Tree(Image(v), v.root) /\ LosesNone(v, u)
       /\ IF DOMAIN Records(v) = {} THEN u.freeRoot = Invalid /\ u.freed = v.freed \cup {v.freeRoot}
          ELSE u = v
  BY <1>13, <1>14, <1>15, <1>17, DropFreeOnce
<1>19. ASSUME NEW P \in SUBSET Page, NEW s \in Int, Held(t, P, s) PROVE Held(u, P, s)
  <2>1. Held(t1, P, s)
    BY <1>4, <1>19, NotedHeld, <1>0
  <2>2. Held(w, P, s)
    BY ZenonT(60), <1>4, <1>6, <1>8, <1>10, <2>1, RewriteHeld DEF w
  <2>3. Held(v, P, s)
    BY <1>9, <1>14, <2>2, NotedHeld
  <2> QED
    BY <1>13, <1>14, <1>15, <1>17, <2>3, DropFreeHeld
<1>20. u.id = t.id /\ u.noMetaSync = t.noMetaSync /\ u.error = t.error /\ u.root = t.root
       /\ u.pglast = t.pglast /\ u.pgoldest = t.pgoldest /\ u.pghead = t.pghead /\ u.loose = t.loose
       /\ u.dropped = m /\ u.headId = m /\ u.room = 0 /\ u.saved = t.saved /\ u.rounds = t.rounds
  BY <1>4, <1>8, <1>14, <1>16, <1>18 DEF Noted, Same
<1>21. /\ DOMAIN Records(u) = DOMAIN R \ {m}
       /\ \A i \in DOMAIN R \ {m} : Records(u)[i] = R[i]
  BY <1>7, <1>9, <1>15, <1>18
<1>22. Begun(u)
  BY <1>18, <1>20 DEF Begun
<1>23. Dated(Records(u), u.id)
  BY <1>20, <1>21 DEF Dated
<1>24. Tree(Image(u), u.root) = Tree(Image(t), t.root)
  BY <1>4, <1>9, <1>14, <1>15, <1>16, <1>18, <1>8 DEF Noted
<1>25. IF u.freeRoot = Invalid THEN u.freed # {} ELSE u.freeRoot \in DOMAIN u.buf
  <2>1. CASE DOMAIN Records(v) = {}
    BY <1>18, <2>1
  <2>2. CASE DOMAIN Records(v) # {}
    <3>1. u = v
      BY <1>18, <2>2
    <3>2. v.freeRoot # Invalid
      BY <2>2, EmptyMaps DEF Records
    <3> QED
      BY <1>17, <3>1, <3>2
  <2> QED
    BY <2>1, <2>2
<1>26. /\ t.id \in DOMAIN R => u.freed = t.freed /\ u.freeRoot = t.freeRoot
                              /\ u.freeRoot \in DOMAIN u.buf /\ t.id \in DOMAIN Records(u)
  <2>1. ASSUME t.id \in DOMAIN R PROVE u = v /\ t.id \in DOMAIN Records(u)
    <3>1. t.id \in DOMAIN R \ {m}
      BY <1>3, <2>1
    <3>2. t.id \in DOMAIN Records(v)
      BY <1>7, <1>9, <1>15, <3>1
    <3> QED
      BY <1>18, <1>21, <3>1, <3>2
  <2> QED
    BY <2>1, <1>4, <1>14, <1>16, <1>17 DEF Noted
<1>27. SaveOk(u)
  <2>1. u.pglast = 0 => u.pghead = {} /\ u.loose = <<>>
    BY <1>20 DEF SaveOk
  <2>2. u.dropped <= u.pglast /\ u.headId = u.dropped
    BY <1>3, <1>20
  <2>3. Dropping(u) => u.pglast \in DOMAIN Records(u)
    BY <1>1, <1>3, <1>20, <1>21 DEF Dropping
  <2>4. \A i \in DOMAIN Records(u) : ~(i <= u.dropped)
    <3> TAKE i \in DOMAIN Records(u)
    <3>2. i \in DOMAIN R /\ i # m /\ i \in Nat
      BY <1>0, <1>21
    <3>3. m <= i
      BY <1>2, <3>2
    <3> QED
      BY <1>3, <1>20, <3>2, <3>3
  <2>5. u.id \in DOMAIN Records(u) => Records(u)[u.id] = u.freed
    <3>1. ASSUME u.id \in DOMAIN Records(u) PROVE t.id \in DOMAIN R /\ Records(u)[u.id] = R[t.id]
      BY <1>20, <1>21, <3>1
    <3> QED
      BY <1>20, <1>26, <3>1 DEF SaveOk
  <2>6. ASSUME Phase(t, 0, FALSE, FALSE) PROVE Phase(u, 0, FALSE, FALSE)
    <3>1. t.id \notin DOMAIN Records(u)
      BY <1>21, <2>6 DEF Phase
    <3> QED
      BY <1>20, <2>6, <3>1 DEF Phase
  <2>7. ASSUME Phase(t, 1, TRUE, FALSE) PROVE Phase(u, 1, TRUE, FALSE)
    BY <1>20, <1>26, <2>7 DEF Phase
  <2>8. Phase(t, 0, FALSE, FALSE) \/ Phase(t, 1, TRUE, FALSE)
    BY DEF SaveOk, Phase
  <2> QED
    BY <1>25, <2>1, <2>2, <2>3, <2>4, <2>5, <2>6, <2>7, <2>8 DEF SaveOk
<1>28. LosesNone(t, u)
  BY <1>4, <1>15, <1>18, <1>12 DEF LosesNone
<1> QED
  BY <1>18, <1>19, <1>20, <1>22, <1>23, <1>24, <1>27, <1>28 DEF Proceeds, Safe

(* The leaf made the transaction's and rewritten with one record more,     *)
(* which is none the transaction may still read.                           *)
LEMMA RecordProceeds ==
    ASSUME Shape, NEW t, Begun(t), Once(Image(t), t), Dated(Records(t), t.id),
           NEW t1, t1 = OwnFree(t), t1.page # Invalid,
           NEW id \in 1 .. MaxTxns, id <= t.pglast \/ id = t.id, NEW pages \in SUBSET Page,
           NEW v, v = Record(t1, id, pages), NEW u \in Txns, Noted(v, u)
    PROVE  /\ Proceeds(t, u) /\ Dated(Records(u), u.id)
           /\ Tree(Image(u), u.root) = Tree(Image(t), t.root)
           /\ Records(u) = With(Records(t), id, pages)
           /\ Further(t, u) /\ u.freeRoot \in DOMAIN u.buf /\ u.freeRoot # Invalid
           /\ u.freed = t1.freed /\ u.pghead = t1.pghead /\ u.loose = t1.loose
           /\ Same(t, v)
<1>0. /\ t \in Txns /\ t.id \in 1 .. MaxTxns /\ t.pglast \in Nat /\ t.pglast < t.id
      /\ Records(t) \in Recs /\ DOMAIN Records(t) \subseteq Ids /\ Ids \subseteq Nat /\ id \in Ids
  BY BegunFacts, RecordsType, Bounds
<1>1. /\ Begun(t1) /\ Same(t, t1) /\ Further(t, t1)
      /\ t1.root = t.root /\ t.freed \subseteq t1.freed
      /\ \A q \in DOMAIN t.buf : q \in DOMAIN t1.buf
      /\ Once(Image(t1), t1) /\ Alike(t, t1) /\ LosesNone(t, t1)
      /\ t1.freeRoot = t1.page /\ t1.freeRoot \in DOMAIN t1.buf /\ t1.freeRoot \in Page
  BY FreeOnce
<1>2. t1 \in Txns /\ t1.pglast \in Nat /\ t.pglast <= t1.pglast
  BY <1>0, <1>1, BegunFacts DEF Further
<1>3. Records(t1) = Records(t) /\ Tree(Image(t1), t1.root) = Tree(Image(t), t.root) /\ t1.id = t.id
  BY <1>1 DEF Alike, Same
<1> DEFINE R == With(Records(t), id, pages)
<1>4. v = Rewrite(t1, R) /\ R \in Recs
  BY <1>0, <1>2, <1>3, RecordFacts
<1>5. \A i \in DOMAIN R : i = id \/ (i \in DOMAIN Records(t) /\ R[i] = Records(t)[i])
  BY DEF With
<1>6. DOMAIN R = DOMAIN Records(t) \cup {id}
  BY DEF With
<1>7. \A i \in DOMAIN Records(t) : i # id => R[i] = Records(t)[i]
  BY DEF With
<1> HIDE DEF R
<1>8. \A i \in DOMAIN R : t1.pglast < i /\ i # t1.id => i \in DOMAIN Records(t1) /\ R[i] = Records(t1)[i]
  <2> TAKE i \in DOMAIN R
  <2>1. ASSUME t1.pglast < i, i # t1.id PROVE i # id
    BY <1>0, <1>2, <1>3, <2>1
  <2> QED
    BY <1>3, <1>5, <2>1
<1>9. /\ v \in Txns /\ v = [t1 EXCEPT !.buf = v.buf] /\ DOMAIN v.buf = DOMAIN t1.buf
      /\ Records(v) = R
      /\ \A p \in Page : p # t1.freeRoot => At(v, p) = At(t1, p)
      /\ TreePages(Image(v), v.root) = TreePages(Image(t1), t1.root)
      /\ Tree(Image(v), v.root) = Tree(Image(t1), t1.root)
      /\ Branching(Image(v), v.root)
  BY <1>1, <1>2, <1>4, RewriteFacts
<1>10. Once(Image(v), v)
  BY <1>1, <1>2, <1>4, <1>8, RewriteOnce
<1>11. LosesNone(t1, v)
  <2>1. \A i \in DOMAIN Records(t1) :
           t1.pglast < i /\ i # t1.id => i \in DOMAIN R /\ R[i] = Records(t1)[i]
    <3> TAKE i \in DOMAIN Records(t1)
    <3>1. i \in Nat
      BY <1>0, <1>3
    <3>2. ASSUME t1.pglast < i, i # t1.id PROVE i # id
      BY <1>0, <1>2, <1>3, <3>1, <3>2
    <3> QED
      BY <1>3, <1>6, <1>7, <3>2
  <2> QED
    BY <1>1, <1>2, <1>4, <2>1, RewriteAll
<1>12. /\ v.id = t1.id /\ v.noMetaSync = t1.noMetaSync /\ v.error = t1.error /\ v.root = t1.root
       /\ v.freeRoot = t1.freeRoot /\ v.pghead = t1.pghead /\ v.pglast = t1.pglast
       /\ v.pgoldest = t1.pgoldest /\ v.freed = t1.freed /\ v.loose = t1.loose
  BY ZenonT(60), <1>2, <1>9 DEF Txns
<1>13. Same(t1, v)
  BY ZenonT(60), <1>2, <1>9 DEF Txns, Same
<1>14. Image(u) = Image(v) /\ Records(u) = Records(v) /\ Once(Image(u), u) /\ LosesNone(v, u)
  BY <1>9, <1>10, NotedSame
<1>15. ASSUME NEW P \in SUBSET Page, NEW s \in Int, Held(t, P, s) PROVE Held(u, P, s)
  <2>1. Held(t1, P, s)
    BY <1>15, FreeHeld
  <2>2. Held(v, P, s)
    BY <1>1, <1>2, <1>4, <1>8, <2>1, RewriteHeld
  <2> QED
    BY <1>9, <2>2, NotedHeld
<1>16. Begun(u)
  BY <1>1, <1>12 DEF Begun, Noted
<1>17. u.id = t.id /\ u.noMetaSync = t.noMetaSync /\ u.error = t.error
  BY <1>1, <1>12 DEF Noted, Same
<1>18. Dated(Records(u), u.id)
  <2>1. \A i \in DOMAIN R : 0 < i /\ i <= t.id
    BY <1>0, <1>6 DEF Dated
  <2> QED
    BY <1>9, <1>14, <1>17, <2>1 DEF Dated
<1>19. Tree(Image(u), u.root) = Tree(Image(t), t.root)
  BY <1>3, <1>9, <1>12, <1>14 DEF Noted
<1>20. Further(t, u)
  BY <1>1, <1>12 DEF Further, Noted
<1>21. u.freeRoot \in DOMAIN u.buf /\ u.freeRoot # Invalid
  BY <1>1, <1>9, <1>12, Bounds DEF Noted
<1>22. Same(t, v)
  BY <1>1, <1>13 DEF Same
<1>23. LosesNone(t, u)
  BY <1>1, <1>14, <1>11 DEF LosesNone
<1> QED
  BY <1>9, <1>12, <1>14, <1>15, <1>16, <1>17, <1>18, <1>19, <1>20, <1>21, <1>22, <1>23
  DEF Proceeds, Safe, Noted, R

(* The record of the pages the transaction freed.                          *)
LEMMA SaveFreedProceeds ==
    ASSUME Shape, NEW t, Begun(t), Once(Image(t), t), SaveOk(t), Dated(Records(t), t.id),
           ~Dropping(t), Unsaved(t), NEW t1, t1 = OwnFree(t), t1.page # Invalid,
           NEW u, u = [Record(t1, t1.id, t1.freed) EXCEPT !.saved = Cardinality(t1.freed),
                                                          !.rounds = @ + 1]
    PROVE  /\ Proceeds(t, u) /\ SaveOk(u) /\ Dated(Records(u), u.id) /\ u.rounds <= 2
           /\ Tree(Image(u), u.root) = Tree(Image(t), t.root)
<1> DEFINE v == Record(t1, t1.id, t1.freed)
           c == Cardinality(t1.freed)
<1>0. /\ t \in Txns /\ t.id \in 1 .. MaxTxns /\ t.pglast \in Nat /\ t.pglast < t.id
      /\ t.freed \in SUBSET Page /\ t.saved \in Nat /\ t.dropped \in Ids /\ Ids \subseteq Nat
      /\ DOMAIN Records(t) \subseteq Nat
  <2>1. /\ t \in Txns /\ t.id \in 1 .. MaxTxns /\ t.pglast \in Nat /\ t.pglast < t.id
        /\ DOMAIN Records(t) \subseteq Ids /\ Ids \subseteq Nat
    BY BegunFacts, RecordsType, Bounds
  <2>2. t.freed \in SUBSET Page /\ t.saved \in Nat /\ t.dropped \in Ids
    BY <2>1 DEF Txns
  <2> QED
    BY <2>1, <2>2
<1>1. Phase(t, 0, FALSE, FALSE)
  <2>1. Cardinality(t.freed) \in Nat /\ (t.freed = {} => Cardinality(t.freed) = 0)
    BY <1>0, Sizes
  <2> QED
    BY <1>0, <2>1 DEF SaveOk, Phase, Unsaved
<1>2. Begun(t1) /\ t1.id = t.id
  BY FreeOnce DEF Same
<1>3. t1 \in Txns /\ t1.freed \in SUBSET Page /\ t1.id \in Ids /\ c \in Nat
  BY <1>2, Sizes DEF Begun, Txns
<1>4. v \in Txns
  <2>1. t1.freeRoot \in DOMAIN t1.buf /\ Once(Image(t1), t1)
    BY FreeOnce
  <2>2. v = Rewrite(t1, With(Records(t1), t1.id, t1.freed)) /\ With(Records(t1), t1.id, t1.freed) \in Recs
    BY <1>3, RecordFacts
  <2> HIDE DEF v
  <2> QED
    BY <1>3, <2>1, <2>2, RewriteFacts
<1> HIDE DEF v, c
<1>5. /\ u \in Txns /\ Noted(v, u) /\ u.saved = c /\ u.rounds = v.rounds + 1
      /\ u.dropped = v.dropped /\ u.headId = v.headId /\ u.room = v.room
  <2> DEFINE x == [v EXCEPT !.saved = c]
             y == [x EXCEPT !.rounds = x.rounds + 1]
  <2>1. u = y
    BY <1>4 DEF v, c, Txns
  <2>2. x \in Txns /\ Noted(v, x) /\ x.saved = c /\ x.rounds = v.rounds /\ x.dropped = v.dropped
        /\ x.headId = v.headId /\ x.room = v.room
    BY ZenonT(60), <1>3, <1>4 DEF Txns, Noted
  <2> HIDE DEF x
  <2>3. y \in Txns /\ Noted(x, y) /\ y.saved = x.saved /\ y.rounds = x.rounds + 1 /\ y.dropped = x.dropped
        /\ y.headId = x.headId /\ y.room = x.room
    BY SMTT(40), <2>2 DEF Txns, Noted
  <2> HIDE DEF y
  <2> QED
    BY ZenonT(60), <2>1, <2>2, <2>3 DEF Noted
<1>6. v = Record(t1, t.id, t1.freed)
  BY <1>2 DEF v
<1>7. /\ Proceeds(t, u) /\ Dated(Records(u), u.id)
      /\ Tree(Image(u), u.root) = Tree(Image(t), t.root)
      /\ Records(u) = With(Records(t), t.id, t1.freed)
      /\ Further(t, u) /\ u.freeRoot \in DOMAIN u.buf /\ u.freeRoot # Invalid
      /\ u.freed = t1.freed /\ u.pghead = t1.pghead /\ u.loose = t1.loose
      /\ Same(t, v)
  <2>1. ASSUME NEW z \in Txns, Noted(v, z)
        PROVE  /\ Proceeds(t, z) /\ Dated(Records(z), z.id)
               /\ Tree(Image(z), z.root) = Tree(Image(t), t.root)
               /\ Records(z) = With(Records(t), t.id, t1.freed)
               /\ Further(t, z) /\ z.freeRoot \in DOMAIN z.buf /\ z.freeRoot # Invalid
               /\ z.freed = t1.freed /\ z.pghead = t1.pghead /\ z.loose = t1.loose
               /\ Same(t, v)
    <3>1. t.id <= t.pglast \/ t.id = t.id
      OBVIOUS
    <3> QED
      BY <1>0, <1>3, <1>6, <2>1, <3>1, RecordProceeds
  <2> QED
    BY <1>5, <2>1
<1>8. /\ t.id \in DOMAIN Records(u) /\ Records(u)[t.id] = u.freed
      /\ \A i \in DOMAIN Records(u) : i = t.id \/ (i \in DOMAIN Records(t) /\ Records(u)[i] = Records(t)[i])
      /\ DOMAIN Records(t) \subseteq DOMAIN Records(u)
  BY <1>7 DEF With
<1>9. u.rounds = 1 /\ u.room = 0 /\ u.dropped = t.dropped /\ u.headId = t.headId /\ u.id = t.id
      /\ u.saved = Cardinality(u.freed)
  BY <1>1, <1>5, <1>7 DEF Same, Phase, Proceeds, c
<1>10. u.pglast \in Nat
  BY <1>7, BegunFacts DEF Proceeds
<1>11. SaveOk(u)
  <2>1. u.pglast = 0 => u.pghead = {} /\ u.loose = <<>>
    BY <1>0, <1>7, <1>10 DEF Further, SaveOk
  <2>2. u.dropped <= u.pglast /\ u.headId = u.dropped
    BY SMTT(40), <1>0, <1>7, <1>9, <1>10 DEF Further, SaveOk
  <2>3. Dropping(u) => u.pglast \in DOMAIN Records(u)
    BY <1>0, <1>7, <1>8, <1>9, <1>10 DEF Further, Dropping
  <2>4. \A i \in DOMAIN Records(u) : i <= u.dropped => i = u.dropped /\ Records(u)[i] = {}
    <3> SUFFICES ASSUME NEW i \in DOMAIN Records(u), i <= u.dropped
                 PROVE  i = u.dropped /\ Records(u)[i] = {}
      OBVIOUS
    <3>1. t.dropped <= t.pglast
      BY DEF SaveOk
    <3>2. i # t.id
      BY <1>0, <1>9, <3>1
    <3> QED
      BY <1>8, <1>9, <3>2 DEF SaveOk
  <2>5. Phase(u, 1, TRUE, FALSE)
    BY <1>7, <1>8, <1>9 DEF Phase
  <2> QED
    BY ZenonT(60), <1>7, <1>8, <1>9, <2>1, <2>2, <2>3, <2>4, <2>5 DEF SaveOk
<1> QED
  BY <1>7, <1>9, <1>11

(* Room for the pages left over.                                           *)
LEMMA SaveReserveProceeds ==
    ASSUME Shape, NEW t, t = txn, Begun(t), Once(Image(t), t), SaveOk(t), Dated(Records(t), t.id),
           ~Dropping(t), ~Unsaved(t), ~Settled(t), NEW t1, t1 = OwnFree(t), t1.page # Invalid,
           NEW u, u = Reserve(t1)
    PROVE  /\ Proceeds(t, u) /\ SaveOk(u) /\ Dated(Records(u), u.id) /\ u.rounds <= 2
           /\ Tree(Image(u), u.root) = Tree(Image(t), t.root)
<1> DEFINE v == Record(t1, t1.headId, {})
           n == LeftOver(t)
           m == IF t.room > n THEN v.more - 1 ELSE v.more
<1>0. /\ t \in Txns /\ t.id \in 1 .. MaxTxns /\ t.pglast \in Nat /\ t.pglast < t.id
      /\ t.freed \in SUBSET Page /\ t.saved \in Nat /\ t.dropped \in Nat /\ t.headId \in Ids
      /\ DOMAIN Records(t) \subseteq Nat /\ n \in Nat /\ t.room \in Int /\ t.rounds \in Nat
  <2>1. /\ t \in Txns /\ t.id \in 1 .. MaxTxns /\ t.pglast \in Nat /\ t.pglast < t.id
        /\ DOMAIN Records(t) \subseteq Ids /\ Ids \subseteq Nat
    BY BegunFacts, RecordsType, Bounds
  <2>2. t.freed \in SUBSET Page /\ t.saved \in Nat /\ t.dropped \in Ids /\ t.headId \in Ids
        /\ t.room \in Int /\ t.rounds \in Nat
    BY <2>1 DEF Txns
  <2> QED
    BY <2>1, <2>2, Sizes
<1>1. /\ t.room = 0 /\ n # 0 /\ t.pglast > 0 /\ t.headId = t.pglast /\ t.dropped = t.pglast
      /\ t.pglast <= MaxTxns
      /\ Phase(t, 0, FALSE, FALSE) \/ Phase(t, 1, TRUE, FALSE)
  <2>1. Phase(t, 0, FALSE, FALSE) \/ Phase(t, 1, TRUE, FALSE)
    BY DEF SaveOk, Phase, Settled
  <2>2. t.room = 0 /\ n # 0
    BY <2>1 DEF Phase, Settled
  <2>3. t.pglast = 0 => n = 0
    <3>1. t.pglast = 0 => t.pghead = {} /\ t.loose = <<>>
      BY DEF SaveOk
    <3>2. Cardinality({}) = 0 /\ Len(<<>>) = 0
      BY FS_EmptySet
    <3>3. n = Cardinality(t.pghead) + Len(t.loose)
      BY DEF LeftOver
    <3>4. ASSUME t.pglast = 0 PROVE n = 0 + 0
      BY <3>1, <3>2, <3>3, <3>4
    <3> QED
      BY <3>4
  <2>4. t.headId = t.pglast /\ t.dropped = t.pglast
    BY <1>0 DEF SaveOk, Dropping
  <2> QED
    <3> HIDE DEF n
    <3>1. t.pglast > 0 /\ t.pglast <= MaxTxns
      BY SMTT(40), <1>0, <2>2, <2>3, Bounds
    <3> QED
      BY <2>1, <2>2, <2>4, <3>1
<1>2. Phase(t, 0, FALSE, FALSE) => t.freed = {}
  <2>1. ASSUME Phase(t, 0, FALSE, FALSE) PROVE t.saved = 0
    BY <2>1 DEF Phase
  <2>2. Cardinality(t.freed) \in Nat /\ (Cardinality(t.freed) = 0 <=> t.freed = {})
    BY <1>0, Sizes
  <2> QED
    BY <2>1, <2>2 DEF Unsaved
<1>3. t.freeRoot \in DOMAIN t.buf
  <2>1. Phase(t, 1, TRUE, FALSE) => t.freeRoot \in DOMAIN t.buf
    BY DEF Phase
  <2>2. Phase(t, 0, FALSE, FALSE) => t.freeRoot # Invalid
    BY <1>1, <1>2 DEF SaveOk
  <2> QED
    BY <1>1, <2>1, <2>2 DEF SaveOk
<1>4. /\ t1 = [t EXCEPT !.page = t.freeRoot] /\ t1 \in Txns /\ Begun(t1) /\ Noted(t, t1)
      /\ t1.page = t.freeRoot /\ Same(t, t1)
      /\ Once(Image(t1), t1) /\ Records(t1) = Records(t) /\ Image(t1) = Image(t)
  BY <1>3, OwnedLeaf
<1>5. t1.headId = t.headId /\ t1.freeRoot \in DOMAIN t1.buf
  BY <1>3, <1>4 DEF Same, Noted
<1>6. v \in Txns
  <2>1. v = Rewrite(t1, With(Records(t1), t1.headId, {})) /\ With(Records(t1), t1.headId, {}) \in Recs
    BY <1>0, <1>4, <1>5, RecordFacts
  <2> HIDE DEF v
  <2> QED
    BY <1>4, <1>5, <2>1, RewriteFacts
<1>7. v = Record(t1, t.headId, {})
  BY <1>5
<1>8. m \in Int
  BY <1>6 DEF Txns
<1>9. u = [v EXCEPT !.room = n, !.more = m, !.rounds = v.rounds + 1]
  BY <1>6 DEF Reserve, Txns
<1> HIDE DEF v, n, m
<1>10. /\ u \in Txns /\ Noted(v, u) /\ u.saved = v.saved /\ u.rounds = v.rounds + 1
       /\ u.dropped = v.dropped /\ u.headId = v.headId /\ u.room = n
  <2> DEFINE x == [v EXCEPT !.room = n]
             y == [x EXCEPT !.more = m]
             z == [y EXCEPT !.rounds = x.rounds + 1]
  <2>1. u = z
    BY <1>6, <1>9 DEF Txns
  <2>2. x \in Txns /\ Noted(v, x) /\ x.saved = v.saved /\ x.rounds = v.rounds /\ x.dropped = v.dropped
        /\ x.headId = v.headId /\ x.room = n
    <3>1. n \in Int
      BY <1>0
    <3>2. x \in Txns /\ x.room = n
      BY <1>6, <3>1 DEF Txns
    <3>3. Noted(v, x) /\ x.saved = v.saved /\ x.rounds = v.rounds /\ x.dropped = v.dropped
          /\ x.headId = v.headId
      BY <1>6 DEF Txns, Noted
    <3> QED
      BY <3>2, <3>3
  <2> HIDE DEF x
  <2>3. y \in Txns /\ Noted(x, y) /\ y.saved = x.saved /\ y.rounds = x.rounds /\ y.dropped = x.dropped
        /\ y.headId = x.headId /\ y.room = x.room
    BY <1>8, <2>2 DEF Txns, Noted
  <2> HIDE DEF y
  <2>4. z \in Txns /\ Noted(y, z) /\ z.saved = y.saved /\ z.rounds = x.rounds + 1 /\ z.dropped = y.dropped
        /\ z.headId = y.headId /\ z.room = y.room
    <3>1. x.rounds + 1 \in Nat
      BY <2>2 DEF Txns
    <3>2. z \in Txns /\ z.rounds = x.rounds + 1
      BY <2>3, <3>1 DEF Txns
    <3>3. Noted(y, z) /\ z.saved = y.saved /\ z.dropped = y.dropped
          /\ z.headId = y.headId /\ z.room = y.room
      BY <2>3 DEF Txns, Noted
    <3> QED
      BY <3>2, <3>3
  <2> HIDE DEF z
  <2> QED
    BY <2>1, <2>2, <2>3, <2>4 DEF Noted
<1>11. /\ Proceeds(t, u) /\ Dated(Records(u), u.id)
       /\ Tree(Image(u), u.root) = Tree(Image(t), t.root)
       /\ Records(u) = With(Records(t), t.headId, {})
       /\ Further(t, u) /\ u.freeRoot \in DOMAIN u.buf /\ u.freeRoot # Invalid
       /\ u.freed = t1.freed /\ u.pghead = t1.pghead /\ u.loose = t1.loose
       /\ Same(t, v)
  <2>1. ASSUME NEW z \in Txns, Noted(v, z)
        PROVE  /\ Proceeds(t, z) /\ Dated(Records(z), z.id)
               /\ Tree(Image(z), z.root) = Tree(Image(t), t.root)
               /\ Records(z) = With(Records(t), t.headId, {})
               /\ Further(t, z) /\ z.freeRoot \in DOMAIN z.buf /\ z.freeRoot # Invalid
               /\ z.freed = t1.freed /\ z.pghead = t1.pghead /\ z.loose = t1.loose
               /\ Same(t, v)
    <3>1. t.headId <= t.pglast /\ t.headId \in 1 .. MaxTxns /\ {} \in SUBSET Page
      BY <1>0, <1>1, Bounds
    <3> QED
      BY <1>7, <2>1, <3>1, RecordProceeds
  <2> QED
    BY <1>10, <2>1
<1>12. /\ u.pglast = t.pglast /\ u.pghead = t.pghead /\ u.loose = t.loose /\ u.freed = t.freed
       /\ u.dropped = t.dropped /\ u.headId = t.headId /\ u.id = t.id /\ u.saved = t.saved
       /\ u.room = LeftOver(u) /\ u.rounds = t.rounds + 1
  <2>1. u.pghead = t.pghead /\ u.loose = t.loose /\ u.freed = t.freed
    BY SMTT(40), <1>4, <1>11 DEF Noted
  <2>2. v.pglast = t1.pglast
    BY ZenonT(60), <1>4, <1>6 DEF v, Record, SetPage, Txns
  <2>3. u.pglast = t.pglast
    BY <1>4, <1>10, <2>2 DEF Noted
  <2>4. u.dropped = t.dropped /\ u.headId = t.headId /\ u.id = t.id /\ u.saved = t.saved
        /\ u.rounds = t.rounds + 1 /\ u.room = n
    BY <1>10, <1>11 DEF Same, Noted
  <2>5. n = LeftOver(u)
    BY <2>1 DEF n, LeftOver
  <2> QED
    BY <2>1, <2>3, <2>4, <2>5
<1>13. /\ DOMAIN Records(u) = DOMAIN Records(t) \cup {t.headId} /\ Records(u)[t.headId] = {}
       /\ \A i \in DOMAIN Records(u) : i # t.headId => Records(u)[i] = Records(t)[i]
  BY <1>11 DEF With
<1>14. t.headId # t.id
  BY <1>0, <1>1
<1>15. SaveOk(u)
  <2>1. u.pglast = 0 => u.pghead = {} /\ u.loose = <<>>
    BY <1>12 DEF SaveOk
  <2>2. u.dropped <= u.pglast /\ u.headId = u.dropped
    BY <1>0, <1>1, <1>12
  <2>3. ~Dropping(u)
    BY <1>0, <1>1, <1>12 DEF Dropping
  <2>4. \A i \in DOMAIN Records(u) : i <= u.dropped => i = u.dropped /\ Records(u)[i] = {}
    <3> SUFFICES ASSUME NEW i \in DOMAIN Records(u), i <= u.dropped
                 PROVE  i = u.dropped /\ Records(u)[i] = {}
      OBVIOUS
    <3> QED
      BY <1>1, <1>12, <1>13 DEF SaveOk
  <2>5. u.id \in DOMAIN Records(u) => u.id \in DOMAIN Records(t) /\ Records(u)[u.id] = u.freed
    BY <1>12, <1>13, <1>14 DEF SaveOk
  <2>6. Phase(t, 0, FALSE, FALSE) => Phase(u, 1, FALSE, TRUE)
    BY <1>2, <1>11, <1>12, <1>13, <1>14, <2>3 DEF Phase
  <2>7. Phase(t, 1, TRUE, FALSE) => Phase(u, 2, TRUE, TRUE)
    BY <1>11, <1>12, <1>13, <1>14, <2>3 DEF Phase
  <2> QED
    BY <1>1, <1>11, <2>1, <2>2, <2>3, <2>4, <2>5, <2>6, <2>7 DEF SaveOk
<1>16. u.rounds <= 2
  BY <1>1, <1>12 DEF Phase
<1> QED
  BY <1>11, <1>15, <1>16

(* The end of mdb_freelist_save: the pages the commit writes have none in  *)
(* two places, and those kept from the transaction are kept from the next. *)
LEMMA FillProceeds ==
    ASSUME Shape, NEW t, Begun(t), Once(Image(t), t), SaveOk(t), Dated(Records(t), t.id), Saved(t),
           Missing(Image(t), t) = {},
           NEW u, u = Fill(t, t.pghead \cup ToSet(t.loose))
    PROVE  /\ u \in Txns /\ u.id = t.id /\ u.noMetaSync = t.noMetaSync /\ u.error = t.error
           /\ u.pglast = t.pglast /\ u.pgoldest = t.pgoldest
           /\ u.rounds = t.rounds
           /\ DOMAIN u.buf \subseteq DOMAIN t.buf
           /\ Whole(Image(u), MetaFor(u))
           /\ Tree(Image(u), u.root) = Tree(Image(t), t.root)
           /\ \A P \in SUBSET Page, s \in Int : Held(t, P, s) /\ s <= t.id =>
                 Keeps(Image(u), Opening(MetaFor(u)), P, s)
<1>0. /\ t \in Txns /\ t.id \in 1 .. MaxTxns /\ t.pglast \in Nat /\ t.pglast < t.id
      /\ t.freed \in SUBSET Page /\ t.saved \in Nat /\ t.dropped \in Nat
      /\ DOMAIN Records(t) \subseteq Nat /\ LeftOver(t) \in Nat /\ t.room \in Int
      /\ t.pghead \in SUBSET Page /\ t.loose \in Seq(Page)
  <2>1. /\ t \in Txns /\ t.id \in 1 .. MaxTxns /\ t.pglast \in Nat /\ t.pglast < t.id
        /\ DOMAIN Records(t) \subseteq Ids /\ Ids \subseteq Nat
    BY BegunFacts, RecordsType, Bounds
  <2>2. t.freed \in SUBSET Page /\ t.saved \in Nat /\ t.dropped \in Ids /\ t.room \in Int
        /\ t.pghead \in SUBSET Page /\ t.loose \in Seq(Page)
    BY <2>1 DEF Txns
  <2> QED
    BY <2>1, <2>2, Sizes
<1>1. t.dropped = t.pglast /\ t.headId = t.pglast /\ t.room >= LeftOver(t) /\ ~Unsaved(t)
  BY <1>0 DEF SaveOk, Saved, Dropping, Settled
<1>2. t.pglast = 0 => t.pghead = {} /\ t.loose = <<>>
  BY DEF SaveOk
<1>3. ASSUME t.pghead \cup ToSet(t.loose) # {} PROVE t.freeRoot \in DOMAIN t.buf
  <2>1. LeftOver(t) # 0
    <3>1. Cardinality(t.pghead) \in Nat /\ (Cardinality(t.pghead) = 0 <=> t.pghead = {})
      BY <1>0, Sizes
    <3>2. Len(t.loose) \in Nat /\ (Len(t.loose) = 0 => t.loose = <<>>)
      BY <1>0
    <3>3. ToSet(<<>>) = {}
      BY DEF ToSet
    <3> QED
      BY <1>3, <3>1, <3>2, <3>3 DEF LeftOver
  <2>2. t.room # 0
    BY <1>0, <1>1, <2>1
  <2> QED
    BY <2>2 DEF SaveOk, Phase
<1>4. \A i \in DOMAIN Records(t) : i <= t.pglast => i = t.pglast /\ Records(t)[i] = {}
  BY <1>1 DEF SaveOk
<1>5. IF t.id \in DOMAIN Records(t) THEN Records(t)[t.id] = t.freed ELSE t.freed = {}
  <2>1. Cardinality(t.freed) \in Nat /\ (Cardinality(t.freed) = 0 <=> t.freed = {})
    BY <1>0, Sizes
  <2>2. t.saved = 0 => t.freed = {}
    BY <1>0, <1>1, <2>1 DEF Unsaved
  <2> QED
    BY <2>2 DEF SaveOk, Phase
<1>6. /\ u \in Txns /\ u.id = t.id /\ u.noMetaSync = t.noMetaSync /\ u.error = t.error
      /\ u.pglast = t.pglast /\ u.pgoldest = t.pgoldest /\ u.next = t.next
      /\ u.rounds = t.rounds
      /\ DOMAIN u.buf = DOMAIN t.buf \ ToSet(t.loose)
      /\ Whole(Image(u), MetaFor(u))
      /\ Tree(Image(u), u.root) = Tree(Image(t), t.root)
      /\ \A i \in DOMAIN Records(u) :
            \/ i = t.pglast /\ Records(u)[i] \subseteq t.pghead \cup ToSet(t.loose)
            \/ i = t.id
            \/ i \in DOMAIN Records(t) /\ t.pglast < i /\ Records(u)[i] = Records(t)[i]
  <2>1. t.pglast > 0 /\ t.pghead \cup ToSet(t.loose) # {} =>
           t.freeRoot \in DOMAIN t.buf /\ t.headId = t.pglast
    BY <1>1, <1>3
  <2>2. Fillable(t)
    BY <1>2, <1>4, <1>5, <2>1 DEF Fillable
  <2>3. \A z : z = Fill(t, t.pghead \cup ToSet(t.loose)) =>
      /\ z \in Txns /\ z.id = t.id /\ z.noMetaSync = t.noMetaSync /\ z.error = t.error
      /\ z.pglast = t.pglast /\ z.pgoldest = t.pgoldest /\ z.next = t.next
      /\ z.rounds = t.rounds
      /\ DOMAIN z.buf = DOMAIN t.buf \ ToSet(t.loose)
      /\ Whole(Image(z), MetaFor(z))
      /\ Tree(Image(z), z.root) = Tree(Image(t), t.root)
      /\ \A i \in DOMAIN Records(z) :
            \/ i = t.pglast /\ Records(z)[i] \subseteq t.pghead \cup ToSet(t.loose)
            \/ i = t.id
            \/ i \in DOMAIN Records(t) /\ t.pglast < i /\ Records(z)[i] = Records(t)[i]
    BY <2>2, FillOnce
  <2> QED
    BY ZenonT(60), <2>3
<1>7. ASSUME NEW P \in SUBSET Page, NEW s \in Int, Held(t, P, s), s <= t.id
      PROVE  Keeps(Image(u), Opening(MetaFor(u)), P, s)
  <2> DEFINE o == Opening(MetaFor(u))
  <2>1. /\ o.next = u.next - 1 + 1 /\ o.pghead = {} /\ o.loose = <<>> /\ o.freeRoot = u.freeRoot
    BY OpeningFields DEF MetaFor
  <2>2. u.next \in Int
    BY <1>6 DEF Txns
  <2>3. ToSet(<<>>) = {}
    BY DEF ToSet
  <2>4. RecordsIn(Image(u), o.freeRoot) = Records(u)
    BY <1>6, <2>1, ImageFacts
  <2>5. Pool(Image(u), o) \subseteq DOMAIN Records(u)
    BY <2>4 DEF Pool
  <2>6. DOMAIN Records(u) \subseteq Int
    BY <1>6, RecordsType, Bounds
  <2> HIDE DEF o
  <2>7. ASSUME NEW p \in P, NEW i \in DOMAIN Records(u), i < s PROVE p \notin Records(u)[i]
    <3>1. p \notin t.pghead /\ p \notin ToSet(t.loose)
      BY <1>7 DEF Held, Apart
    <3>2. i # t.id
      BY <1>0, <1>7, <2>6, <2>7
    <3>3. CASE i = t.pglast /\ Records(u)[i] \subseteq t.pghead \cup ToSet(t.loose)
      BY <3>1, <3>3
    <3>4. CASE i \in DOMAIN Records(t) /\ t.pglast < i /\ Records(u)[i] = Records(t)[i]
      BY <1>7, <2>7, <3>2, <3>4 DEF Held, Unrecorded
    <3> QED
      BY <1>6, <3>2, <3>3, <3>4
  <2>8. \A p \in P : p < o.next
    <3>1. o.next = t.next
      BY <1>6, <2>1, <2>2
    <3> QED
      BY <1>7, <3>1 DEF Held, Apart
  <2> QED
    BY <2>1, <2>3, <2>4, <2>5, <2>7, <2>8 DEF Keeps, o
<1> QED
  BY <1>6, <1>7
=============================================================================
