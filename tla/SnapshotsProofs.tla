--------------------------- MODULE SnapshotsProofs ---------------------------
(***************************************************************************)
(* What TLAPS proves of the snapshots, for any books, orders, calendar,    *)
(* requests and retention cap: the types, that a snapshot holds all that   *)
(* stayed while it was taken and nothing that never rested, that retention *)
(* keeps to its cap, that an order is found in the book it was placed in,  *)
(* over HTTP and over the socket, and that every query then tells of it.   *)
(***************************************************************************)
EXTENDS Snapshots, BookQueries, SumLemmas

-----------------------------------------------------------------------------
(***************************************************************************)
(* The books.                                                              *)
(***************************************************************************)
\* The strikes of an expiration, and the expirations of a hierarchy.
Ladders == UNION {[X -> SUBSET Orders] : X \in SUBSET Strikes}
Hierarchies == UNION {[D -> Ladders] : D \in SUBSET Keys}

\* Whatever rests is at the strike it asked for.
InPlace(h) ==
  \A k \in DOMAIN h : \A x \in DOMAIN h[k] : \A o \in h[k][x] : Terms[o].strike = x

\* It is where it was placed, or it was written back from a snapshot.
AsPlaced ==
  \A k \in DOMAIN book : \A x \in DOMAIN book[k] : \A o \in book[k][x] :
    via[o] = Restored \/ (via[o] = k /\ k \in Segments)

Infos == {i \in Info : \A o \in i.orders : Terms[o].strike = i.strike}

Books ==
  /\ today \in 0 .. LastDay /\ via \in [Orders -> Segments \cup {Never, Restored}]
  /\ book \in Hierarchies /\ InPlace(book) /\ AsPlaced

-----------------------------------------------------------------------------
(***************************************************************************)
(* The requests.                                                           *)
(***************************************************************************)
Pairs   == Keys \X Orders
Options == Keys \X Strikes \X Styles
Job ==
  [pc : {"idle", "walk", "store", "evict", "pick", "drop", "restore"},
   at : 0 .. MaxTime, seq : Nat, infos : SUBSET Infos, deleted : BOOLEAN,
   old : {h \in Hierarchies : InPlace(h)},
   start : SUBSET Options, visited : SUBSET Options, failed : SUBSET Options,
   throughout : SUBSET Pairs, sometime : SUBSET Pairs]

Requests ==
  /\ clock \in 0 .. MaxTime /\ job \in [Threads -> Job] /\ overlapped \in BOOLEAN
  /\ \A t \in Threads : job[t].at <= clock
  /\ \A s \in kept : /\ s.at \in 0 .. clock /\ s.infos \in SUBSET Infos
                     /\ s = [seq |-> s.seq, at |-> s.at, infos |-> s.infos]

-----------------------------------------------------------------------------
(***************************************************************************)
(* A walk.                                                                 *)
(***************************************************************************)
\* An order that has rested from the start has the book it rests in still to be
\* visited, or is saved, or its book is counted as failed.
Complete(j) ==
  /\ j.deleted => j.throughout = {}
  /\ j.throughout \subseteq Resting
  /\ \A r \in j.throughout :
       LET c == BookOf(r[1], r[2])
       IN  /\ c \in j.start
           /\ c \in j.visited \ j.failed => \E i \in j.infos : r[2] \in i.orders

\* Whatever is saved, or may be, has rested.
Genuine(j) ==
  /\ Resting \subseteq j.sometime
  /\ j.deleted => \A k \in DOMAIN j.old : \A x \in DOMAIN j.old[k] : \A o \in j.old[k][x] :
                    <<k, o>> \in j.sometime
  /\ \A i \in j.infos : \A o \in i.orders : \E r \in j.sometime : r[2] = o

Walks == \A t \in Threads : job[t].pc = "walk" => Complete(job[t]) /\ Genuine(job[t])

-----------------------------------------------------------------------------
(***************************************************************************)
(* Numbers and retention.                                                  *)
(***************************************************************************)
Storing == {t \in Threads : job[t].pc = "store"}

\* A number is taken once, and stored once.
Numbered ==
  /\ IsFiniteSet(kept) /\ seq \in Nat
  /\ \A s \in kept : s.seq \in 0 .. seq - 1
  /\ \A s, r \in kept : s.seq = r.seq => s = r
  /\ \A t \in Storing : /\ job[t].seq \in 0 .. seq - 1
                        /\ \A s \in kept : s.seq # job[t].seq
                        /\ \A u \in Storing \ {t} : job[u].seq # job[t].seq

\* As many are stored, or about to be, as there are numbers.
Counted ==
  /\ IsFiniteSet(Creating) /\ seq + Cardinality(Creating) <= MaxSnapshots
  /\ IsFiniteSet(Storing) /\ stored \in Nat /\ stored + Cardinality(Storing) = seq

\* Whoever is the only one to evict has found too many.
Retained ==
  /\ (\A t \in Threads : ~ Evicting(t)) => Cardinality(kept) <= Cap
  /\ ~ overlapped =>
       /\ Cardinality(kept) >= Cap \/ Cardinality(kept) >= stored
       /\ \A t, u \in Threads : Evicting(t) /\ Evicting(u) => t = u
       /\ \A t \in Threads : job[t].pc \in {"pick", "drop"} => Cardinality(kept) > Cap

IInv == Books /\ Requests /\ Walks /\ Numbered /\ Counted /\ Retained

-----------------------------------------------------------------------------
(***************************************************************************)
(* What the changes do to the books.                                       *)
(***************************************************************************)
LEMMA LadderOf ==
  ASSUME NEW l \in Ladders
  PROVE  /\ DOMAIN l \subseteq Strikes /\ l = [x \in DOMAIN l |-> l[x]]
         /\ \A x \in DOMAIN l : l[x] \subseteq Orders
BY DEF Ladders

LEMMA LadderMade ==
  ASSUME NEW X \in SUBSET Strikes, NEW l \in [X -> SUBSET Orders]
  PROVE  l \in Ladders
BY DEF Ladders

LEMMA HierarchyOf ==
  ASSUME NEW h \in Hierarchies
  PROVE  /\ DOMAIN h \subseteq Keys /\ h = [k \in DOMAIN h |-> h[k]]
         /\ \A k \in DOMAIN h : h[k] \in Ladders
BY DEF Hierarchies

LEMMA HierarchyMade ==
  ASSUME NEW D \in SUBSET Keys, NEW h \in [D -> Ladders]
  PROVE  h \in Hierarchies
BY DEF Hierarchies

\* No expirations, and an expiration without strikes.
LEMMA Nothing ==
  /\ [k \in {} |-> {}] \in Hierarchies /\ DOMAIN [k \in {} |-> {}] = {}
  /\ [x \in {} |-> {}] \in Ladders /\ DOMAIN [x \in {} |-> {}] = {}
<1>1. [k \in {} |-> {}] \in [{} -> Ladders] /\ [x \in {} |-> {}] \in [{} -> SUBSET Orders]
  OBVIOUS
<1>2. {} \in SUBSET Keys /\ {} \in SUBSET Strikes
  OBVIOUS
<1>3. [k \in {} |-> {}] \in Hierarchies
  BY <1>1, <1>2, HierarchyMade
<1>4. [x \in {} |-> {}] \in Ladders
  BY <1>1, <1>2, LadderMade
<1> QED
  BY <1>3, <1>4

LEMMA Names ==
  /\ \A s \in Segments : Parse(s) \subseteq Keys /\ Parse(s) \subseteq {s}
  /\ \A k \in Keys : Parse(k) \subseteq Keys
  /\ Never \notin Segments \cup {Restored} /\ Restored \notin Segments
<1>1. \A s \in Segments : s \in Keys \/ s = Malformed
  BY DEF Segments, Keys
<1>2. Malformed.form = "malformed" /\ \A k \in Keys : k.form # "malformed"
  BY DEF Keys, Malformed, Date, In
<1>3. \A s \in Segments : s.form \in {"date", "days", "malformed"}
  BY DEF Segments, Malformed, Date, In
<1>4. Never.form = "never" /\ Restored.form = "restored"
  BY DEF Never, Restored
<1> QED
  BY <1>1, <1>2, <1>3, <1>4 DEF Parse

\* An expiration is made: nothing comes to rest by it, and nothing goes.
LEMMA BookMade ==
  ASSUME book \in Hierarchies, NEW k \in Keys
  PROVE  /\ WithBook(k) \in Hierarchies /\ DOMAIN WithBook(k) = DOMAIN book \cup {k}
         /\ \A j \in DOMAIN book : WithBook(k)[j] = book[j]
         /\ k \notin DOMAIN book => WithBook(k)[k] = [x \in {} |-> {}]
<1> DEFINE w == WithBook(k)
<1>1. w = [j \in DOMAIN book \cup {k} |-> IF j \in DOMAIN book THEN book[j] ELSE [x \in {} |-> {}]]
  BY DEF WithBook
<1>2. /\ DOMAIN w = DOMAIN book \cup {k} /\ \A j \in DOMAIN book : w[j] = book[j]
      /\ k \notin DOMAIN book => w[k] = [x \in {} |-> {}]
  BY <1>1
<1>3. \A j \in DOMAIN w : w[j] \in Ladders
  BY <1>2, HierarchyOf, Nothing
<1>4. DOMAIN w \in SUBSET Keys
  BY <1>2, HierarchyOf
<1>5. w \in [DOMAIN w -> Ladders]
  BY <1>1, <1>2, <1>3
<1>6. w \in Hierarchies
  BY <1>4, <1>5, HierarchyMade
<1> QED
  BY <1>2, <1>6

\* A strike is made: likewise.
LEMMA StrikeMade ==
  ASSUME book \in Hierarchies, NEW k \in Keys, NEW x \in Strikes
  PROVE  /\ WithStrike(k, x) \in Hierarchies
         /\ k \in DOMAIN WithStrike(k, x) /\ x \in DOMAIN WithStrike(k, x)[k]
         /\ \A j \in DOMAIN WithStrike(k, x) : \A y \in DOMAIN WithStrike(k, x)[j] :
              \A o \in WithStrike(k, x)[j][y] :
                j \in DOMAIN book /\ y \in DOMAIN book[j] /\ o \in book[j][y]
<1> DEFINE w == WithBook(k)
           h == WithStrike(k, x)
           l == [y \in DOMAIN w[k] \cup {x} |-> IF y \in DOMAIN w[k] THEN w[k][y] ELSE {}]
<1>0. /\ w \in Hierarchies /\ DOMAIN w = DOMAIN book \cup {k}
      /\ \A j \in DOMAIN book : w[j] = book[j]
      /\ k \notin DOMAIN book => w[k] = [y \in {} |-> {}]
  BY BookMade
<1>1. h = [w EXCEPT ![k] = l]
  BY DEF WithStrike
<1>2. w[k] \in Ladders
  BY <1>0, HierarchyOf
<1>3. l \in Ladders /\ DOMAIN l = DOMAIN w[k] \cup {x}
  <2>1. DOMAIN l \in SUBSET Strikes /\ DOMAIN l = DOMAIN w[k] \cup {x}
    BY <1>2, LadderOf
  <2>2. l \in [DOMAIN l -> SUBSET Orders]
    BY <1>2, LadderOf
  <2> QED
    BY <2>1, <2>2, LadderMade
<1>4. /\ DOMAIN h = DOMAIN w /\ h[k] = l
      /\ \A j \in DOMAIN w : j # k => h[j] = w[j]
      /\ h = [j \in DOMAIN w |-> h[j]]
  BY <1>0, <1>1
<1>5. h \in Hierarchies
  <2>1. DOMAIN h \in SUBSET Keys
    BY <1>0, <1>4, HierarchyOf
  <2>2. \A j \in DOMAIN h : h[j] \in Ladders
    BY <1>0, <1>3, <1>4, HierarchyOf
  <2>3. h \in [DOMAIN h -> Ladders]
    BY <1>4, <2>2
  <2> QED
    BY <2>1, <2>3, HierarchyMade
<1>6. ASSUME NEW j \in DOMAIN h, NEW y \in DOMAIN h[j], NEW o \in h[j][y]
      PROVE  j \in DOMAIN book /\ y \in DOMAIN book[j] /\ o \in book[j][y]
  <2>1. CASE j # k
    BY <1>0, <1>4, <1>6, <2>1
  <2>2. CASE j = k
    <3>1. y \in DOMAIN w[k] /\ o \in w[k][y]
      BY <1>3, <1>4, <1>6, <2>2
    <3> QED
      BY <1>0, <2>2, <3>1
  <2> QED
    BY <2>1, <2>2
<1> QED
  BY <1>0, <1>3, <1>4, <1>5, <1>6

\* The book of a strike of a hierarchy is written.
Written(h, k, x, b) == [h EXCEPT ![k][x] = b]

LEMMA LadderWritten ==
  ASSUME NEW h \in Hierarchies, NEW k \in DOMAIN h, NEW x \in DOMAIN h[k],
         NEW b \in SUBSET Orders
  PROVE  /\ Written(h, k, x, b) \in Hierarchies /\ DOMAIN Written(h, k, x, b) = DOMAIN h
         /\ \A j \in DOMAIN h : \A y \in DOMAIN Written(h, k, x, b)[j] :
              /\ y \in DOMAIN h[j]
              /\ j = k /\ y = x => Written(h, k, x, b)[j][y] = b
              /\ j # k \/ y # x => Written(h, k, x, b)[j][y] = h[j][y]
<1> DEFINE g == Written(h, k, x, b)
<1>1. /\ DOMAIN g = DOMAIN h /\ g[k] = [h[k] EXCEPT ![x] = b]
      /\ \A j \in DOMAIN h : j # k => g[j] = h[j]
      /\ g = [j \in DOMAIN h |-> g[j]]
  BY DEF Written
<1>2. h[k] \in Ladders
  BY HierarchyOf
<1>3. g[k] \in Ladders /\ DOMAIN g[k] = DOMAIN h[k]
  <2>1. DOMAIN g[k] = DOMAIN h[k] /\ DOMAIN g[k] \in SUBSET Strikes
    BY <1>1, <1>2, LadderOf
  <2>2. g[k] \in [DOMAIN g[k] -> SUBSET Orders]
    BY <1>1, <1>2, LadderOf
  <2> QED
    BY <2>1, <2>2, LadderMade
<1>4. g \in Hierarchies
  <2>1. DOMAIN g \in SUBSET Keys
    BY <1>1, HierarchyOf
  <2>2. \A j \in DOMAIN g : g[j] \in Ladders
    BY <1>1, <1>3, HierarchyOf
  <2>3. g \in [DOMAIN g -> Ladders]
    BY <1>1, <2>2
  <2> QED
    BY <2>1, <2>3, HierarchyMade
<1>5. ASSUME NEW j \in DOMAIN h, NEW y \in DOMAIN g[j]
      PROVE  /\ y \in DOMAIN h[j]
             /\ j = k /\ y = x => g[j][y] = b
             /\ j # k \/ y # x => g[j][y] = h[j][y]
  BY <1>1, <1>3, <1>5
<1> QED
  BY <1>1, <1>4, <1>5

-----------------------------------------------------------------------------
(***************************************************************************)
(* Every change leaves the books in order.                                 *)
(***************************************************************************)
\* Nothing comes to rest.
LEMMA NothingComes ==
  ASSUME Books, book' \in Hierarchies, today' \in 0 .. LastDay, UNCHANGED via,
         \A j \in DOMAIN book' : \A y \in DOMAIN book'[j] : \A o \in book'[j][y] :
           j \in DOMAIN book /\ y \in DOMAIN book[j] /\ o \in book[j][y]
  PROVE  Books'
BY DEF Books, InPlace, AsPlaced

\* The book of a strike, which is made if need be, is written.
LEMMA BookWritten ==
  ASSUME Books, NEW k \in Keys, NEW x \in Strikes, NEW b \in SUBSET Orders,
         NEW new \in SUBSET Orders, b \subseteq WithStrike(k, x)[k][x] \cup new,
         book' = Written(WithStrike(k, x), k, x, b),
         via' \in [Orders -> Segments \cup {Never, Restored}], UNCHANGED today,
         \A o \in new : Terms[o].strike = x,
         \A o \in new : via'[o] = Restored \/ (via'[o] = k /\ k \in Segments),
         \A o \in Orders : via'[o] = via[o] \/ via'[o] = Restored \/ via[o] = Never
  PROVE  Books'
<1>1. PICK h : h = WithStrike(k, x)
  OBVIOUS
<1>2. /\ h \in Hierarchies /\ k \in DOMAIN h /\ x \in DOMAIN h[k]
      /\ \A j \in DOMAIN h : \A y \in DOMAIN h[j] : \A o \in h[j][y] :
           j \in DOMAIN book /\ y \in DOMAIN book[j] /\ o \in book[j][y]
  BY <1>1, StrikeMade DEF Books
<1>3. PICK g : g = book'
  OBVIOUS
<1>4. /\ g \in Hierarchies /\ DOMAIN g = DOMAIN h
      /\ \A j \in DOMAIN g : \A y \in DOMAIN g[j] :
           /\ y \in DOMAIN h[j]
           /\ j = k /\ y = x => g[j][y] = b
           /\ j # k \/ y # x => g[j][y] = h[j][y]
  <2>1. g = Written(h, k, x, b)
    BY <1>1, <1>3
  <2>2. /\ Written(h, k, x, b) \in Hierarchies /\ DOMAIN Written(h, k, x, b) = DOMAIN h
        /\ \A j \in DOMAIN h : \A y \in DOMAIN Written(h, k, x, b)[j] :
             /\ y \in DOMAIN h[j]
             /\ j = k /\ y = x => Written(h, k, x, b)[j][y] = b
             /\ j # k \/ y # x => Written(h, k, x, b)[j][y] = h[j][y]
    BY <1>2, LadderWritten
  <2> QED
    BY <2>1, <2>2
<1>5. ASSUME NEW j \in DOMAIN g, NEW y \in DOMAIN g[j], NEW o \in g[j][y]
      PROVE  \/ j \in DOMAIN book /\ y \in DOMAIN book[j] /\ o \in book[j][y]
             \/ j = k /\ y = x /\ o \in new
  <2>1. j \in DOMAIN h /\ y \in DOMAIN h[j]
    BY <1>4, <1>5
  <2>2. CASE j = k /\ y = x
    <3>1. o \in b
      BY <1>4, <1>5, <2>2
    <3>2. o \in h[k][x] \/ o \in new
      BY <1>1, <3>1
    <3> QED
      BY <1>2, <2>1, <2>2, <3>2
  <2>3. CASE ~ (j = k /\ y = x)
    <3>1. o \in h[j][y]
      BY <1>4, <1>5, <2>3
    <3> QED
      BY <1>2, <2>1, <3>1
  <2> QED
    BY <2>2, <2>3
<1>6. ASSUME NEW j \in DOMAIN g, NEW y \in DOMAIN g[j], NEW o \in g[j][y]
      PROVE  /\ Terms[o].strike = y
             /\ via'[o] = Restored \/ (via'[o] = j /\ j \in Segments)
  <2>1. CASE j = k /\ y = x /\ o \in new
    BY <2>1
  <2>2. CASE j \in DOMAIN book /\ y \in DOMAIN book[j] /\ o \in book[j][y]
    <3>1. Terms[o].strike = y /\ (via[o] = Restored \/ (via[o] = j /\ j \in Segments))
      BY <2>2 DEF Books, InPlace, AsPlaced
    <3>2. o \in Orders
      BY <2>2, HierarchyOf, LadderOf DEF Books
    <3> QED
      BY <3>1, <3>2, Names
  <2> QED
    BY <1>5, <1>6, <2>1, <2>2
<1>7. InPlace(g)
  BY <1>6 DEF InPlace
<1>8. \A j \in DOMAIN g : \A y \in DOMAIN g[j] : \A o \in g[j][y] :
        via'[o] = Restored \/ (via'[o] = j /\ j \in Segments)
  BY <1>6
<1>9. book' \in Hierarchies /\ InPlace(book') /\ AsPlaced'
  BY <1>3, <1>4, <1>7, <1>8, Zenon DEF AsPlaced
<1> QED
  BY <1>9 DEF Books, InPlace

LEMMA BooksTrade ==
  ASSUME Books, HierarchyNext
  PROVE  Books'
<1>0. book \in Hierarchies /\ via \in [Orders -> Segments \cup {Never, Restored}]
  BY DEF Books
<1>1. ASSUME NEW s \in Segments, CreateExpiration(s)
      PROVE  Books'
  <2>1. PICK k \in Parse(s) : book' = WithBook(k)
    BY <1>1 DEF CreateExpiration
  <2>2. k \in Keys
    BY <2>1, Names
  <2>3. /\ book' \in Hierarchies /\ DOMAIN book' = DOMAIN book \cup {k}
        /\ \A j \in DOMAIN book : book'[j] = book[j]
        /\ k \notin DOMAIN book => book'[k] = [x \in {} |-> {}]
    BY <1>0, <2>1, <2>2, BookMade
  <2>4. ASSUME NEW j \in DOMAIN book', NEW y \in DOMAIN book'[j], NEW o \in book'[j][y]
        PROVE  j \in DOMAIN book /\ y \in DOMAIN book[j] /\ o \in book[j][y]
    <3>1. CASE j \in DOMAIN book
      BY <2>3, <2>4, <3>1
    <3>2. CASE j \notin DOMAIN book
      BY <2>3, <2>4, <3>2, Nothing
    <3> QED
      BY <3>1, <3>2
  <2>5. today' \in 0 .. LastDay /\ UNCHANGED via
    BY <1>1 DEF CreateExpiration, Books
  <2> QED
    BY <2>3, <2>4, <2>5, NothingComes
<1>2. ASSUME NEW s \in Segments, NEW x \in Strikes, CreateStrike(s, x)
      PROVE  Books'
  <2>1. PICK k \in Parse(s) : book' = WithStrike(k, x)
    BY <1>2 DEF CreateStrike
  <2>2. k \in Keys
    BY <2>1, Names
  <2>3. today' \in 0 .. LastDay /\ UNCHANGED via
    BY <1>2 DEF CreateStrike, Books
  <2> QED
    BY <1>0, <2>1, <2>2, <2>3, StrikeMade, NothingComes
<1>3. ASSUME NEW s \in Segments, NEW o \in Orders, PlaceOrder(o, s)
      PROVE  Books'
  <2> DEFINE x == Terms[o].strike
  <2>1. PICK k \in Parse(s) : book' = [WithStrike(k, x) EXCEPT ![k][x] = @ \cup {o}]
    BY <1>3 DEF PlaceOrder
  <2>2. k \in Keys /\ k = s /\ x \in Strikes
    BY <2>1, Names, TermsAssumption
  <2>3. via[o] = Never /\ via' = [via EXCEPT ![o] = s] /\ UNCHANGED today
    BY <1>3 DEF PlaceOrder
  <2>4. via' \in [Orders -> Segments \cup {Never, Restored}]
    BY <1>0, <2>3
  <2>5. \A p \in {o} : via'[p] = k /\ k \in Segments
    BY <1>0, <2>2, <2>3
  <2>6. \A p \in Orders : via'[p] = via[p] \/ via[p] = Never
    BY <1>0, <2>3
  <2> HIDE DEF x
  <2>7. PICK b, new : b = WithStrike(k, x)[k][x] \cup {o} /\ new = {o}
    OBVIOUS
  <2>8. book' = Written(WithStrike(k, x), k, x, b)
    BY <2>1, <2>7 DEF Written
  <2>9. /\ new \in SUBSET Orders /\ b \subseteq WithStrike(k, x)[k][x] \cup new
        /\ b \in SUBSET Orders
    BY <1>0, <2>2, <2>7, StrikeMade, HierarchyOf, LadderOf
  <2>10. \A p \in new : Terms[p].strike = x /\ via'[p] = k /\ k \in Segments
    BY <2>5, <2>7 DEF x
  <2> QED
    BY <2>2, <2>3, <2>4, <2>6, <2>8, <2>9, <2>10, BookWritten
<1>4. ASSUME NEW s \in Segments, NEW o \in Orders, TakeOrder(o, s)
      PROVE  Books'
  <2> DEFINE x == Terms[o].strike
  <2>1. PICK k \in Found(s) : /\ o \in OrdersIn(k)
                              /\ book' = [book EXCEPT ![k][x] = @ \ {o}]
    BY <1>4 DEF TakeOrder
  <2>2. k \in DOMAIN book
    BY <2>1 DEF Found
  <2>3. x \in DOMAIN book[k]
    BY <2>1, <2>2 DEF OrdersIn, Books, InPlace
  <2>4. book[k][x] \ {o} \in SUBSET Orders
    BY <1>0, <2>2, <2>3, HierarchyOf, LadderOf
  <2> HIDE DEF x
  <2>5. /\ book' \in Hierarchies /\ DOMAIN book' = DOMAIN book
        /\ \A j \in DOMAIN book' : \A y \in DOMAIN book'[j] :
             /\ y \in DOMAIN book[j]
             /\ j = k /\ y = x => book'[j][y] = book[k][x] \ {o}
             /\ j # k \/ y # x => book'[j][y] = book[j][y]
    <3>1. PICK b \in SUBSET Orders : b = book[k][x] \ {o}
      BY <2>4
    <3>2. book' = Written(book, k, x, b)
      BY <2>1, <3>1 DEF Written
    <3>3. /\ Written(book, k, x, b) \in Hierarchies /\ DOMAIN Written(book, k, x, b) = DOMAIN book
          /\ \A j \in DOMAIN book : \A y \in DOMAIN Written(book, k, x, b)[j] :
               /\ y \in DOMAIN book[j]
               /\ j = k /\ y = x => Written(book, k, x, b)[j][y] = b
               /\ j # k \/ y # x => Written(book, k, x, b)[j][y] = book[j][y]
      BY <1>0, <2>2, <2>3, LadderWritten
    <3> QED
      BY <3>1, <3>2, <3>3
  <2>6. today' \in 0 .. LastDay /\ UNCHANGED via
    BY <1>4 DEF TakeOrder, Books
  <2> QED
    BY <2>5, <2>6, NothingComes
<1>5. CASE DeleteUnderlying
  <2>1. book' \in Hierarchies /\ DOMAIN book' = {}
    BY <1>5, Nothing DEF DeleteUnderlying
  <2>2. today' \in 0 .. LastDay /\ UNCHANGED via
    BY <1>5 DEF DeleteUnderlying, Books
  <2> QED
    BY <2>1, <2>2, NothingComes
<1>6. CASE Midnight
  <2>1. UNCHANGED <<book, via>> /\ today' \in 0 .. LastDay
    BY <1>6, CalendarAssumption DEF Midnight, Books
  <2> QED
    BY <1>0, <2>1, NothingComes
<1> QED
  BY <1>1, <1>2, <1>3, <1>4, <1>5, <1>6 DEF HierarchyNext

\* What a restoration does to the books.
Writes(t) == RestoreBook(t) \/ RestoreBookFails(t)

LEMMA BooksRestore ==
  ASSUME Books, Requests, NEW t \in Threads, Writes(t)
  PROVE  Books'
<1>0. /\ book \in Hierarchies /\ via \in [Orders -> Segments \cup {Never, Restored}]
      /\ job[t].infos \subseteq Infos
  BY DEF Books, Requests, Job
<1>1. CASE RestoreBook(t)
  <2>1. PICK i \in job[t].infos :
          /\ \E k \in Parse(i.expiration) :
               book' = [WithStrike(k, i.strike) EXCEPT
                          ![k][i.strike] = {o \in @ : Terms[o].style # i.style} \cup i.orders]
          /\ via' = [o \in Orders |-> IF o \in i.orders THEN Restored ELSE via[o]]
    BY <1>1 DEF RestoreBook
  <2>2. PICK k \in Parse(i.expiration) :
          book' = [WithStrike(k, i.strike) EXCEPT
                     ![k][i.strike] = {o \in @ : Terms[o].style # i.style} \cup i.orders]
    BY <2>1
  <2>3. /\ i.expiration \in Keys /\ i.strike \in Strikes /\ i.orders \in SUBSET Orders
        /\ \A o \in i.orders : Terms[o].strike = i.strike
    BY <1>0, <2>1 DEF Infos, Info
  <2>4. k \in Keys
    BY <2>2, <2>3, Names
  <2>5. PICK b : b = {o \in WithStrike(k, i.strike)[k][i.strike] : Terms[o].style # i.style}
                       \cup i.orders
    OBVIOUS
  <2>6. /\ b \subseteq WithStrike(k, i.strike)[k][i.strike] \cup i.orders
        /\ b \in SUBSET Orders
    BY <1>0, <2>3, <2>4, <2>5, StrikeMade, HierarchyOf, LadderOf
  <2>7. book' = Written(WithStrike(k, i.strike), k, i.strike, b)
    BY <2>2, <2>5 DEF Written
  <2>8. /\ via' \in [Orders -> Segments \cup {Never, Restored}] /\ UNCHANGED today
        /\ \A o \in i.orders : via'[o] = Restored
        /\ \A o \in Orders : via'[o] = via[o] \/ via'[o] = Restored
    BY <1>0, <1>1, <2>1, <2>3 DEF RestoreBook
  <2> QED
    BY <2>3, <2>4, <2>6, <2>7, <2>8, BookWritten
<1>2. CASE RestoreBookFails(t)
  <2>1. PICK i \in job[t].infos : \E k \in Parse(i.expiration) : book' = WithStrike(k, i.strike)
    BY <1>2 DEF RestoreBookFails
  <2>2. PICK k \in Parse(i.expiration) : book' = WithStrike(k, i.strike)
    BY <2>1
  <2>3. k \in Keys /\ i.strike \in Strikes
    BY <1>0, <2>1, <2>2, Names DEF Infos, Info
  <2>4. today' \in 0 .. LastDay /\ UNCHANGED via
    BY <1>2 DEF RestoreBookFails, Books
  <2> QED
    BY <1>0, <2>2, <2>3, <2>4, StrikeMade, NothingComes
<1> QED
  BY <1>1, <1>2 DEF Writes

-----------------------------------------------------------------------------
(***************************************************************************)
(* What the steps do to the requests.                                      *)
(***************************************************************************)
\* Resting, of any hierarchy.
RestsIn(h) == UNION {{k} \X UNION {h[k][x] : x \in DOMAIN h[k]} : k \in DOMAIN h}

LEMMA RestingIs == Resting = RestsIn(book) /\ Resting' = RestsIn(book')
BY DEF Resting, OrdersIn, RestsIn

LEMMA RestsOf ==
  ASSUME NEW h \in Hierarchies
  PROVE  /\ RestsIn(h) \subseteq Pairs
         /\ DOMAIN h = {} => RestsIn(h) = {}
         /\ \A k \in DOMAIN h : \A x \in DOMAIN h[k] : \A o \in h[k][x] : <<k, o>> \in RestsIn(h)
         /\ \A r \in RestsIn(h) : \E x \in DOMAIN h[r[1]] : r[1] \in DOMAIN h /\ r[2] \in h[r[1]][x]
<1>1. ASSUME NEW r \in RestsIn(h)
      PROVE  \E k \in DOMAIN h : \E x \in DOMAIN h[k] : \E o \in h[k][x] : r = <<k, o>>
  BY <1>1 DEF RestsIn
<1>2. ASSUME NEW k \in DOMAIN h, NEW x \in DOMAIN h[k], NEW o \in h[k][x]
      PROVE  <<k, o>> \in RestsIn(h) /\ <<k, o>> \in Pairs
  <2>1. k \in Keys /\ o \in Orders
    BY <1>2, HierarchyOf, LadderOf
  <2> QED
    BY <2>1 DEF RestsIn, Pairs
<1> QED
  BY <1>1, <1>2

LEMMA OptionsOf ==
  ASSUME NEW h \in Hierarchies
  PROVE  /\ OptionBooks(h) \subseteq Options
         /\ \A c \in OptionBooks(h) : /\ c[1] \in DOMAIN h /\ c[2] \in DOMAIN h[c[1]]
                                      /\ c[3] \in Styles
         /\ \A k \in DOMAIN h : \A x \in DOMAIN h[k] : \A y \in Styles : <<k, x, y>> \in OptionBooks(h)
<1>1. ASSUME NEW c \in OptionBooks(h)
      PROVE  \E k \in DOMAIN h : \E x \in DOMAIN h[k] : \E y \in Styles : c = <<k, x, y>>
  BY <1>1 DEF OptionBooks
<1>2. ASSUME NEW k \in DOMAIN h, NEW x \in DOMAIN h[k], NEW y \in Styles
      PROVE  <<k, x, y>> \in OptionBooks(h) /\ <<k, x, y>> \in Options
  <2>1. k \in Keys /\ x \in Strikes
    BY <1>2, HierarchyOf, LadderOf
  <2> QED
    BY <2>1 DEF OptionBooks, Options
<1> QED
  BY <1>1, <1>2

LEMMA IdleIs ==
  /\ Idle \in Job /\ Idle.pc = "idle" /\ Idle.at = 0 /\ Idle.infos = {} /\ Idle.seq = 0
  /\ Idle.deleted = FALSE /\ Idle.visited = {}
<1>1. NoBook \in Hierarchies /\ InPlace(NoBook)
  BY Nothing DEF NoBook, InPlace
<1>2. 0 \in 0 .. MaxTime
  BY CapAssumption
<1> QED
  BY <1>1, <1>2 DEF Idle, Job

\* What a request sees of a change of the books.
LEMMA WatchedIs ==
  ASSUME Books, book' \in Hierarchies, NEW j \in Job
  PROVE  /\ Watched(j) \in Job
         /\ Watched(j).pc = j.pc /\ Watched(j).at = j.at /\ Watched(j).seq = j.seq
         /\ Watched(j).infos = j.infos
         /\ Watched(j).start = j.start /\ Watched(j).visited = j.visited
         /\ Watched(j).failed = j.failed
         /\ j.pc # "walk" => Watched(j) = j
         /\ j.pc = "walk" =>
              /\ Watched(j).throughout = j.throughout \cap Resting'
              /\ Watched(j).sometime = j.sometime \cup Resting'
              /\ Watched(j).deleted = (j.deleted \/ (DOMAIN book' = {} /\ DOMAIN book # {}))
              /\ Watched(j).old = IF ~ j.deleted /\ DOMAIN book' = {} THEN book ELSE j.old
<1>1. CASE j.pc # "walk"
  BY <1>1 DEF Watched
<1>2. CASE j.pc = "walk"
  <2> DEFINE gone == j.deleted \/ (DOMAIN book' = {} /\ DOMAIN book # {})
             old == IF ~ j.deleted /\ DOMAIN book' = {} THEN book ELSE j.old
  <2>1. PICK r : r = Resting'
    OBVIOUS
  <2>2. Watched(j) = [j EXCEPT !.throughout = j.throughout \cap r, !.sometime = j.sometime \cup r,
                               !.deleted = gone, !.old = old]
    BY <1>2, <2>1 DEF Watched
  <2>3. r \subseteq Pairs
    BY <2>1, RestingIs, RestsOf
  <2>4. gone \in BOOLEAN
    BY DEF Job
  <2>5. old \in {h \in Hierarchies : InPlace(h)}
    BY DEF Job, Books
  <2> HIDE DEF gone, old
  <2>6. Watched(j) \in Job
    BY <2>2, <2>3, <2>4, <2>5 DEF Job
  <2>7. /\ Watched(j).pc = j.pc /\ Watched(j).at = j.at /\ Watched(j).seq = j.seq
        /\ Watched(j).infos = j.infos
        /\ Watched(j).start = j.start /\ Watched(j).visited = j.visited
        /\ Watched(j).failed = j.failed
        /\ Watched(j).throughout = j.throughout \cap r
        /\ Watched(j).sometime = j.sometime \cup r
        /\ Watched(j).deleted = gone /\ Watched(j).old = old
    BY <2>2 DEF Job
  <2> QED
    BY <1>2, <2>1, <2>6, <2>7 DEF gone, old
<1> QED
  BY <1>1, <1>2

\* One request goes on.
Alone(t) == /\ job' \in [Threads -> Job]
            /\ \A u \in Threads \ {t} : job'[u] = job[u]

LEMMA GoesOn ==
  ASSUME job \in [Threads -> Job], NEW t \in Threads, NEW j \in Job, job' = [job EXCEPT ![t] = j]
  PROVE  Alone(t) /\ job'[t] = j
BY DEF Alone

LEMMA BeginDoes ==
  ASSUME Books, Requests, NEW t \in Threads, CreateBegin(t)
  PROVE  /\ Alone(t) /\ job[t].pc = "idle"
         /\ job'[t].pc = "walk" /\ job'[t].at = clock /\ job'[t].infos = {}
         /\ job'[t].deleted = FALSE /\ job'[t].visited = {}
         /\ job'[t].start = OptionBooks(book)
         /\ job'[t].throughout = Resting /\ job'[t].sometime = Resting
<1>1. PICK r, b : r = Resting /\ b = OptionBooks(book)
  OBVIOUS
<1>2. r \subseteq Pairs /\ b \subseteq Options
  BY <1>1, RestingIs, RestsOf, OptionsOf DEF Books
<1>3. PICK j : j = [Idle EXCEPT !.pc = "walk", !.at = clock, !.start = b,
                                !.throughout = r, !.sometime = r]
  OBVIOUS
<1>4. j \in Job
  BY <1>2, <1>3, IdleIs DEF Requests, Job
<1>5. job' = [job EXCEPT ![t] = j]
  BY <1>1, <1>3 DEF CreateBegin
<1>6. /\ j.pc = "walk" /\ j.at = clock /\ j.infos = {} /\ j.deleted = FALSE /\ j.visited = {}
      /\ j.start = b /\ j.throughout = r /\ j.sometime = r
  BY <1>3, IdleIs DEF Job
<1> QED
  BY <1>1, <1>4, <1>5, <1>6, GoesOn DEF Requests, CreateBegin

\* What a walk saves of a book rests in it.
LEMMA SavedIs ==
  ASSUME Books, Requests, NEW t \in Threads, NEW c \in OptionBooks(Walked(t))
  PROVE  /\ Walked(t) \in Hierarchies /\ InPlace(Walked(t)) /\ c \in Options
         /\ Saved(t, c) \subseteq Infos
         /\ \A i \in Saved(t, c) : i.orders \subseteq Walked(t)[c[1]][c[2]]
         /\ \A o \in Walked(t)[c[1]][c[2]] :
              Terms[o].style = c[3] => \E i \in Saved(t, c) : o \in i.orders
<1>1. Walked(t) \in Hierarchies /\ InPlace(Walked(t))
  BY DEF Walked, Books, Requests, Job
<1>2. /\ c \in Options /\ c[1] \in DOMAIN Walked(t) /\ c[2] \in DOMAIN Walked(t)[c[1]]
      /\ c[3] \in Styles
  BY <1>1, OptionsOf
<1>3. PICK rests : rests = {o \in Walked(t)[c[1]][c[2]] : Terms[o].style = c[3]}
  OBVIOUS
<1>4. PICK i : i = [expiration |-> Format(c[1]), strike |-> c[2], style |-> c[3], orders |-> rests]
  OBVIOUS
<1>5. Saved(t, c) = IF rests = {} THEN {} ELSE {i}
  BY <1>3, <1>4 DEF Saved
<1>6. rests \subseteq Orders /\ \A o \in rests : Terms[o].strike = c[2]
  BY <1>1, <1>2, <1>3, HierarchyOf, LadderOf DEF InPlace
<1>7. c[1] \in Keys /\ c[2] \in Strikes
  BY <1>1, <1>2, HierarchyOf, LadderOf
<1>8. Format(c[1]) \in Keys
  <2>1. CASE c[1].form = "days"
    <3>1. \E n \in DayCounts : c[1] = In(n)
      BY <1>7, <2>1 DEF Keys, Date, In
    <3>2. PICK n \in DayCounts : c[1] = In(n)
      BY <3>1
    <3>3. Format(c[1]) = Date(today + n)
      BY <2>1, <3>2 DEF Format, In
    <3>4. today + n = n + today
      BY <3>2, CalendarAssumption DEF Books
    <3> QED
      BY <3>2, <3>3, <3>4 DEF Keys, Books
  <2>2. CASE c[1].form # "days"
    BY <1>7, <2>2 DEF Format
  <2> QED
    BY <2>1, <2>2
<1>9. i \in Infos
  BY <1>2, <1>4, <1>6, <1>7, <1>8 DEF Infos, Info
<1>10. rests # {} => i \in Saved(t, c) /\ rests = i.orders
  BY <1>4, <1>5
<1>11. Saved(t, c) \subseteq {i} /\ i.orders = rests
  BY <1>4, <1>5
<1>12. ASSUME NEW o \in Walked(t)[c[1]][c[2]], Terms[o].style = c[3]
       PROVE  \E s \in Saved(t, c) : o \in s.orders
  BY <1>3, <1>10, <1>12
<1>13. rests \subseteq Walked(t)[c[1]][c[2]]
  BY <1>3
<1> QED
  BY <1>1, <1>2, <1>9, <1>11, <1>12, <1>13

\* A book is visited, and saved or counted as failed.
Visits(t) == CreateVisit(t) \/ CreateVisitFails(t)

LEMMA VisitDoes ==
  ASSUME Books, Requests, NEW t \in Threads, Visits(t)
  PROVE  /\ Alone(t) /\ job[t].pc = "walk"
         /\ \E c \in OptionBooks(Walked(t)) :
              /\ job'[t].visited = job[t].visited \cup {c}
              /\ \/ /\ job'[t].infos = job[t].infos \cup Saved(t, c)
                    /\ job'[t].failed = job[t].failed
                 \/ /\ job'[t].infos = job[t].infos
                    /\ job'[t].failed = job[t].failed \cup {c}
              /\ job'[t].pc = "walk" /\ job'[t].at = job[t].at /\ job'[t].seq = job[t].seq
              /\ job'[t].deleted = job[t].deleted /\ job'[t].old = job[t].old
              /\ job'[t].start = job[t].start
              /\ job'[t].throughout = job[t].throughout /\ job'[t].sometime = job[t].sometime
<1>0. job \in [Threads -> Job] /\ job[t] \in Job
  BY DEF Requests
<1>1. PICK c \in OptionBooks(Walked(t)) :
        \E infos, failed :
          /\ job' = [job EXCEPT ![t] = [job[t] EXCEPT !.visited = job[t].visited \cup {c},
                                                      !.infos = infos, !.failed = failed]]
          /\ \/ infos = job[t].infos \cup Saved(t, c) /\ failed = job[t].failed
             \/ infos = job[t].infos /\ failed = job[t].failed \cup {c}
  <2>1. CASE CreateVisit(t)
    <3>1. PICK c \in OptionBooks(Walked(t)) :
            job' = [job EXCEPT ![t] = [job[t] EXCEPT !.visited = job[t].visited \cup {c},
                                                     !.infos = job[t].infos \cup Saved(t, c)]]
      BY <2>1 DEF CreateVisit
    <3>2. PICK saved : saved = job[t].infos \cup Saved(t, c)
      OBVIOUS
    <3>3. [job[t] EXCEPT !.visited = job[t].visited \cup {c}, !.infos = saved]
            = [job[t] EXCEPT !.visited = job[t].visited \cup {c}, !.infos = saved,
                             !.failed = job[t].failed]
      BY <1>0 DEF Job
    <3> QED
      BY <3>1, <3>2, <3>3
  <2>2. CASE CreateVisitFails(t)
    <3>1. PICK c \in OptionBooks(Walked(t)) :
            job' = [job EXCEPT ![t] = [job[t] EXCEPT !.visited = job[t].visited \cup {c},
                                                     !.failed = job[t].failed \cup {c}]]
      BY <2>2 DEF CreateVisitFails
    <3>2. [job[t] EXCEPT !.visited = job[t].visited \cup {c}, !.failed = job[t].failed \cup {c}]
            = [job[t] EXCEPT !.visited = job[t].visited \cup {c}, !.infos = job[t].infos,
                             !.failed = job[t].failed \cup {c}]
      BY <1>0 DEF Job
    <3> QED
      BY <3>1, <3>2
  <2> QED
    BY <2>1, <2>2 DEF Visits
<1>2. PICK infos, failed :
        /\ job' = [job EXCEPT ![t] = [job[t] EXCEPT !.visited = job[t].visited \cup {c},
                                                    !.infos = infos, !.failed = failed]]
        /\ \/ infos = job[t].infos \cup Saved(t, c) /\ failed = job[t].failed
           \/ infos = job[t].infos /\ failed = job[t].failed \cup {c}
  BY <1>1
<1>3. PICK j : j = [job[t] EXCEPT !.visited = job[t].visited \cup {c},
                                  !.infos = infos, !.failed = failed]
  OBVIOUS
<1>4. c \in Options /\ infos \in SUBSET Infos /\ failed \in SUBSET Options
  <2>1. c \in Options /\ Saved(t, c) \subseteq Infos
    BY SavedIs
  <2>2. job[t].infos \in SUBSET Infos /\ job[t].failed \in SUBSET Options
    BY <1>0 DEF Job
  <2> QED
    BY <1>2, <2>1, <2>2
<1>5. j \in Job
  BY <1>0, <1>3, <1>4 DEF Job
<1>6. job' = [job EXCEPT ![t] = j]
  BY <1>2, <1>3
<1>7. /\ j.visited = job[t].visited \cup {c} /\ j.infos = infos /\ j.failed = failed
      /\ j.pc = job[t].pc /\ j.at = job[t].at /\ j.seq = job[t].seq
      /\ j.deleted = job[t].deleted /\ j.old = job[t].old /\ j.start = job[t].start
      /\ j.throughout = job[t].throughout /\ j.sometime = job[t].sometime
  BY <1>0, <1>3 DEF Job
<1>8. job[t].pc = "walk"
  BY DEF Visits, CreateVisit, CreateVisitFails
<1>9. Alone(t) /\ job'[t] = j
  BY <1>0, <1>5, <1>6, GoesOn
<1> QED
  BY <1>2, <1>7, <1>8, <1>9

LEMMA NumberDoes ==
  ASSUME Requests, Numbered, NEW t \in Threads, CreateNumber(t)
  PROVE  /\ Alone(t) /\ job[t].pc = "walk"
         /\ job'[t].pc = "store" /\ job'[t].seq = seq /\ job'[t].at = job[t].at
         /\ job'[t].infos = job[t].infos
<1>0. job \in [Threads -> Job] /\ job[t] \in Job /\ seq \in Nat
  BY DEF Requests, Numbered
<1>1. PICK j : j = [Idle EXCEPT !.pc = "store", !.seq = seq, !.at = job[t].at,
                                !.infos = job[t].infos]
  OBVIOUS
<1>2. job' = [job EXCEPT ![t] = j] /\ job[t].pc = "walk"
  BY <1>1 DEF CreateNumber
<1>3. j \in Job
  BY <1>0, <1>1, IdleIs DEF Job
<1>4. j.pc = "store" /\ j.seq = seq /\ j.at = job[t].at /\ j.infos = job[t].infos
  BY <1>1, IdleIs DEF Job
<1> QED
  BY <1>0, <1>2, <1>3, <1>4, GoesOn

LEMMA StoreDoes ==
  ASSUME Requests, NEW t \in Threads, CreateStore(t)
  PROVE  Alone(t) /\ job[t].pc = "store" /\ job'[t].pc = "evict" /\ job'[t].at = 0
<1>1. PICK j : j = [Idle EXCEPT !.pc = "evict"]
  OBVIOUS
<1>2. job' = [job EXCEPT ![t] = j] /\ job[t].pc = "store"
  BY <1>1 DEF CreateStore
<1>3. j \in Job /\ j.pc = "evict" /\ j.at = 0
  BY <1>1, IdleIs DEF Job
<1> QED
  BY <1>2, <1>3, GoesOn DEF Requests

LEMMA CheckDoes ==
  ASSUME Requests, NEW t \in Threads, EvictCheck(t)
  PROVE  /\ Alone(t) /\ job[t].pc = "evict" /\ job'[t].at = job[t].at
         /\ job'[t].pc = IF Cardinality(kept) > Cap THEN "pick" ELSE "idle"
<1>0. job[t] \in Job
  BY DEF Requests
<1>1. PICK p : p = IF Cardinality(kept) > Cap THEN "pick" ELSE "idle"
  OBVIOUS
<1>2. PICK j : j = [job[t] EXCEPT !.pc = p]
  OBVIOUS
<1>3. job' = [job EXCEPT ![t] = j] /\ job[t].pc = "evict"
  BY <1>1, <1>2 DEF EvictCheck
<1>4. p \in {"pick", "idle"}
  BY <1>1
<1>5. j \in Job /\ j.pc = p /\ j.at = job[t].at
  BY <1>0, <1>2, <1>4 DEF Job
<1> QED
  BY <1>1, <1>3, <1>5, GoesOn DEF Requests

LEMMA PickDoes ==
  ASSUME Requests, Numbered, NEW t \in Threads, EvictPick(t)
  PROVE  Alone(t) /\ job[t].pc = "pick" /\ job'[t].pc = "drop" /\ job'[t].at = job[t].at
<1>0. job[t] \in Job
  BY DEF Requests
<1>1. PICK s \in kept : job' = [job EXCEPT ![t].pc = "drop", ![t].seq = s.seq]
  BY DEF EvictPick
<1>2. s.seq \in Nat
  BY DEF Numbered
<1>3. PICK j : j = [job[t] EXCEPT !.pc = "drop", !.seq = s.seq]
  OBVIOUS
<1>4. job' = [job EXCEPT ![t] = j] /\ job[t].pc = "pick"
  BY <1>1, <1>3 DEF EvictPick, Requests
<1>5. j \in Job /\ j.pc = "drop" /\ j.at = job[t].at
  BY <1>0, <1>2, <1>3 DEF Job
<1> QED
  BY <1>4, <1>5, GoesOn DEF Requests

LEMMA DropDoes ==
  ASSUME Requests, NEW t \in Threads, EvictDrop(t)
  PROVE  Alone(t) /\ job[t].pc = "drop" /\ job'[t].pc = "evict" /\ job'[t].at = 0
<1>1. PICK j : j = [Idle EXCEPT !.pc = "evict"]
  OBVIOUS
<1>2. job' = [job EXCEPT ![t] = j] /\ job[t].pc = "drop"
  BY <1>1 DEF EvictDrop
<1>3. j \in Job /\ j.pc = "evict" /\ j.at = 0
  BY <1>1, IdleIs DEF Job
<1> QED
  BY <1>2, <1>3, GoesOn DEF Requests

LEMMA RestoreBeginDoes ==
  ASSUME Requests, NEW t \in Threads, RestoreBegin(t)
  PROVE  Alone(t) /\ job[t].pc = "idle" /\ job'[t].pc = "restore" /\ job'[t].at = 0
<1>1. PICK l \in ListSnapshots : \E i \in GetSnapshot(l.id) :
        job' = [job EXCEPT ![t] = [Idle EXCEPT !.pc = "restore", !.infos = i]]
  BY DEF RestoreBegin
<1>2. PICK i \in GetSnapshot(l.id) :
        job' = [job EXCEPT ![t] = [Idle EXCEPT !.pc = "restore", !.infos = i]]
  BY <1>1
<1>3. i \in SUBSET Infos
  BY <1>2 DEF GetSnapshot, Requests
<1>4. PICK j : j = [Idle EXCEPT !.pc = "restore", !.infos = i]
  OBVIOUS
<1>5. job' = [job EXCEPT ![t] = j] /\ job[t].pc = "idle"
  BY <1>2, <1>4 DEF RestoreBegin
<1>6. j \in Job /\ j.pc = "restore" /\ j.at = 0
  BY <1>3, <1>4, IdleIs DEF Job
<1> QED
  BY <1>5, <1>6, GoesOn DEF Requests

LEMMA RestoreEndDoes ==
  ASSUME Requests, NEW t \in Threads, RestoreEnd(t)
  PROVE  Alone(t) /\ job[t].pc = "restore" /\ job'[t].pc = "idle" /\ job'[t].at = 0
BY IdleIs, GoesOn DEF RestoreEnd, Requests

\* A restoration takes a book off its list; the others see the books change.
LEMMA WritesDoes ==
  ASSUME Books, Requests, NEW t \in Threads, Writes(t)
  PROVE  /\ job' \in [Threads -> Job] /\ job[t].pc = "restore" /\ job'[t].pc = "restore"
         /\ job'[t].at = job[t].at
         /\ \A u \in Threads \ {t} : job'[u] = Watched(job[u])
<1>0. job \in [Threads -> Job] /\ job[t] \in Job
  BY DEF Requests
<1>1. PICK i : job' = [u \in Threads |->
                         IF u = t THEN [job[t] EXCEPT !.infos = @ \ {i}] ELSE Watched(job[u])]
  BY DEF Writes, RestoreBook, RestoreBookFails
<1>2. PICK j : j = [job[t] EXCEPT !.infos = @ \ {i}]
  OBVIOUS
<1>3. j \in Job /\ j.pc = job[t].pc /\ j.at = job[t].at
  BY <1>0, <1>2 DEF Job
<1>4. book' \in Hierarchies
  BY BooksRestore DEF Books
<1>5. \A u \in Threads : Watched(job[u]) \in Job
  BY <1>0, <1>4, WatchedIs
<1>6. job' = [u \in Threads |-> IF u = t THEN j ELSE Watched(job[u])]
  BY <1>1, <1>2
<1>7. job[t].pc = "restore"
  BY DEF Writes, RestoreBook, RestoreBookFails
<1> QED
  BY <1>3, <1>5, <1>6, <1>7

LEMMA TradeDoes ==
  ASSUME Books, Requests, Trade
  PROVE  /\ Books' /\ job' \in [Threads -> Job]
         /\ \A u \in Threads : job'[u] = Watched(job[u])
<1>1. Books'
  BY BooksTrade DEF Trade
<1>2. \A u \in Threads : Watched(job[u]) \in Job
  BY <1>1, WatchedIs DEF Books, Requests
<1> QED
  BY <1>1, <1>2 DEF Trade

-----------------------------------------------------------------------------
(***************************************************************************)
(* Every step is one of these, and keeps books and requests in order.      *)
(***************************************************************************)
\* A request of its own goes on, and no book changes.
Quietly(t) ==
  CreateBegin(t) \/ Visits(t) \/ CreateNumber(t) \/ CreateStore(t) \/ EvictCheck(t)
  \/ EvictPick(t) \/ EvictDrop(t) \/ RestoreBegin(t) \/ RestoreEnd(t)

LEMMA NextIs ==
  ASSUME [Next]_vars
  PROVE  \/ Trade \/ Tick \/ UNCHANGED vars
         \/ \E t \in Threads : Quietly(t) \/ Writes(t)
BY DEF Next, Quietly, Visits, Writes

LEMMA QuietlyDoes ==
  ASSUME Books, Requests, Numbered, NEW t \in Threads, Quietly(t)
  PROVE  /\ UNCHANGED <<hierarchyVars, clock>> /\ Alone(t) /\ job'[t].at <= clock
         /\ CreateStore(t) \/ EvictDrop(t) \/ UNCHANGED kept
         /\ CreateStore(t) \/ UNCHANGED <<stored, overlapped>>
         /\ CreateNumber(t) \/ UNCHANGED seq
<1>0. 0 <= clock /\ clock <= clock /\ job[t].at <= clock
  BY CapAssumption DEF Requests
<1>1. UNCHANGED <<hierarchyVars, clock>>
  BY DEF Quietly, CreateBegin, Visits, CreateVisit, CreateVisitFails, CreateNumber,
         CreateStore, EvictCheck, EvictPick, EvictDrop, RestoreBegin, RestoreEnd
<1>2. Alone(t) /\ job'[t].at <= clock
  BY <1>0, BeginDoes, VisitDoes, NumberDoes, StoreDoes, CheckDoes, PickDoes, DropDoes,
     RestoreBeginDoes, RestoreEndDoes DEF Quietly
<1>3. /\ CreateStore(t) \/ EvictDrop(t) \/ UNCHANGED kept
      /\ CreateStore(t) \/ UNCHANGED <<stored, overlapped>>
      /\ CreateNumber(t) \/ UNCHANGED seq
  BY DEF Quietly, CreateBegin, Visits, CreateVisit, CreateVisitFails, CreateNumber,
         CreateStore, EvictCheck, EvictPick, EvictDrop, RestoreBegin, RestoreEnd
<1> QED
  BY <1>1, <1>2, <1>3

LEMMA BooksStep ==
  ASSUME Books, Requests, Numbered, [Next]_vars
  PROVE  Books'
<1>1. CASE Trade
  BY <1>1, TradeDoes
<1>2. CASE \E t \in Threads : Writes(t)
  BY <1>2, BooksRestore
<1>3. CASE UNCHANGED hierarchyVars
  BY <1>3 DEF hierarchyVars, Books, InPlace, AsPlaced
<1>4. CASE \E t \in Threads : Quietly(t)
  BY <1>3, <1>4, QuietlyDoes
<1>5. CASE Tick \/ UNCHANGED vars
  BY <1>3, <1>5 DEF Tick, vars
<1> QED
  BY <1>1, <1>2, <1>4, <1>5, NextIs

LEMMA RequestsStep ==
  ASSUME Books, Requests, Numbered, [Next]_vars
  PROVE  Requests'
<1>0. /\ clock \in 0 .. MaxTime /\ job \in [Threads -> Job] /\ overlapped \in BOOLEAN
      /\ \A t \in Threads : job[t].at <= clock
  BY DEF Requests
<1>1. CASE Trade
  <2>1. \A u \in Threads : job'[u].at = job[u].at
    BY <1>0, <1>1, TradeDoes, WatchedIs DEF Books
  <2>2. UNCHANGED <<clock, kept, overlapped>>
    BY <1>1 DEF Trade
  <2> QED
    BY <1>0, <1>1, <2>1, <2>2, TradeDoes DEF Requests
<1>2. ASSUME NEW t \in Threads, Writes(t)
      PROVE  Requests'
  <2>0. book' \in Hierarchies
    BY <1>2, BooksRestore DEF Books
  <2>1. \A u \in Threads : job'[u].at = job[u].at
    BY <1>0, <1>2, <2>0, WritesDoes, WatchedIs
  <2>2. UNCHANGED <<clock, kept, overlapped>>
    BY <1>2 DEF Writes, RestoreBook, RestoreBookFails
  <2> QED
    BY <1>0, <1>2, <2>1, <2>2, WritesDoes DEF Requests
<1>3. ASSUME NEW t \in Threads, Quietly(t)
      PROVE  Requests'
  <2>1. /\ UNCHANGED clock /\ job' \in [Threads -> Job]
        /\ \A u \in Threads : job'[u].at <= clock
    BY <1>0, <1>3, QuietlyDoes DEF Alone
  <2>2. overlapped' \in BOOLEAN
    BY <1>0, <1>3, QuietlyDoes DEF CreateStore
  <2>3. \A s \in kept' : /\ s.at \in 0 .. clock /\ s.infos \in SUBSET Infos
                         /\ s = [seq |-> s.seq, at |-> s.at, infos |-> s.infos]
    <3>1. CASE CreateStore(t)
      <4>1. PICK s : s = [seq |-> job[t].seq, at |-> job[t].at, infos |-> job[t].infos]
        OBVIOUS
      <4>2. kept' = kept \cup {s}
        BY <3>1, <4>1 DEF CreateStore
      <4>3. /\ s.at \in 0 .. clock /\ s.infos \in SUBSET Infos
            /\ s = [seq |-> s.seq, at |-> s.at, infos |-> s.infos]
        BY <1>0, <4>1 DEF Job
      <4> QED
        BY <4>2, <4>3 DEF Requests
    <3>2. CASE EvictDrop(t)
      BY <3>2 DEF EvictDrop, Requests
    <3>3. CASE UNCHANGED kept
      BY <3>3 DEF Requests
    <3> QED
      BY <1>3, <3>1, <3>2, <3>3, QuietlyDoes
  <2> QED
    BY <1>0, <2>1, <2>2, <2>3 DEF Requests
<1>4. CASE Tick
  <2>1. /\ clock' = clock + 1 /\ clock < MaxTime /\ MaxTime \in Nat
        /\ UNCHANGED <<kept, job, overlapped>>
    BY <1>4, CapAssumption DEF Tick
  <2>2. clock' \in 0 .. MaxTime
    BY <1>0, <2>1
  <2>3. \A n \in 0 .. clock : n \in 0 .. clock'
    BY <1>0, <2>1
  <2>4. \A t \in Threads : job'[t].at <= clock'
    BY <1>0, <2>1 DEF Job
  <2> QED
    BY <1>0, <2>1, <2>2, <2>3, <2>4 DEF Requests
<1>5. CASE UNCHANGED vars
  BY <1>5 DEF vars, Requests
<1> QED
  BY <1>1, <1>2, <1>3, <1>4, <1>5, NextIs

-----------------------------------------------------------------------------
(***************************************************************************)
(* Walks.                                                                  *)
(***************************************************************************)
\* A change of the books, to a walk that goes on.
LEMMA WatchedWalk ==
  ASSUME Books, book' \in Hierarchies, NEW j \in Job, j.pc = "walk", Complete(j), Genuine(j),
         NEW w, w = Watched(j)
  PROVE  Complete(w)' /\ Genuine(w)'
<1>0. /\ w.infos = j.infos /\ w.start = j.start /\ w.visited = j.visited /\ w.failed = j.failed
      /\ w.throughout = j.throughout \cap Resting' /\ w.sometime = j.sometime \cup Resting'
      /\ w.deleted = (j.deleted \/ (DOMAIN book' = {} /\ DOMAIN book # {}))
      /\ w.old = IF ~ j.deleted /\ DOMAIN book' = {} THEN book ELSE j.old
  BY WatchedIs
<1>1. DOMAIN book' = {} => Resting' = {}
  BY RestingIs, RestsOf
<1>2. Complete(w)'
  <2>1. w.deleted => w.throughout = {}
    BY <1>0, <1>1 DEF Complete
  <2>2. w.throughout \subseteq Resting'
    BY <1>0
  <2>3. w.throughout \subseteq j.throughout
    BY <1>0
  <2> QED
    BY <1>0, <2>1, <2>2, <2>3 DEF Complete
<1>3. Genuine(w)'
  <2>1. Resting' \subseteq w.sometime /\ j.sometime \subseteq w.sometime
    BY <1>0
  <2>2. ASSUME w.deleted, NEW k \in DOMAIN w.old, NEW x \in DOMAIN w.old[k], NEW o \in w.old[k][x]
        PROVE  <<k, o>> \in w.sometime
    <3>1. CASE ~ j.deleted /\ DOMAIN book' = {}
      <4>1. w.old = book
        BY <1>0, <3>1
      <4>2. <<k, o>> \in Resting
        BY <2>2, <4>1, RestingIs, RestsOf DEF Books
      <4> QED
        BY <2>1, <4>2 DEF Genuine
    <3>2. CASE ~ (~ j.deleted /\ DOMAIN book' = {})
      <4>1. j.deleted /\ w.old = j.old
        BY <1>0, <2>2, <3>2
      <4> QED
        BY <2>1, <2>2, <4>1 DEF Genuine
    <3> QED
      BY <3>1, <3>2
  <2>3. \A i \in w.infos : \A o \in i.orders : \E r \in w.sometime : r[2] = o
    BY <1>0, <2>1 DEF Genuine
  <2> QED
    BY <2>1, <2>2, <2>3 DEF Genuine
<1> QED
  BY <1>2, <1>3

LEMMA WalkBegins ==
  ASSUME Books, Requests, NEW t \in Threads, CreateBegin(t)
  PROVE  Complete(job'[t]) /\ Genuine(job'[t])
<1>0. /\ job'[t].infos = {} /\ job'[t].deleted = FALSE /\ job'[t].visited = {}
      /\ job'[t].start = OptionBooks(book)
      /\ job'[t].throughout = Resting /\ job'[t].sometime = Resting
  BY BeginDoes
<1>1. ASSUME NEW r \in Resting
      PROVE  BookOf(r[1], r[2]) \in OptionBooks(book)
  <2>1. PICK x \in DOMAIN book[r[1]] : r[1] \in DOMAIN book /\ r[2] \in book[r[1]][x]
    BY <1>1, RestingIs, RestsOf DEF Books
  <2>2. x = Terms[r[2]].strike /\ r[2] \in Orders
    BY <2>1, HierarchyOf, LadderOf DEF Books, InPlace
  <2>3. Terms[r[2]].style \in Styles
    BY <2>2, TermsAssumption
  <2> QED
    BY <2>1, <2>2, <2>3, OptionsOf DEF Books, BookOf
<1>2. Complete(job'[t])
  BY <1>0, <1>1 DEF Complete
<1>3. Genuine(job'[t])
  BY <1>0 DEF Genuine
<1> QED
  BY <1>2, <1>3

LEMMA WalkVisits ==
  ASSUME Books, Requests, NEW t \in Threads, Visits(t), Complete(job[t]), Genuine(job[t])
  PROVE  Complete(job'[t]) /\ Genuine(job'[t])
<1>1. PICK c \in OptionBooks(Walked(t)) :
        /\ job'[t].visited = job[t].visited \cup {c}
        /\ \/ /\ job'[t].infos = job[t].infos \cup Saved(t, c)
              /\ job'[t].failed = job[t].failed
           \/ /\ job'[t].infos = job[t].infos
              /\ job'[t].failed = job[t].failed \cup {c}
        /\ job'[t].deleted = job[t].deleted /\ job'[t].old = job[t].old
        /\ job'[t].start = job[t].start
        /\ job'[t].throughout = job[t].throughout /\ job'[t].sometime = job[t].sometime
  BY VisitDoes
<1>2. /\ Walked(t) \in Hierarchies /\ InPlace(Walked(t)) /\ c \in Options
      /\ \A i \in Saved(t, c) : i.orders \subseteq Walked(t)[c[1]][c[2]]
      /\ \A o \in Walked(t)[c[1]][c[2]] :
           Terms[o].style = c[3] => \E i \in Saved(t, c) : o \in i.orders
  BY SavedIs
<1>3. c[1] \in DOMAIN Walked(t) /\ c[2] \in DOMAIN Walked(t)[c[1]]
  BY <1>2, OptionsOf
<1>4. ASSUME NEW r \in job[t].throughout,
             c = BookOf(r[1], r[2])
      PROVE  \E i \in Saved(t, c) : r[2] \in i.orders
  <2>1. ~ job[t].deleted /\ r \in Resting
    BY <1>4 DEF Complete
  <2>2. Walked(t) = book
    BY <2>1 DEF Walked
  <2>3. PICK x \in DOMAIN book[r[1]] : r[1] \in DOMAIN book /\ r[2] \in book[r[1]][x]
    BY <2>1, RestingIs, RestsOf DEF Books
  <2>4. x = Terms[r[2]].strike
    BY <2>3 DEF Books, InPlace
  <2> QED
    BY <1>2, <1>4, <2>2, <2>3, <2>4 DEF BookOf
<1>5. Complete(job'[t])
  <2>1. /\ job'[t].deleted => job'[t].throughout = {}
        /\ job'[t].throughout \subseteq Resting
    BY <1>1 DEF Complete
  <2>2. ASSUME NEW r \in job'[t].throughout, NEW d,
               d = BookOf(r[1], r[2])
        PROVE  /\ d \in job'[t].start
               /\ d \in job'[t].visited \ job'[t].failed => \E i \in job'[t].infos : r[2] \in i.orders
    <3>1. /\ d \in job[t].start
          /\ d \in job[t].visited \ job[t].failed => \E i \in job[t].infos : r[2] \in i.orders
      BY <1>1, <2>2 DEF Complete
    <3>2. d = c => \E i \in Saved(t, c) : r[2] \in i.orders
      BY <1>1, <1>4, <2>2
    <3> QED
      BY <1>1, <3>1, <3>2
  <2> QED
    BY <2>1, <2>2 DEF Complete
<1>6. Genuine(job'[t])
  <2>1. ASSUME NEW i \in Saved(t, c), NEW o \in i.orders
        PROVE  <<c[1], o>> \in job[t].sometime
    <3>1. o \in Walked(t)[c[1]][c[2]]
      BY <1>2, <2>1
    <3>2. CASE job[t].deleted
      <4>1. Walked(t) = job[t].old
        BY <3>2 DEF Walked
      <4> QED
        BY <1>3, <3>1, <3>2, <4>1 DEF Genuine
    <3>3. CASE ~ job[t].deleted
      <4>1. Walked(t) = book
        BY <3>3 DEF Walked
      <4>2. <<c[1], o>> \in Resting
        BY <1>2, <1>3, <3>1, <4>1, RestingIs, RestsOf
      <4> QED
        BY <4>2 DEF Genuine
    <3> QED
      BY <3>2, <3>3
  <2>2. \A i \in job'[t].infos : \A o \in i.orders : \E r \in job'[t].sometime : r[2] = o
    <3>1. ASSUME NEW i \in Saved(t, c), NEW o \in i.orders
          PROVE  \E r \in job[t].sometime : r[2] = o
      <4>1. <<c[1], o>> \in job[t].sometime /\ <<c[1], o>>[2] = o
        BY <2>1, <3>1
      <4> QED
        BY <4>1
    <3> QED
      BY <1>1, <3>1 DEF Genuine
  <2> QED
    BY <1>1, <2>2 DEF Genuine
<1> QED
  BY <1>5, <1>6

LEMMA WalksStep ==
  ASSUME Books, Requests, Numbered, Walks, [Next]_vars
  PROVE  Walks'
<1>0. job \in [Threads -> Job]
  BY DEF Requests
<1>1. ASSUME book' \in Hierarchies, NEW u \in Threads, job'[u] = Watched(job[u]),
             job'[u].pc = "walk"
      PROVE  Complete(job[u])' /\ Genuine(job[u])'
  <2>1. job[u].pc = "walk" /\ Complete(job[u]) /\ Genuine(job[u])
    BY <1>0, <1>1, WatchedIs DEF Walks
  <2>2. PICK w : w = job'[u]
    OBVIOUS
  <2>3. Complete(w)' /\ Genuine(w)'
    BY <1>0, <1>1, <2>1, <2>2, WatchedWalk
  <2> QED
    BY <2>2, <2>3 DEF Complete, Genuine
<1>2. CASE Trade
  BY <1>1, <1>2, TradeDoes DEF Walks, Books
<1>3. ASSUME NEW t \in Threads, Writes(t)
      PROVE  Walks'
  <2>1. book' \in Hierarchies
    BY <1>3, BooksRestore DEF Books
  <2> QED
    BY <1>1, <1>3, <2>1, WritesDoes DEF Walks
<1>4. ASSUME UNCHANGED book, NEW u \in Threads, Complete(job'[u]), Genuine(job'[u])
      PROVE  Complete(job[u])' /\ Genuine(job[u])'
  BY <1>4, RestingIs DEF Complete, Genuine
<1>5. ASSUME NEW t \in Threads, Quietly(t)
      PROVE  Walks'
  <2>1. UNCHANGED book /\ Alone(t)
    BY <1>5, QuietlyDoes DEF hierarchyVars
  <2>2. ASSUME job'[t].pc = "walk"
        PROVE  Complete(job'[t]) /\ Genuine(job'[t])
    <3>1. CreateBegin(t) \/ Visits(t)
      BY <1>5, <2>2, NumberDoes, StoreDoes, CheckDoes, PickDoes, DropDoes, RestoreBeginDoes,
         RestoreEndDoes DEF Quietly
    <3> QED
      BY <3>1, WalkBegins, WalkVisits, VisitDoes DEF Walks
  <2>3. ASSUME NEW u \in Threads, job'[u].pc = "walk"
        PROVE  Complete(job'[u]) /\ Genuine(job'[u])
    BY <2>1, <2>2, <2>3 DEF Alone, Walks
  <2> QED
    BY <1>4, <2>1, <2>3 DEF Walks
<1>6. CASE Tick \/ UNCHANGED vars
  <2>1. UNCHANGED <<book, job>>
    BY <1>6 DEF Tick, vars, hierarchyVars
  <2> QED
    BY <1>4, <2>1 DEF Walks
<1> QED
  BY <1>2, <1>3, <1>5, <1>6, NextIs

-----------------------------------------------------------------------------
(***************************************************************************)
(* Numbers and retention.                                                  *)
(***************************************************************************)
\* No request comes to another place.
SamePlaces ==
  /\ job' \in [Threads -> Job]
  /\ \A u \in Threads : job'[u].pc = job[u].pc /\ (job[u].pc = "store" => job'[u].seq = job[u].seq)

LEMMA OthersDo ==
  ASSUME Books, Requests, Numbered, [Next]_vars, \A t \in Threads : ~ Quietly(t)
  PROVE  SamePlaces /\ UNCHANGED <<seq, kept, stored, overlapped>>
<1>0. job \in [Threads -> Job]
  BY DEF Requests
<1>1. CASE Trade
  <2>1. UNCHANGED <<seq, kept, stored, overlapped>>
    BY <1>1 DEF Trade
  <2> QED
    BY <1>0, <1>1, <2>1, TradeDoes, WatchedIs DEF SamePlaces, Books
<1>2. ASSUME NEW t \in Threads, Writes(t)
      PROVE  SamePlaces /\ UNCHANGED <<seq, kept, stored, overlapped>>
  <2>1. UNCHANGED <<seq, kept, stored, overlapped>>
    BY <1>2 DEF Writes, RestoreBook, RestoreBookFails
  <2>2. book' \in Hierarchies
    BY <1>2, BooksRestore DEF Books
  <2> QED
    BY <1>0, <1>2, <2>1, <2>2, WritesDoes, WatchedIs DEF SamePlaces
<1>3. CASE Tick \/ UNCHANGED vars
  BY <1>0, <1>3 DEF Tick, vars, SamePlaces
<1> QED
  BY <1>1, <1>2, <1>3, NextIs

\* Who walks and who is about to store, after a step of a request.
LEMMA PlacesOf ==
  ASSUME NEW t \in Threads, Alone(t)
  PROVE  /\ Storing' = IF job'[t].pc = "store" THEN Storing \cup {t} ELSE Storing \ {t}
         /\ Creating' = IF job'[t].pc = "walk" THEN Creating \cup {t} ELSE Creating \ {t}
         /\ \A u \in Threads \ {t} : Evicting(u)' = Evicting(u)
<1>1. \A u \in Threads \ {t} : job'[u].pc = job[u].pc
  BY DEF Alone
<1> QED
  BY <1>1 DEF Storing, Creating, Evicting

LEMMA PlacesKept ==
  ASSUME SamePlaces
  PROVE  /\ Storing' = Storing /\ Creating' = Creating
         /\ \A u \in Threads : Evicting(u)' = Evicting(u)
BY DEF SamePlaces, Storing, Creating, Evicting

\* A request that neither walks nor stores goes on to do neither.
LEMMA PlaceOf ==
  ASSUME Books, Requests, Numbered, NEW t \in Threads, Quietly(t)
  PROVE  \/ CreateBegin(t) \/ CreateNumber(t) \/ CreateStore(t)
         \/ Storing' = Storing /\ Creating' = Creating
<1>1. Alone(t)
  BY QuietlyDoes
<1>2. CASE Visits(t)
  <2>1. job[t].pc = "walk" /\ job'[t].pc = "walk"
    BY <1>2, VisitDoes
  <2> QED
    BY <1>1, <2>1, PlacesOf DEF Storing, Creating
<1>3. CASE EvictCheck(t) \/ EvictPick(t) \/ EvictDrop(t) \/ RestoreBegin(t) \/ RestoreEnd(t)
  <2>1. job[t].pc \notin {"walk", "store"} /\ job'[t].pc \notin {"walk", "store"}
    BY <1>3, CheckDoes, PickDoes, DropDoes, RestoreBeginDoes, RestoreEndDoes
  <2> QED
    BY <1>1, <2>1, PlacesOf DEF Storing, Creating
<1> QED
  BY <1>2, <1>3 DEF Quietly

LEMMA NumberedStep ==
  ASSUME Books, Requests, Numbered, [Next]_vars
  PROVE  Numbered'
<1>0. /\ IsFiniteSet(kept) /\ seq \in Nat /\ Storing \subseteq Threads
      /\ \A s \in kept : s.seq \in 0 .. seq - 1
      /\ \A s, r \in kept : s.seq = r.seq => s = r
      /\ \A t \in Storing : /\ job[t].seq \in 0 .. seq - 1
                            /\ \A s \in kept : s.seq # job[t].seq
                            /\ \A u \in Storing \ {t} : job[u].seq # job[t].seq
  BY DEF Numbered, Storing
<1>1. CASE \A t \in Threads : ~ Quietly(t)
  <2>1. /\ UNCHANGED <<seq, kept>> /\ Storing' = Storing
        /\ \A t \in Storing : job'[t].seq = job[t].seq
    BY <1>1, OthersDo, PlacesKept DEF SamePlaces, Storing
  <2> QED
    BY <1>0, <2>1 DEF Numbered
<1>2. ASSUME NEW t \in Threads, Quietly(t), ~ CreateNumber(t), ~ CreateStore(t)
      PROVE  Numbered'
  <2>0. Alone(t) /\ UNCHANGED seq /\ (UNCHANGED kept \/ EvictDrop(t))
    BY <1>2, QuietlyDoes
  <2>1. Storing' = Storing /\ t \notin Storing
    <3>1. job[t].pc # "store" /\ job'[t].pc # "store"
      BY <1>2, BeginDoes, VisitDoes, CheckDoes, PickDoes, DropDoes, RestoreBeginDoes,
         RestoreEndDoes DEF Quietly
    <3> QED
      BY <2>0, <3>1, PlacesOf DEF Storing
  <2>2. \A u \in Storing : job'[u].seq = job[u].seq
    BY <1>0, <2>0, <2>1 DEF Alone
  <2>3. kept' \subseteq kept
    BY <2>0 DEF EvictDrop
  <2>4. IsFiniteSet(kept')
    BY <1>0, <2>3, FS_Subset
  <2> QED
    BY <1>0, <2>0, <2>1, <2>2, <2>3, <2>4 DEF Numbered
<1>3. ASSUME NEW t \in Threads, CreateNumber(t)
      PROVE  Numbered'
  <2>1. /\ Alone(t) /\ job[t].pc = "walk" /\ job'[t].pc = "store" /\ job'[t].seq = seq
        /\ seq' = seq + 1 /\ UNCHANGED kept
    BY <1>3, NumberDoes DEF CreateNumber
  <2>2. Storing' = Storing \cup {t} /\ t \notin Storing
    BY <2>1, PlacesOf DEF Storing
  <2>3. \A u \in Storing : job'[u].seq = job[u].seq
    BY <1>0, <2>1, <2>2 DEF Alone
  <2>4. seq' \in Nat /\ seq \in 0 .. seq' - 1 /\ seq \notin 0 .. seq - 1
        /\ \A n \in 0 .. seq - 1 : n \in 0 .. seq' - 1
    BY <1>0, <2>1
  <2>5. \A s \in kept : s.seq \in 0 .. seq' - 1 /\ s.seq # seq
    BY <1>0, <2>4
  <2>6. ASSUME NEW u \in Storing'
        PROVE  /\ job'[u].seq \in 0 .. seq' - 1
               /\ \A s \in kept : s.seq # job'[u].seq
               /\ \A v \in Storing' \ {u} : job'[v].seq # job'[u].seq
    <3>1. CASE u = t
      BY <1>0, <2>1, <2>2, <2>3, <2>4, <2>5, <3>1
    <3>2. CASE u # t
      <4>1. u \in Storing /\ job'[u].seq = job[u].seq
        BY <2>2, <2>3, <2>6, <3>2
      <4> QED
        BY <1>0, <2>1, <2>2, <2>3, <2>4, <4>1
    <3> QED
      BY <3>1, <3>2
  <2> QED
    BY <1>0, <2>1, <2>4, <2>5, <2>6 DEF Numbered
<1>4. ASSUME NEW t \in Threads, CreateStore(t)
      PROVE  Numbered'
  <2>1. /\ Alone(t) /\ job[t].pc = "store" /\ job'[t].pc = "evict" /\ UNCHANGED seq
    BY <1>4, StoreDoes DEF CreateStore
  <2>2. Storing' = Storing \ {t} /\ t \in Storing
    BY <2>1, PlacesOf DEF Storing
  <2>3. \A u \in Storing' : job'[u].seq = job[u].seq
    BY <1>0, <2>1, <2>2 DEF Alone
  <2>4. PICK s : s = [seq |-> job[t].seq, at |-> job[t].at, infos |-> job[t].infos]
    OBVIOUS
  <2>5. kept' = kept \cup {s} /\ s.seq = job[t].seq
    BY <1>4, <2>4 DEF CreateStore
  <2>6. IsFiniteSet(kept')
    BY <1>0, <2>5, FS_AddElement
  <2>7. \A r \in kept' : r.seq \in 0 .. seq - 1
    BY <1>0, <2>2, <2>5
  <2>8. \A r, q \in kept' : r.seq = q.seq => r = q
    BY <1>0, <2>2, <2>5
  <2>9. \A u \in Storing' : /\ job'[u].seq \in 0 .. seq - 1
                            /\ \A r \in kept' : r.seq # job'[u].seq
                            /\ \A v \in Storing' \ {u} : job'[v].seq # job'[u].seq
    BY <1>0, <2>2, <2>3, <2>5
  <2> QED
    BY <1>0, <2>1, <2>6, <2>7, <2>8, <2>9 DEF Numbered
<1> QED
  BY <1>1, <1>2, <1>3, <1>4

LEMMA CountedStep ==
  ASSUME Books, Requests, Numbered, Counted, [Next]_vars
  PROVE  Counted'
<1>0. /\ IsFiniteSet(Creating) /\ seq + Cardinality(Creating) <= MaxSnapshots
      /\ IsFiniteSet(Storing) /\ stored \in Nat /\ stored + Cardinality(Storing) = seq
      /\ Cardinality(Creating) \in Nat /\ Cardinality(Storing) \in Nat
      /\ seq \in Nat /\ MaxSnapshots \in Nat
  BY CapAssumption, FS_CardinalityType DEF Counted, Numbered
<1>1. ASSUME Storing' = Storing, Creating' = Creating, UNCHANGED <<seq, stored>>
      PROVE  Counted'
  BY <1>0, <1>1 DEF Counted
<1>2. CASE \A t \in Threads : ~ Quietly(t)
  BY <1>1, <1>2, OthersDo, PlacesKept
<1>3. ASSUME NEW t \in Threads, CreateBegin(t)
      PROVE  Counted'
  <2>1. /\ Alone(t) /\ job[t].pc = "idle" /\ job'[t].pc = "walk" /\ UNCHANGED <<seq, stored>>
        /\ seq + Cardinality(Creating) < MaxSnapshots
    BY <1>3, BeginDoes DEF CreateBegin
  <2>2. Storing' = Storing /\ Creating' = Creating \cup {t} /\ t \notin Creating
    BY <2>1, PlacesOf DEF Storing, Creating
  <2>3. IsFiniteSet(Creating') /\ Cardinality(Creating') = Cardinality(Creating) + 1
    BY <1>0, <2>2, FS_AddElement
  <2> QED
    BY <1>0, <2>1, <2>2, <2>3 DEF Counted
<1>4. ASSUME NEW t \in Threads, CreateNumber(t)
      PROVE  Counted'
  <2>1. /\ Alone(t) /\ job[t].pc = "walk" /\ job'[t].pc = "store"
        /\ seq' = seq + 1 /\ UNCHANGED stored
    BY <1>4, NumberDoes DEF CreateNumber
  <2>2. /\ Storing' = Storing \cup {t} /\ t \notin Storing
        /\ Creating' = Creating \ {t} /\ t \in Creating
    BY <2>1, PlacesOf DEF Storing, Creating
  <2>3. IsFiniteSet(Creating') /\ Cardinality(Creating') = Cardinality(Creating) - 1
    BY <1>0, <2>2, FS_RemoveElement
  <2>4. IsFiniteSet(Storing') /\ Cardinality(Storing') = Cardinality(Storing) + 1
    BY <1>0, <2>2, FS_AddElement
  <2>5. seq' + Cardinality(Creating') <= MaxSnapshots
    BY <1>0, <2>1, <2>3
  <2>6. stored' \in Nat /\ stored' + Cardinality(Storing') = seq'
    BY <1>0, <2>1, <2>4
  <2> QED
    BY <2>3, <2>4, <2>5, <2>6 DEF Counted
<1>5. ASSUME NEW t \in Threads, CreateStore(t)
      PROVE  Counted'
  <2>1. /\ Alone(t) /\ job[t].pc = "store" /\ job'[t].pc = "evict"
        /\ stored' = stored + 1 /\ UNCHANGED seq
    BY <1>5, StoreDoes DEF CreateStore
  <2>2. Storing' = Storing \ {t} /\ t \in Storing /\ Creating' = Creating
    BY <2>1, PlacesOf DEF Storing, Creating
  <2>3. IsFiniteSet(Storing') /\ Cardinality(Storing') = Cardinality(Storing) - 1
    BY <1>0, <2>2, FS_RemoveElement
  <2> QED
    BY <1>0, <2>1, <2>2, <2>3 DEF Counted
<1>6. ASSUME NEW t \in Threads, Quietly(t), ~ CreateBegin(t), ~ CreateNumber(t), ~ CreateStore(t)
      PROVE  Counted'
  BY <1>1, <1>6, PlaceOf, QuietlyDoes
<1> QED
  BY <1>2, <1>3, <1>4, <1>5, <1>6

LEMMA RetainedStep ==
  ASSUME Books, Requests, Numbered, Counted, Retained, [Next]_vars
  PROVE  Retained'
<1>0. /\ IsFiniteSet(kept) /\ Cardinality(kept) \in Nat /\ Cap \in Nat \ {0} /\ stored \in Nat
      /\ overlapped \in BOOLEAN
      /\ \A s, r \in kept : s.seq = r.seq => s = r
  BY CapAssumption, FS_CardinalityType DEF Numbered, Counted, Requests
<1>1. CASE \A t \in Threads : ~ Quietly(t)
  <2>1. UNCHANGED <<kept, stored, overlapped>> /\ \A u \in Threads : job'[u].pc = job[u].pc
    BY <1>1, OthersDo DEF SamePlaces
  <2> QED
    BY <2>1 DEF Retained, Evicting
<1>2. ASSUME NEW t \in Threads, Alone(t), UNCHANGED <<kept, stored, overlapped>>,
             ~ Evicting(t), ~ Evicting(t)'
      PROVE  Retained'
  <2>1. \A u \in Threads : Evicting(u)' = Evicting(u)
    BY <1>2, PlacesOf DEF Evicting
  <2>2. \A u \in Threads : job'[u].pc \in {"pick", "drop"} => job[u].pc \in {"pick", "drop"}
    BY <1>2 DEF Alone, Evicting
  <2> QED
    BY <1>2, <2>1, <2>2 DEF Retained
<1>3. ASSUME NEW t \in Threads,
             CreateBegin(t) \/ Visits(t) \/ CreateNumber(t) \/ RestoreBegin(t) \/ RestoreEnd(t)
      PROVE  Retained'
  <2>1. Alone(t) /\ UNCHANGED <<kept, stored, overlapped>>
    BY <1>3, QuietlyDoes 
     DEF Quietly, CreateBegin, Visits, CreateVisit, CreateVisitFails, CreateNumber, RestoreBegin,
         RestoreEnd
  <2>2. ~ Evicting(t) /\ ~ Evicting(t)'
    BY <1>3, BeginDoes, VisitDoes, NumberDoes, RestoreBeginDoes, RestoreEndDoes DEF Evicting
  <2> QED
    BY <1>2, <2>1, <2>2
<1>4. ASSUME NEW t \in Threads, CreateStore(t)
      PROVE  Retained'
  <2>1. Alone(t) /\ job[t].pc = "store" /\ job'[t].pc = "evict"
    BY <1>4, StoreDoes
  <2>2. ~ Evicting(t) /\ Evicting(t)' /\ t \in Storing
    BY <2>1 DEF Evicting, Storing
  <2>3. PICK s : s = [seq |-> job[t].seq, at |-> job[t].at, infos |-> job[t].infos]
    OBVIOUS
  <2>4. kept' = kept \cup {s} /\ s.seq = job[t].seq /\ stored' = stored + 1
    BY <1>4, <2>3 DEF CreateStore
  <2>5. s \notin kept
    BY <2>2, <2>4 DEF Numbered
  <2>6. Cardinality(kept') = Cardinality(kept) + 1
    BY <1>0, <2>4, <2>5, FS_AddElement
  <2>7. ~ overlapped' => ~ overlapped /\ \A u \in Threads : ~ Evicting(u)
    BY <1>4 DEF CreateStore
  <2>8. \A u \in Threads \ {t} : Evicting(u)' = Evicting(u)
    BY <2>1, PlacesOf
  <2>9. ASSUME ~ overlapped'
        PROVE  /\ Cardinality(kept') >= Cap \/ Cardinality(kept') >= stored'
               /\ \A u, v \in Threads : Evicting(u)' /\ Evicting(v)' => u = v
               /\ \A u \in Threads : job'[u].pc \in {"pick", "drop"} => Cardinality(kept') > Cap
    <3>1. Cardinality(kept') >= Cap \/ Cardinality(kept') >= stored'
      BY <1>0, <2>4, <2>6, <2>7, <2>9 DEF Retained
    <3>2. \A u \in Threads : Evicting(u)' => u = t
      BY <2>7, <2>8, <2>9
    <3>3. \A u \in Threads : job'[u].pc \in {"pick", "drop"} => Evicting(u)'
      BY DEF Evicting
    <3> QED
      BY <2>1, <3>1, <3>2, <3>3
  <2> QED
    BY <2>2, <2>9 DEF Retained
<1>5. ASSUME NEW t \in Threads, EvictCheck(t)
      PROVE  Retained'
  <2>1. /\ Alone(t) /\ job[t].pc = "evict" /\ UNCHANGED <<kept, stored, overlapped>>
        /\ job'[t].pc = IF Cardinality(kept) > Cap THEN "pick" ELSE "idle"
    BY <1>5, CheckDoes DEF EvictCheck
  <2>2. \A u \in Threads \ {t} : job'[u].pc = job[u].pc /\ Evicting(u)' = Evicting(u)
    BY <2>1, PlacesOf DEF Alone
  <2>3. (\A u \in Threads : ~ Evicting(u)') => Cardinality(kept) <= Cap
    <3>1. Cardinality(kept) > Cap => Evicting(t)'
      BY <2>1 DEF Evicting
    <3> QED
      BY <1>0, <3>1
  <2>4. \A u \in Threads : Evicting(u)' => Evicting(u)
    BY <2>1, <2>2 DEF Evicting
  <2>5. \A u \in Threads : job'[u].pc \in {"pick", "drop"} =>
          job[u].pc \in {"pick", "drop"} \/ Cardinality(kept) > Cap
    BY <2>1, <2>2
  <2> QED
    BY <2>1, <2>3, <2>4, <2>5 DEF Retained
<1>6. ASSUME NEW t \in Threads, EvictPick(t)
      PROVE  Retained'
  <2>1. /\ Alone(t) /\ job[t].pc = "pick" /\ job'[t].pc = "drop"
        /\ UNCHANGED <<kept, stored, overlapped>>
    BY <1>6, PickDoes DEF EvictPick
  <2>2. \A u \in Threads \ {t} : job'[u].pc = job[u].pc /\ Evicting(u)' = Evicting(u)
    BY <2>1, PlacesOf DEF Alone
  <2>3. \A u \in Threads : Evicting(u)' = Evicting(u)
    BY <2>1, <2>2 DEF Evicting
  <2>4. \A u \in Threads : job'[u].pc \in {"pick", "drop"} => job[u].pc \in {"pick", "drop"}
    BY <2>1, <2>2
  <2> QED
    BY <2>1, <2>3, <2>4 DEF Retained
<1>7. ASSUME NEW t \in Threads, EvictDrop(t)
      PROVE  Retained'
  <2>1. /\ Alone(t) /\ job[t].pc = "drop" /\ job'[t].pc = "evict"
        /\ UNCHANGED <<stored, overlapped>>
        /\ kept' = {s \in kept : s.seq # job[t].seq}
    BY <1>7, DropDoes DEF EvictDrop
  <2>2. Evicting(t) /\ Evicting(t)'
    BY <2>1 DEF Evicting
  <2>3. \A u \in Threads \ {t} : job'[u].pc = job[u].pc /\ Evicting(u)' = Evicting(u)
    BY <2>1, PlacesOf DEF Alone
  <2>4. Cardinality(kept') >= Cardinality(kept) - 1 /\ Cardinality(kept') \in Nat
    <3>1. CASE \E s \in kept : s.seq = job[t].seq
      <4>1. PICK s \in kept : s.seq = job[t].seq
        BY <3>1
      <4>2. kept' = kept \ {s}
        BY <1>0, <2>1, <4>1
      <4>3. IsFiniteSet(kept') /\ Cardinality(kept') = Cardinality(kept) - 1
        BY <1>0, <4>1, <4>2, FS_RemoveElement
      <4>4. Cardinality(kept') \in Nat
        BY <4>3, FS_CardinalityType
      <4> QED
        BY <1>0, <4>3, <4>4
    <3>2. CASE ~ \E s \in kept : s.seq = job[t].seq
      <4>1. kept' = kept
        BY <2>1, <3>2
      <4> QED
        BY <1>0, <4>1
    <3> QED
      BY <3>1, <3>2
  <2>5. ASSUME ~ overlapped
        PROVE  /\ Cardinality(kept') >= Cap
               /\ \A u, v \in Threads : Evicting(u)' /\ Evicting(v)' => u = v
               /\ \A u \in Threads : job'[u].pc \notin {"pick", "drop"}
    <3>1. Cardinality(kept) > Cap /\ \A u \in Threads : Evicting(u) => u = t
      BY <2>1, <2>2, <2>5 DEF Retained
    <3>2. \A u \in Threads : Evicting(u)' => u = t
      BY <2>3, <3>1
    <3>3. \A u \in Threads : job'[u].pc \in {"pick", "drop"} => Evicting(u)'
      BY DEF Evicting
    <3> QED
      BY <1>0, <2>1, <2>4, <3>1, <3>2, <3>3
  <2> QED
    BY <2>1, <2>2, <2>5 DEF Retained
<1> QED
  BY <1>1, <1>3, <1>4, <1>5, <1>6, <1>7 DEF Quietly

-----------------------------------------------------------------------------
(***************************************************************************)
(* Theorems.                                                               *)
(***************************************************************************)
LEMMA InvInit == Init => IInv
<1> SUFFICES ASSUME Init PROVE IInv
  OBVIOUS
<1>1. Books
  <2>1. PICK h : h = [k \in {Date(d) : d \in Seeded} |-> [x \in Strikes |-> {}]]
    OBVIOUS
  <2>2. today = 0 /\ book = h /\ via = [o \in Orders |-> Never]
    BY <2>1 DEF Init, HierarchyInit
  <2>3. {Date(d) : d \in Seeded} \in SUBSET Keys
    BY CalendarAssumption DEF Keys
  <2>4. [x \in Strikes |-> {}] \in Ladders
    <3>1. [x \in Strikes |-> {}] \in [Strikes -> SUBSET Orders]
      OBVIOUS
    <3> QED
      BY <3>1, LadderMade
  <2>5. h \in [{Date(d) : d \in Seeded} -> Ladders]
    BY <2>1, <2>4
  <2>6. h \in Hierarchies
    BY <2>3, <2>5, HierarchyMade
  <2>7. \A k \in DOMAIN h : \A x \in DOMAIN h[k] : h[k][x] = {}
    BY <2>1
  <2> QED
    BY <2>2, <2>6, <2>7, CalendarAssumption DEF Books, InPlace, AsPlaced
<1>2. Requests
  <2>1. clock = 0 /\ kept = {} /\ overlapped = FALSE /\ job = [t \in Threads |-> Idle]
    BY DEF Init
  <2>2. clock \in 0 .. MaxTime
    BY <2>1, CapAssumption
  <2>3. job \in [Threads -> Job] /\ \A t \in Threads : job[t].at <= clock
    BY <2>1, IdleIs
  <2> QED
    BY <2>1, <2>2, <2>3 DEF Requests
<1>3. /\ kept = {} /\ seq = 0 /\ stored = 0 /\ \A t \in Threads : job[t].pc = "idle"
  BY IdleIs DEF Init
<1>4. Storing = {} /\ Creating = {} /\ \A t \in Threads : ~ Evicting(t)
  BY <1>3 DEF Storing, Creating, Evicting
<1>5. Walks
  BY <1>3 DEF Walks
<1>6. Numbered /\ Counted
  BY <1>3, <1>4, FS_EmptySet, CapAssumption DEF Numbered, Counted
<1>7. Retained
  BY <1>3, <1>4, FS_EmptySet, CapAssumption DEF Retained
<1> QED
  BY <1>1, <1>2, <1>5, <1>6, <1>7 DEF IInv

LEMMA InvHolds == Spec => []IInv
<1>1. IInv /\ [Next]_vars => IInv'
  BY BooksStep, RequestsStep, WalksStep, NumberedStep, CountedStep, RetainedStep DEF IInv
<1> QED
  BY <1>1, InvInit, PTL DEF Spec

\* The books, the requests and the snapshots retained hold what their types say,
\* and no more numbers are taken than snapshots stored or about to be.
THEOREM TypeCorrect == Spec => []TypeOK
<1>1. IInv => TypeOK
  <2> SUFFICES ASSUME IInv PROVE TypeOK
    OBVIOUS
  <2>1. HierarchyTypeOK
    BY HierarchyOf DEF IInv, Books, HierarchyTypeOK, Ladders
  <2>2. seq \in 0 .. MaxSnapshots /\ stored \in 0 .. seq
    <3>1. Cardinality(Creating) \in Nat /\ Cardinality(Storing) \in Nat
      BY FS_CardinalityType DEF IInv, Counted
    <3> QED
      BY <3>1, CapAssumption DEF IInv, Counted, Numbered
  <2>3. Infos \subseteq Info
    BY DEF Infos
  <2>4. \A s \in kept : s.seq \in 0 .. seq - 1 /\ s.at \in 0 .. clock /\ s.infos \subseteq Info
    BY <2>3 DEF IInv, Numbered, Requests
  <2>5. ASSUME NEW t \in Threads
        PROVE  /\ job[t].pc \in {"idle", "walk", "store", "evict", "pick", "drop", "restore"}
               /\ job[t].at \in 0 .. clock
               /\ job[t].infos \subseteq Info
               /\ job[t].start \cup job[t].visited \cup job[t].failed \subseteq Keys \X Strikes \X Styles
    <3>1. job[t] \in Job /\ job[t].at <= clock /\ clock \in 0 .. MaxTime
      BY DEF IInv, Requests
    <3> QED
      BY <2>3, <3>1, CapAssumption DEF Job, Options
  <2>6. clock \in 0 .. MaxTime /\ overlapped \in BOOLEAN
    BY DEF IInv, Requests
  <2> QED
    BY <2>1, <2>2, <2>4, <2>5, <2>6 DEF TypeOK
<1> QED
  BY <1>1, InvHolds, PTL

\* create_snapshot walks the books without a lock; yet what rested in a book from
\* the beginning of the walk to its end is in the snapshot, unless its book could not
\* be serialized and is counted in orderbooks_failed.
THEOREM NothingThatStayedIsMissed == Spec => []SnapshotIsComplete
<1>1. IInv => SnapshotIsComplete
  <2> SUFFICES ASSUME IInv, NEW t \in Threads, job[t].pc = "walk",
                      job[t].start \subseteq job[t].visited, NEW r \in job[t].throughout,
                      BookOf(r[1], r[2]) \notin job[t].failed
               PROVE  \E i \in job[t].infos : r[2] \in i.orders
    BY DEF SnapshotIsComplete
  <2>1. Complete(job[t])
    BY DEF IInv, Walks
  <2>2. BookOf(r[1], r[2]) \in job[t].visited \ job[t].failed
    BY <2>1 DEF Complete
  <2> QED
    BY <2>1, <2>2 DEF Complete
<1> QED
  BY <1>1, InvHolds, PTL

\* And what is in it has rested during the walk, also when the underlying was
\* deleted, and made anew, under it.
THEOREM NothingIsMadeUp == Spec => []SnapshotIsGenuine
<1>1. IInv => SnapshotIsGenuine
  BY DEF IInv, Walks, Genuine, SnapshotIsGenuine
<1> QED
  BY <1>1, InvHolds, PTL

\* insert_snapshot_bounded, however many creations run at once: once nobody
\* evicts, no more than the cap is retained; and as long as no two creations
\* evicted at the same time, never less than the cap, or all there are.
THEOREM RetentionKeepsToItsCap == Spec => []RetentionHolds
<1>1. IInv => RetentionHolds
  <2> SUFFICES ASSUME IInv PROVE RetentionHolds
    OBVIOUS
  <2>1. IsFiniteSet(kept) /\ Cardinality(kept) \in Nat /\ Cap \in Nat /\ stored \in Nat
    BY FS_CardinalityType, CapAssumption DEF IInv, Numbered, Counted
  <2>2. Cardinality(ListSnapshots) \in Nat /\ Cardinality(ListSnapshots) <= Cardinality(kept)
    <3> DEFINE f == [s \in kept |->
                       [id |-> s.seq, at |-> s.at, books |-> Cardinality(s.infos),
                        orders |-> MapThenSumSet(LAMBDA i : Cardinality(i.orders), s.infos)]]
    <3>1. ListSnapshots = {f[s] : s \in kept} /\ f \in [kept -> ListSnapshots]
      BY DEF ListSnapshots
    <3> HIDE DEF f
    <3>2. f \in Surjection(kept, ListSnapshots)
      BY <3>1 DEF Surjection
    <3> QED
      BY <2>1, <3>2, FS_Surjection, FS_CardinalityType
  <2>3. (\A t \in Threads : ~ Evicting(t)) => Cardinality(ListSnapshots) <= Cap
    BY <2>1, <2>2 DEF IInv, Retained
  <2>4. ~ overlapped => Cardinality(kept) >= (IF stored < Cap THEN stored ELSE Cap)
    BY <2>1 DEF IInv, Retained
  <2> QED
    BY <2>3, <2>4 DEF RetentionHolds
<1> QED
  BY <1>1, InvHolds, PTL

-----------------------------------------------------------------------------
(***************************************************************************)
(* The books that a segment finds.                                         *)
(***************************************************************************)
\* An order a client may expect is in the one book its segment finds.
LEMMA ExpectedIsFound ==
  ASSUME IInv, NEW o \in Orders, Expected(o)
  PROVE  /\ via[o] \in DOMAIN book /\ via[o] \in Segments /\ Found(via[o]) = {via[o]}
         /\ Terms[o].strike \in DOMAIN book[via[o]] /\ o \in book[via[o]][Terms[o].strike]
<1>1. PICK k \in DOMAIN book : o \in OrdersIn(k)
  BY DEF Expected
<1>2. via[o] = k /\ k \in Segments
  <2>1. PICK x \in DOMAIN book[k] : o \in book[k][x]
    BY <1>1 DEF OrdersIn
  <2> QED
    BY <2>1, Names DEF IInv, Books, AsPlaced, Expected
<1>3. DOMAIN book \subseteq Keys /\ k \in Keys
  BY HierarchyOf DEF IInv, Books
<1>4. Found(k) = {k}
  <2>1. CASE \E n \in DayCounts : k = In(n)
    <3>1. \A j \in DOMAIN book : Format(j) # k
      <4>1. k.form = "days"
        BY <2>1 DEF In
      <4>2. \A j \in Keys : Format(j).form = "date"
        BY DEF Keys, Format, Date, In
      <4> QED
        BY <1>3, <4>1, <4>2
    <3>2. Parse(k) = {k}
      BY <2>1 DEF Parse, In
    <3> QED
      BY <3>1, <3>2 DEF Found
  <2>2. CASE ~ \E n \in DayCounts : k = In(n)
    <3>1. Format(k) = k
      BY <1>3, <2>2 DEF Keys, Format, Date
    <3>2. ASSUME NEW j \in DOMAIN book, Format(j) = k
          PROVE  j = k
      <4>1. ASSUME NEW n \in DayCounts, j = In(n)
            PROVE  FALSE
        BY <1>2, <3>2, <4>1 DEF Expected, Shadowed
      <4>2. \E d \in Nat : j = Date(d)
        BY <1>3, <4>1, CalendarAssumption DEF Keys
      <4> QED
        BY <3>2, <4>2 DEF Format, Date
    <3> QED
      BY <3>1, <3>2 DEF Found
  <2> QED
    BY <2>1, <2>2
<1>5. PICK x \in DOMAIN book[k] : o \in book[k][x]
  BY <1>1 DEF OrdersIn
<1>6. x = Terms[o].strike
  BY <1>5 DEF IInv, Books, InPlace
<1> QED
  BY <1>1, <1>2, <1>4, <1>5, <1>6

\* The socket, which looks by itself, finds the same.
LEMMA SocketFinds ==
  ASSUME IInv, NEW s \in Segments
  PROVE  FoundBySocket(s) = Found(s)
<1>1. DOMAIN book \subseteq Keys
  BY HierarchyOf DEF IInv, Books
<1>2. \A j \in Keys : Format(j).form = "date"
  BY DEF Keys, Format, Date, In
<1>3. CASE s.form = "days"
  <2>1. \A j \in DOMAIN book : Format(j) # s
    BY <1>1, <1>2, <1>3
  <2>2. Parse(s) = {s}
    BY <1>3 DEF Parse
  <2> QED
    BY <1>3, <2>1, <2>2 DEF FoundBySocket, Found
<1>4. CASE s.form = "date"
  <2>1. Parse(s) = {s} /\ Format(s) = s
    BY <1>4 DEF Parse, Format
  <2>2. Found(s) = {k \in DOMAIN book : Format(k) = s}
    BY <2>1 DEF Found
  <2> QED
    BY <1>4, <2>2 DEF FoundBySocket
<1>5. CASE s.form = "malformed"
  <2>1. Parse(s) = {} /\ \A j \in DOMAIN book : Format(j) # s
    BY <1>1, <1>2, <1>5 DEF Parse
  <2> QED
    BY <1>5, <2>1 DEF FoundBySocket, Found
<1>6. s.form \in {"days", "date", "malformed"}
  BY DEF Segments, Date, In, Malformed
<1> QED
  BY <1>3, <1>4, <1>5, <1>6

-----------------------------------------------------------------------------
(***************************************************************************)
(* What the queries tell of an order that rests.                           *)
(***************************************************************************)

\* There are finitely many names of books, and as many orders in them.
LEMMA NamesFinite == IsFiniteSet(Pairs)
<1> DEFINE days == DayCounts \X (0 .. LastDay)
           falls == {n + m : n \in DayCounts, m \in 0 .. LastDay}
           dated(D) == [d \in D |-> Date(d)]
           counted == [n \in DayCounts |-> In(n)]
<1>1. IsFiniteSet(DayCounts) /\ IsFiniteSet(Dates) /\ LastDay \in Nat /\ IsFiniteSet(Orders)
  BY CalendarAssumption, TermsAssumption
<1>2. IsFiniteSet(days)
  <2>1. IsFiniteSet(0 .. LastDay)
    <3>1. 0 \in Int /\ LastDay \in Int
      BY <1>1
    <3> QED
      BY <3>1, FS_Interval
  <2> QED
    BY <1>1, <2>1, FS_Product
<1>3. IsFiniteSet(falls)
  <2> DEFINE later == [p \in days |-> p[1] + p[2]]
  <2>1. later \in Surjection(days, falls)
    <3>1. later \in [days -> falls] /\ \A d \in falls : \E p \in days : later[p] = d
      <4>1. \A p \in days : p[1] + p[2] \in falls
        OBVIOUS
      <4>2. ASSUME NEW d \in falls PROVE \E p \in days : later[p] = d
        <5>1. PICK n \in DayCounts, m \in 0 .. LastDay : d = n + m
          OBVIOUS
        <5>2. <<n, m>> \in days /\ later[<<n, m>>] = n + m
          OBVIOUS
        <5> QED
          BY <5>1, <5>2
      <4> QED
        BY <4>1, <4>2
    <3> HIDE DEF later, days, falls
    <3> QED
      BY <3>1 DEF Surjection
  <2> QED
    BY <1>2, <2>1, FS_Surjection
<1>4. \A D : IsFiniteSet(D) => IsFiniteSet({Date(d) : d \in D})
  <2> SUFFICES ASSUME NEW D, IsFiniteSet(D) PROVE IsFiniteSet({Date(d) : d \in D})
    OBVIOUS
  <2>1. dated(D) \in Surjection(D, {Date(d) : d \in D})
    BY DEF Surjection
  <2> QED
    BY <2>1, FS_Surjection
<1>5. IsFiniteSet({In(n) : n \in DayCounts})
  <2>1. counted \in Surjection(DayCounts, {In(n) : n \in DayCounts})
    BY DEF Surjection
  <2> QED
    BY <1>1, <2>1, FS_Surjection
<1>6. IsFiniteSet({Date(d) : d \in Dates \cup falls})
  <2> HIDE DEF falls
  <2> QED
    BY <1>1, <1>3, <1>4, FS_Union
<1>7. IsFiniteSet(Keys)
  <2>1. Keys = {Date(d) : d \in Dates \cup falls} \cup {In(n) : n \in DayCounts}
    BY DEF Keys
  <2> HIDE DEF falls
  <2> QED
    BY <1>5, <1>6, <2>1, FS_Union
<1> QED
  BY <1>1, <1>7, FS_Product DEF Pairs

\* The terms of an order, and the quantity of orders.
LEMMA TermsOf ==
  ASSUME NEW o \in Orders
  PROVE  /\ Terms[o].strike \in Nat /\ Terms[o].strike \in Strikes /\ Terms[o].style \in Styles
         /\ Terms[o].side \in Sides
         /\ Terms[o].price \in Nat /\ Terms[o].quantity \in Nat \ {0}
BY TermsAssumption

LEMMA QuantityOf ==
  ASSUME NEW b \in SUBSET Orders
  PROVE  \A o \in b : Quantity(b) >= Terms[o].quantity
<1> DEFINE w == [o \in b |-> Terms[o].quantity]
<1>1. w \in [b -> Nat] /\ \A o \in b : w[o] = Terms[o].quantity
  BY TermsOf
<1>2. IsFiniteSet(b)
  BY FS_Subset, TermsAssumption
<1>3. SumFunction(w) \in Nat /\ \A o \in b : w[o] <= SumFunction(w)
  <2> HIDE DEF w
  <2> QED
    BY <1>1, <1>2, SumOfNaturals
<1>4. Quantity(b) = SumFunction(w)
  BY DEF Quantity
<1> HIDE DEF w
<1> QED
  BY <1>1, <1>3, <1>4, TermsOf

\* The levels of a side: no more than there are orders, one of them an order's own.
LevelAt(b, side, p) ==
  LET at == {o \in OnSide(b, side) : Terms[o].price = p}
  IN  [price |-> p, quantity |-> Quantity(at), orders |-> Cardinality(at)]

LEMMA LevelsOf ==
  ASSUME NEW b \in SUBSET Orders, NEW side
  PROVE  /\ Levels(b, side) = {LevelAt(b, side, Terms[o].price) : o \in OnSide(b, side)}
         /\ \A l \in Levels(b, side) : \E o \in OnSide(b, side) : l.price = Terms[o].price
         /\ IsFiniteSet(Levels(b, side)) /\ Cardinality(Levels(b, side)) <= Cardinality(Orders)
<1> DEFINE leveled == [o \in OnSide(b, side) |-> LevelAt(b, side, Terms[o].price)]
<1>1. Levels(b, side) = {LevelAt(b, side, Terms[o].price) : o \in OnSide(b, side)}
  BY DEF Levels, LevelAt
<1>2. \A l \in Levels(b, side) : \E o \in OnSide(b, side) : l.price = Terms[o].price
  <2>1. \A p : LevelAt(b, side, p).price = p
    BY DEF LevelAt
  <2> QED
    BY <1>1, <2>1
<1>3. leveled \in Surjection(OnSide(b, side), Levels(b, side))
  BY <1>1 DEF Surjection
<1>4. OnSide(b, side) \in SUBSET Orders /\ IsFiniteSet(Orders)
  BY TermsAssumption DEF OnSide
<1>5. /\ IsFiniteSet(OnSide(b, side)) /\ Cardinality(OnSide(b, side)) <= Cardinality(Orders)
      /\ Cardinality(OnSide(b, side)) \in Nat /\ Cardinality(Orders) \in Nat
  BY <1>4, FS_Subset, FS_CardinalityType
<1>6. /\ IsFiniteSet(Levels(b, side))
      /\ Cardinality(Levels(b, side)) <= Cardinality(OnSide(b, side))
  BY <1>3, <1>5, FS_Surjection
<1>7. Cardinality(Levels(b, side)) \in Nat
  BY <1>6, FS_CardinalityType
<1> QED
  BY <1>1, <1>2, <1>5, <1>6, <1>7

\* An order is in the depth of its book, when that is as many levels as there are orders.
LEMMA OrderInLevels ==
  ASSUME NEW b \in SUBSET Orders, NEW o \in b
  PROVE  \E l \in Top(b, Terms[o].side, Cardinality(Orders)) :
           l.price = Terms[o].price /\ l.quantity >= Terms[o].quantity
<1> DEFINE side == Terms[o].side
           p == Terms[o].price
           l == LevelAt(b, side, p)
           at == {q \in OnSide(b, side) : Terms[q].price = p}
           above == {m \in Levels(b, side) : Better(side, m.price, p)}
<1>1. o \in at /\ at \in SUBSET Orders
  BY DEF OnSide
<1>2. l.price = p /\ l.quantity = Quantity(at)
  BY DEF LevelAt
<1>3. l.quantity >= Terms[o].quantity
  <2> HIDE DEF at, l
  <2> QED
    BY <1>1, <1>2, QuantityOf
<1>4. l \in Levels(b, side)
  BY <1>1, LevelsOf
<1>5. p \in Nat /\ side \in Sides
  BY TermsOf
<1>6. l \notin above
  BY <1>2, <1>5 DEF Better
<1>7. Cardinality(above) < Cardinality(Orders)
  <2>1. above \in SUBSET (Levels(b, side) \ {l})
    BY <1>6
  <2> HIDE DEF above, l
  <2>2. /\ IsFiniteSet(Levels(b, side)) /\ Cardinality(Levels(b, side)) <= Cardinality(Orders)
    BY LevelsOf
  <2>3. /\ IsFiniteSet(Levels(b, side) \ {l})
        /\ Cardinality(Levels(b, side) \ {l}) = Cardinality(Levels(b, side)) - 1
    BY <1>4, <2>2, FS_RemoveElement
  <2>4. /\ Cardinality(above) <= Cardinality(Levels(b, side) \ {l})
        /\ Cardinality(above) \in Nat
    BY <2>1, <2>3, FS_Subset, FS_CardinalityType
  <2>5. Cardinality(Levels(b, side)) \in Nat /\ Cardinality(Orders) \in Nat
    BY <2>2, FS_CardinalityType, TermsAssumption
  <2> QED
    BY <2>2, <2>3, <2>4, <2>5
<1> QED
  BY <1>2, <1>3, <1>4, <1>7 DEF Top

\* The quote of a book is at the price of an order of it, or better.
LEMMA OrderInQuote ==
  ASSUME NEW b \in SUBSET Orders, NEW o \in b
  PROVE  InQuote(o, QuoteOf(b))
<1> DEFINE side == Terms[o].side
           mine == OnSide(b, side)
           prices == {Terms[q].price : q \in mine}
<1>1. o \in mine /\ mine \in SUBSET Orders /\ side \in Sides
  BY TermsOf DEF OnSide
<1>2. /\ prices \in SUBSET Nat /\ prices # {} /\ IsFiniteSet(prices)
  <2>1. prices \in SUBSET Nat /\ prices # {}
    BY <1>1, TermsOf
  <2> DEFINE priced == [q \in mine |-> Terms[q].price]
  <2>2. priced \in Surjection(mine, prices)
    BY DEF Surjection
  <2>3. IsFiniteSet(mine)
    BY <1>1, FS_Subset, TermsAssumption
  <2> HIDE DEF priced, mine, prices
  <2> QED
    BY <2>1, <2>2, <2>3, FS_Surjection
<1>3. PICK best \in prices : \A p \in prices : ~Better(side, p, best)
  <2>1. CASE side = "buy"
    <3>1. PICK best \in prices : \A p \in prices : p <= best
      <4> HIDE DEF prices
      <4>1. prices \in SUBSET Int
        BY <1>2
      <4> QED
        BY <1>2, <4>1, GreatestOfFinite
    <3>2. \A p \in prices : p \in Nat /\ best \in Nat
      BY <1>2
    <3> HIDE DEF prices
    <3> QED
      BY <2>1, <3>1, <3>2 DEF Better
  <2>2. CASE side = "sell"
    <3>1. PICK best \in prices : \A p \in prices : best <= p
      <4> HIDE DEF prices
      <4> QED
        BY <1>2, LeastNatural
    <3>2. \A p \in prices : p \in Nat /\ best \in Nat
      BY <1>2
    <3> HIDE DEF prices
    <3> QED
      BY <2>2, <3>1, <3>2 DEF Better
  <2> QED
    BY <1>1, <2>1, <2>2 DEF Sides
<1>4. PICK q \in mine : Terms[q].price = best
  OBVIOUS
<1> DEFINE l == LevelAt(b, side, best)
<1>5. l \in Levels(b, side) /\ l.price = best
  <2>1. l.price = best
    BY DEF LevelAt
  <2>2. Levels(b, side) = {LevelAt(b, side, Terms[r].price) : r \in mine}
    BY LevelsOf
  <2> HIDE DEF mine
  <2> QED
    BY <1>4, <2>1, <2>2
<1>6. \A m \in Levels(b, side) : m.price \in prices
  BY LevelsOf
<1>7. {m \in Levels(b, side) : Better(side, m.price, l.price)} = {}
  <2> HIDE DEF l, prices
  <2> QED
    BY <1>3, <1>5, <1>6
<1>8. l \in Top(b, side, 1)
  <2> HIDE DEF l
  <2> QED
    BY <1>5, <1>7, FS_EmptySet DEF Top
<1>9. ~Better(side, Terms[o].price, l.price)
  <2> HIDE DEF l
  <2> QED
    BY <1>1, <1>3, <1>5
<1>10. l \in QuoteOf(b)[side]
  <2> HIDE DEF l
  <2> QED
    BY <1>1, <1>8 DEF QuoteOf
<1> QED
  BY <1>9, <1>10 DEF InQuote

\* At least a day is left (max(1) of the days to expiry).
LEMMA DaysLeft ==
  ASSUME NEW n \in Int
  PROVE  Max({1, n}) >= 1
<1>1. \E g \in {1, n} : \A m \in {1, n} : g >= m
  OBVIOUS
<1>2. \A m \in {1, n} : Max({1, n}) >= m
  BY <1>1 DEF Max
<1> QED
  BY <1>2

\* What each query tells of an order that may be expected.
LEMMA AnswersTell ==
  ASSUME IInv, NEW o \in Orders, Expected(o)
  PROVE  Shown(o, via[o])
<1> DEFINE s == via[o]
           x == Terms[o].strike
           y == Terms[o].style
           side == Terms[o].side
           all == Cardinality(Orders)
           b == OptionOf(s, x, y)
<1>1. /\ s \in DOMAIN book /\ x \in DOMAIN book[s] /\ o \in book[s][x]
      /\ Found(s) = {s} /\ FoundBySocket(s) = {s} /\ FoundAt(s, x) = {s}
  BY ExpectedIsFound, SocketFinds DEF FoundAt
<1>2. o \in b /\ b \in SUBSET Orders
  <2>1. book[s][x] \subseteq Orders
    BY <1>1, HierarchyOf, LadderOf DEF IInv, Books
  <2> QED
    BY <1>1, <2>1 DEF OptionOf
<1>3. x \in Nat /\ y \in Styles /\ side \in Sides /\ Terms[o].quantity \in Nat
  BY TermsOf
<1>4. /\ \A c \in SUBSET Orders : IsFiniteSet(c) /\ Cardinality(c) \in Nat
      /\ \A c \in SUBSET Orders : o \in c => Cardinality(c) > 0
  BY TermsAssumption, FS_Subset, FS_CardinalityType, FS_EmptySet
<1>5. InQuote(o, QuoteOf(b))
  BY <1>2, OrderInQuote
<1>6. \E l \in Top(b, side, all) : l.price = Terms[o].price /\ l.quantity >= Terms[o].quantity
  BY <1>2, OrderInLevels
<1>7. \A r \in [Sides -> {Top(b, z, all) : z \in Sides}] :
        (\A z \in Sides : r[z] = Top(b, z, all)) => InLevels(o, r)
  <2> HIDE DEF all, b
  <2> QED
    BY <1>3, <1>6 DEF InLevels
<1>8. Format(s) \in ListExpirations
  BY <1>1 DEF ListExpirations
<1> HIDE DEF b, x, y, side, all
<1>9. GetUnderlying.orders > 0
  <2>1. GetUnderlying.orders = Cardinality(Resting)
    BY DEF GetUnderlying
  <2>2. Resting \subseteq Pairs /\ <<s, o>> \in Resting
    BY <1>1, RestingIs, RestsOf DEF IInv, Books
  <2>3. IsFiniteSet(Resting)
    BY <2>2, NamesFinite, FS_Subset
  <2> QED
    BY <2>1, <2>2, <2>3, FS_CardinalityType, FS_EmptySet
<1>10. /\ GetExpiration(s) # {}
       /\ \A a \in GetExpiration(s) : a.orders > 0 /\ a.expiration \in ListExpirations
  <2>1. OrdersIn(s) \in SUBSET Orders /\ o \in OrdersIn(s)
    <3>1. \A z \in DOMAIN book[s] : book[s][z] \subseteq Orders
      BY <1>1, HierarchyOf, LadderOf DEF IInv, Books
    <3> QED
      BY <1>1, <3>1 DEF OrdersIn
  <2>2. GetExpiration(s) = {[expiration |-> Format(s), strikes |-> Cardinality(DOMAIN book[s]),
                             orders |-> Cardinality(OrdersIn(s))]}
    BY <1>1 DEF GetExpiration
  <2> QED
    BY <1>4, <1>8, <2>1, <2>2
<1>11. ListStrikes(s) # {} /\ \A a \in ListStrikes(s) : x \in a
  BY <1>1 DEF ListStrikes
<1>12. /\ GetStrike(s, x) # {}
       /\ \A a \in GetStrike(s, x) : a[y].orders > 0 /\ InQuote(o, a[y].quote)
  <2> DEFINE told == [z \in Styles |-> [orders |-> Cardinality(OptionOf(s, x, z)),
                                       quote |-> QuoteOf(OptionOf(s, x, z))]]
  <2>1. told[y].orders = Cardinality(b) /\ told[y].quote = QuoteOf(b)
    BY <1>3 DEF b
  <2>2. GetStrike(s, x) = {told}
    BY <1>1 DEF GetStrike
  <2> HIDE DEF told
  <2> QED
    BY <1>2, <1>4, <1>5, <2>1, <2>2
<1>13. /\ GetOptionBook(s, x, y) # {}
       /\ \A a \in GetOptionBook(s, x, y) : a.depth[side] >= Terms[o].quantity
  <2> DEFINE told == [depth |-> [z \in Sides |-> Quantity(OnSide(b, z))],
                      levels |-> [z \in Sides |-> Cardinality(Levels(b, z))],
                      orders |-> Cardinality(b), quote |-> QuoteOf(b)]
  <2>1. GetOptionBook(s, x, y) = {told}
    BY <1>1 DEF GetOptionBook, b
  <2>2. told.depth[side] = Quantity(OnSide(b, side))
    BY <1>3
  <2>3. o \in OnSide(b, side) /\ OnSide(b, side) \in SUBSET Orders
    BY <1>2 DEF OnSide, side
  <2>4. Quantity(OnSide(b, side)) >= Terms[o].quantity
    BY <2>3, QuantityOf
  <2> HIDE DEF told
  <2> QED
    BY <2>1, <2>2, <2>4
<1>14. /\ GetOptionQuote(s, x, y) # {}
       /\ \A a \in GetOptionQuote(s, x, y) : InQuote(o, a)
  BY <1>1, <1>5 DEF GetOptionQuote, b
<1>15. /\ GetOptionChain(s, x, x, x) # {}
       /\ \A a \in GetOptionChain(s, x, x, x) : InQuote(o, a.chain[x][y]) /\ a.atm = {x}
  <2> DEFINE rows == {z \in DOMAIN book[s] : x <= z /\ z <= x}
             told == [expiration |-> s, atm |-> AtTheMoney(rows, x),
                      chain |-> [z \in rows |-> [v \in Styles |-> QuoteOf(OptionOf(s, z, v))]]]
  <2>1. GetOptionChain(s, x, x, x) = {told}
    BY <1>1 DEF GetOptionChain
  <2>2. rows = {x}
    <3>1. DOMAIN book[s] \subseteq Nat
      BY <1>1, HierarchyOf, LadderOf, TermsAssumption DEF IInv, Books
    <3> QED
      BY <1>1, <1>3, <3>1
  <2>3. AtTheMoney({x}, x) = {x}
    BY <1>3 DEF AtTheMoney
  <2>4. told.atm = {x}
    BY <2>2, <2>3
  <2>5. told.chain[x][y] = QuoteOf(b)
    BY <1>3, <2>2 DEF b
  <2> HIDE DEF told
  <2> QED
    BY <1>5, <2>1, <2>4, <2>5
<1>16. GetOptionGreeks(s, x) # {} /\ \A a \in GetOptionGreeks(s, x) : a.days >= 1
  <2>1. GetOptionGreeks(s, x) = {[strike |-> x, days |-> Max({1, Format(s).of - today})]}
    BY <1>1 DEF GetOptionGreeks
  <2>2. Format(s).of - today \in Int
    <3>1. s \in Keys /\ today \in Int
      BY <1>1, HierarchyOf, CalendarAssumption DEF IInv, Books
    <3>2. \A k \in Keys : k.of \in Nat
      <4>1. \A n \in DayCounts, m \in 0 .. LastDay : n + m \in Nat
        BY CalendarAssumption
      <4>2. \A d : Date(d).of = d /\ In(d).of = d
        BY DEF Date, In
      <4> QED
        BY <4>1, <4>2, CalendarAssumption DEF Keys
    <3>3. Format(s).of \in Int
      BY <3>1, <3>2 DEF Format, Date
    <3> QED
      BY <3>1, <3>3
  <2>3. Max({1, Format(s).of - today}) >= 1
    BY <2>2, DaysLeft
  <2> QED
    BY <2>1, <2>3
<1>17. /\ GetOptionSnapshot(s, x, y, all) # {}
       /\ \A a \in GetOptionSnapshot(s, x, y, all) : InLevels(o, a.levels)
  <2> DEFINE levels == [z \in Sides |-> Top(b, z, all)]
  <2>1. GetOptionSnapshot(s, x, y, all) = {[expiration |-> Format(s), levels |-> levels]}
    BY <1>1 DEF GetOptionSnapshot, b
  <2>2. InLevels(o, levels)
    BY <1>7
  <2> HIDE DEF levels
  <2> QED
    BY <2>1, <2>2
<1>18. /\ GetOrderbookMetrics(s, x, y) # {}
       /\ \A a \in GetOrderbookMetrics(s, x, y) : a.expiration \in ListExpirations
  <2> DEFINE spread == {c[2].price - c[1].price :
                          c \in {d \in QuoteOf(b)["buy"] \X QuoteOf(b)["sell"] :
                                   d[1].price < d[2].price}}
  <2>1. GetOrderbookMetrics(s, x, y) = {[expiration |-> Format(s), spread |-> spread]}
    BY <1>1 DEF GetOrderbookMetrics, b
  <2> HIDE DEF spread
  <2> QED
    BY <1>8, <2>1
<1>19. /\ SocketSnapshot(s, x, y, all) # {}
       /\ \A a \in SocketSnapshot(s, x, y, all) : InLevels(o, a)
  <2> DEFINE levels == [z \in Sides |-> Top(b, z, all)]
  <2>1. SocketSnapshot(s, x, y, all) = {levels}
    BY <1>1 DEF SocketSnapshot, b
  <2>2. InLevels(o, levels)
    BY <1>7
  <2> HIDE DEF levels
  <2> QED
    BY <2>1, <2>2
<1> QED
  BY <1>9, <1>10, <1>11, <1>12, <1>13, <1>14, <1>15, <1>16, <1>17, <1>18, <1>19
  DEF Shown, x, y, side, all

\* However books are made, traded, deleted, saved and restored, and days go by,
\* the segment an order was placed with reaches the book it rests in and no
\* other, unless a number of days reads as that date today
\* (find_expiration_by_str, which reads before it parses).
THEOREM OrdersAreReached == Spec => []PlacedIsReached
<1>1. IInv => PlacedIsReached
  <2> SUFFICES ASSUME IInv, NEW o \in Orders, Expected(o)
               PROVE  Found(via[o]) # {} /\ \A k \in Found(via[o]) : o \in OrdersIn(k)
    BY DEF PlacedIsReached
  <2> QED
    BY ExpectedIsFound DEF OrdersIn
<1> QED
  BY <1>1, InvHolds, PTL

\* The look-up the socket's snapshots have of their own (websocket.rs) finds the
\* expirations that HTTP finds, whatever books there are and whatever day it is.
THEOREM SocketFindsTheSame == Spec => []SocketAgrees
<1>1. IInv => SocketAgrees
  BY SocketFinds DEF SocketAgrees
<1> QED
  BY <1>1, InvHolds, PTL

\* Every read endpoint of the books but the volatility surface, which is cached, and
\* the socket's snapshot feed, asked with the segment an order was placed with, answer
\* something and tell of the order: in the counts, the quotes, the depths, the chain
\* and the levels.
THEOREM PlacedOrdersAreFound == Spec => []PlacedIsFound
<1>1. IInv => PlacedIsFound
  <2> SUFFICES ASSUME IInv PROVE PlacedIsFound
    OBVIOUS
  <2>1. PlacedIsReached
    BY ExpectedIsFound DEF PlacedIsReached, OrdersIn
  <2>2. SocketAgrees
    BY SocketFinds DEF SocketAgrees
  <2>3. \A o \in Orders : Expected(o) => Shown(o, via[o])
    BY AnswersTell
  <2> QED
    BY <2>1, <2>2, <2>3 DEF PlacedIsFound
<1> QED
  BY <1>1, InvHolds, PTL
=============================================================================
