--------------------------- MODULE PagesManifestProofs ---------------------------
(***************************************************************************)
(* Proofs about PagesManifest for every set of paths, hashes, runs and     *)
(* stamps.  The argument: every stored row belongs to one offered          *)
(* manifest, and a stamp that is stored anywhere has each of its rows      *)
(* stored or replaced by a newer one; so the rows under the newest stamp   *)
(* are the whole of one manifest.                                          *)
(***************************************************************************)
EXTENDS PagesManifest, TLAPS

-----------------------------------------------------------------------------
(* The inductive invariant. *)

(* Every row of table t was written by an offer of ds that holds its path. *)
RowsOffered(t, ds) ==
  \A p \in DOMAIN t : \E g \in ds :
    t[p].at = g.stamp /\ p \in DOMAIN g.man /\ t[p].hash = g.man[p]

(* An offer with a row left has every path stored, under its stamp or later. *)
OffersWhole(t, ds) ==
  \A p \in DOMAIN t, g \in ds :
    t[p].at = g.stamp =>
      \A q \in DOMAIN g.man : q \in DOMAIN t /\ t[q].at >= g.stamp

(* A table with rows has a newest one, however many paths there are. *)
NewestExists(t) == DOMAIN t # {} => Newest(t) # {}

GoodTable(t, ds) ==
  t \in Tables /\ RowsOffered(t, ds) /\ OffersWhole(t, ds) /\ NewestExists(t)

(* A row at least as new as n, which a delete under n leaves. *)
HoldsSince(t, n) == \E p \in DOMAIN t : t[p].at >= n

(* A stamp names one offer. *)
StampsDistinct == \A g, h \in drawn : g.stamp = h.stamp => g = h

(* What a saver sends was offered, and what it saves is a manifest. *)
SendersOffered ==
  \A s \in Savers :
    /\ pc[s] # "idle" => man[s] \in Manifests
    /\ pc[s] \in {"insert", "delete"} => Generation(s) \in drawn

(* A delete that may still run has a row it must leave. *)
LateDeletesSafe ==
  \A r \in adrift : r.kind = "delete" => HoldsSince(rows, r.gen.stamp)

IInv ==
  /\ TypeOK
  /\ StampsDistinct
  /\ GoodTable(rows, drawn)
  /\ SendersOffered
  /\ AnsweredIsCurrent
  /\ LateDeletesSafe

-----------------------------------------------------------------------------
(* The two statements, as functions from tables to tables. *)

LEMMA TableFacts ==
  ASSUME NEW t \in Tables
  PROVE  /\ t = [p \in DOMAIN t |-> t[p]]
         /\ DOMAIN t \subseteq Paths
         /\ \A p \in DOMAIN t : /\ t[p] \in [hash : Hashes, at : Stamps]
                                /\ t[p].at \in Nat
BY StampsAssumption DEF Tables

LEMMA OfferFacts ==
  ASSUME NEW g \in [stamp : Stamps, man : Manifests]
  PROVE  /\ g.stamp \in Nat
         /\ DOMAIN g.man \subseteq Paths
         /\ DOMAIN g.man # {}
         /\ \A p \in DOMAIN g.man : g.man[p] \in Hashes
         /\ g.man = [p \in DOMAIN g.man |-> g.man[p]]
BY StampsAssumption DEF Manifests

LEMMA UpsertedType ==
  ASSUME NEW t \in Tables, NEW g \in [stamp : Stamps, man : Manifests]
  PROVE  Upserted(t, g) \in Tables
<1> DEFINE D == DOMAIN t \cup DOMAIN g.man
<1>1. D \in SUBSET Paths
  BY TableFacts, OfferFacts
<1>2. \A p \in D : Upserted(t, g)[p] \in [hash : Hashes, at : Stamps]
  BY TableFacts, OfferFacts DEF Upserted
<1>3. Upserted(t, g) \in [D -> [hash : Hashes, at : Stamps]]
  BY <1>2 DEF Upserted
<1> QED
  BY <1>1, <1>3 DEF Tables

LEMMA PrunedType ==
  ASSUME NEW t \in Tables, NEW n \in Nat
  PROVE  Pruned(t, n) \in Tables
<1> DEFINE D == {q \in DOMAIN t : ~ (t[q].at < n)}
<1>1. D \in SUBSET Paths
  BY TableFacts
<1>2. Pruned(t, n) \in [D -> [hash : Hashes, at : Stamps]]
  BY TableFacts DEF Pruned
<1> QED
  BY <1>1, <1>2 DEF Tables

(* The upsert never lowers a stamp, and leaves each path of the offer      *)
(* stored under the offer's stamp or a later one.                          *)
LEMMA UpsertedRows ==
  ASSUME NEW t \in Tables, NEW g \in [stamp : Stamps, man : Manifests]
  PROVE  /\ DOMAIN Upserted(t, g) = DOMAIN t \cup DOMAIN g.man
         /\ \A p \in DOMAIN t : Upserted(t, g)[p].at >= t[p].at
         /\ \A p \in DOMAIN g.man : Upserted(t, g)[p].at >= g.stamp
         /\ \A p \in DOMAIN t \cup DOMAIN g.man :
              \/ p \in DOMAIN t /\ Upserted(t, g)[p] = t[p]
              \/ /\ p \in DOMAIN g.man
                 /\ Upserted(t, g)[p].hash = g.man[p]
                 /\ Upserted(t, g)[p].at = g.stamp
                 /\ p \in DOMAIN t => g.stamp > t[p].at
<1>1. /\ \A p \in DOMAIN t : t[p].at \in Nat
      /\ g.stamp \in Nat
  BY TableFacts, OfferFacts
<1> QED
  BY <1>1 DEF Upserted

LEMMA PrunedRows ==
  ASSUME NEW t \in Tables, NEW n \in Nat
  PROVE  /\ DOMAIN Pruned(t, n) = {p \in DOMAIN t : t[p].at >= n}
         /\ \A p \in DOMAIN Pruned(t, n) : Pruned(t, n)[p] = t[p]
<1>1. \A p \in DOMAIN t : t[p].at \in Nat
  BY TableFacts
<1> QED
  BY <1>1 DEF Pruned

LEMMA UpsertedNewest ==
  ASSUME NEW t \in Tables, NEW g \in [stamp : Stamps, man : Manifests],
         DOMAIN t # {} => Newest(t) # {}
  PROVE  Newest(Upserted(t, g)) # {}
<1> DEFINE u == Upserted(t, g)
           D == DOMAIN t \cup DOMAIN g.man
<1> SUFFICES Newest(u) # {}
  OBVIOUS
<1>1. /\ DOMAIN u = D
      /\ \A p \in DOMAIN t : u[p].at >= t[p].at
      /\ \A p \in DOMAIN g.man : u[p].at >= g.stamp
      /\ \A p \in D : u[p].at = g.stamp \/ (p \in DOMAIN t /\ u[p].at = t[p].at)
  <2>1. \A p \in D : u[p].at = g.stamp \/ (p \in DOMAIN t /\ u[p].at = t[p].at)
    <3>1. \A p \in D :
            \/ p \in DOMAIN t /\ u[p] = t[p]
            \/ p \in DOMAIN g.man /\ u[p].hash = g.man[p] /\ u[p].at = g.stamp
      BY UpsertedRows
    <3> HIDE DEF u
    <3> QED
      BY <3>1
  <2> QED
    BY <2>1, UpsertedRows
<1>2. /\ \A p \in DOMAIN t : t[p].at \in Nat
      /\ g.stamp \in Nat
  BY TableFacts, OfferFacts
<1> HIDE DEF u
<1>3. CASE \A q \in DOMAIN t : t[q].at < g.stamp
  <2>1. PICK p \in DOMAIN g.man : TRUE
    BY OfferFacts
  <2>2. \A q \in D : u[q].at <= u[p].at
    BY <1>1, <1>2, <1>3
  <2> QED
    BY <1>1, <2>2 DEF Newest
<1>4. CASE \E q \in DOMAIN t : ~ (t[q].at < g.stamp)
  <2>1. PICK m \in DOMAIN t : \A q \in DOMAIN t : t[q].at <= t[m].at
    BY <1>4 DEF Newest
  <2>2. g.stamp <= t[m].at
    BY <1>2, <1>4, <2>1
  <2>3. \A q \in D : u[q].at <= u[m].at
    BY <1>1, <1>2, <2>1, <2>2
  <2> QED
    BY <1>1, <2>3 DEF Newest
<1> QED
  BY <1>3, <1>4

LEMMA PrunedNewest ==
  ASSUME NEW t \in Tables, NEW n \in Nat,
         DOMAIN t # {} => Newest(t) # {},
         DOMAIN Pruned(t, n) # {}
  PROVE  Newest(Pruned(t, n)) # {}
<1> DEFINE u == Pruned(t, n)
<1>1. /\ DOMAIN u = {p \in DOMAIN t : t[p].at >= n}
      /\ \A p \in DOMAIN u : u[p] = t[p]
      /\ \A p \in DOMAIN t : t[p].at \in Nat
  BY PrunedRows, TableFacts
<1>2. DOMAIN u # {}
  OBVIOUS
<1> HIDE DEF u
<1>3. PICK m \in DOMAIN t : \A q \in DOMAIN t : t[q].at <= t[m].at
  BY <1>1, <1>2 DEF Newest
<1>4. m \in DOMAIN u
  BY <1>1, <1>2, <1>3
<1>5. \A q \in DOMAIN u : u[q].at <= u[m].at
  BY <1>1, <1>3, <1>4
<1>6. Newest(u) # {}
  BY <1>4, <1>5 DEF Newest
<1> QED
  BY <1>6 DEF u

Offer == [stamp : Stamps, man : Manifests]

LEMMA GoodUpsert ==
  ASSUME NEW t, NEW ds, ds \subseteq Offer, NEW g \in ds,
         \A h \in ds : h.stamp = g.stamp => h = g,
         GoodTable(t, ds)
  PROVE  GoodTable(Upserted(t, g), ds)
<1> DEFINE u == Upserted(t, g)
           D == DOMAIN t \cup DOMAIN g.man
<1>1. t \in Tables /\ g \in Offer
  BY DEF GoodTable
<1>2. /\ u \in Tables
      /\ NewestExists(u)
  BY <1>1, UpsertedType, UpsertedNewest DEF GoodTable, NewestExists, Offer
<1>3. /\ DOMAIN u = D
      /\ \A p \in DOMAIN t : u[p].at >= t[p].at
      /\ \A p \in DOMAIN g.man : u[p].at >= g.stamp
  BY <1>1, UpsertedRows DEF Offer
<1>4. \A p \in D :
        \/ p \in DOMAIN t /\ u[p] = t[p]
        \/ p \in DOMAIN g.man /\ u[p].hash = g.man[p] /\ u[p].at = g.stamp
  BY <1>1, UpsertedRows DEF Offer
<1>5. /\ \A p \in DOMAIN t : t[p].at \in Nat
      /\ \A p \in DOMAIN u : u[p].at \in Nat
      /\ \A h \in ds : h.stamp \in Nat
  BY <1>1, <1>2, TableFacts, OfferFacts DEF Offer
<1> HIDE DEF u
<1>6. RowsOffered(u, ds)
  BY <1>3, <1>4 DEF RowsOffered, GoodTable
<1>7. OffersWhole(u, ds)
  <2> SUFFICES ASSUME NEW p \in D, NEW h \in ds, u[p].at = h.stamp,
                      NEW q \in DOMAIN h.man
               PROVE  q \in DOMAIN u /\ u[q].at >= h.stamp
    BY <1>3 DEF OffersWhole
  <2>1. CASE h = g
    BY <1>3, <2>1
  <2>2. CASE h # g
    <3>1. p \in DOMAIN t /\ t[p].at = h.stamp
      BY <1>4, <2>2
    <3>2. q \in DOMAIN t /\ t[q].at >= h.stamp
      BY <3>1 DEF GoodTable, OffersWhole
    <3> QED
      BY <1>3, <1>5, <3>2
  <2> QED
    BY <2>1, <2>2
<1> QED
  BY <1>2, <1>6, <1>7 DEF GoodTable, u

LEMMA GoodPrune ==
  ASSUME NEW t, NEW ds, ds \subseteq Offer, NEW n \in Nat, GoodTable(t, ds)
  PROVE  GoodTable(Pruned(t, n), ds)
<1> DEFINE u == Pruned(t, n)
<1>1. t \in Tables
  BY DEF GoodTable
<1>2. u \in Tables /\ NewestExists(u)
  BY <1>1, PrunedType, PrunedNewest DEF GoodTable, NewestExists
<1>3. /\ DOMAIN u = {p \in DOMAIN t : t[p].at >= n}
      /\ \A p \in DOMAIN u : u[p] = t[p]
  BY <1>1, PrunedRows
<1>4. /\ \A p \in DOMAIN t : t[p].at \in Nat
      /\ \A h \in ds : h.stamp \in Nat
  BY <1>1, TableFacts, OfferFacts DEF Offer
<1> HIDE DEF u
<1>5. RowsOffered(u, ds)
  BY <1>3 DEF RowsOffered, GoodTable
<1>6. OffersWhole(u, ds)
  <2> SUFFICES ASSUME NEW p \in DOMAIN u, NEW h \in ds, u[p].at = h.stamp,
                      NEW q \in DOMAIN h.man
               PROVE  q \in DOMAIN u /\ u[q].at >= h.stamp
    BY DEF OffersWhole
  <2>1. p \in DOMAIN t /\ t[p].at = h.stamp /\ h.stamp >= n
    BY <1>3
  <2>2. q \in DOMAIN t /\ t[q].at >= h.stamp
    BY <2>1 DEF GoodTable, OffersWhole
  <2>3. t[q].at >= n
    BY <1>4, <2>1, <2>2
  <2> QED
    BY <1>3, <2>2, <2>3
<1> QED
  BY <1>2, <1>5, <1>6 DEF GoodTable, u

(* Drawing a stamp later than every row adds an offer no row belongs to. *)
LEMMA GoodDraw ==
  ASSUME NEW t, NEW ds, NEW g \in Offer, GoodTable(t, ds),
         \A p \in DOMAIN t : t[p].at < g.stamp
  PROVE  GoodTable(t, ds \cup {g})
<1>1. RowsOffered(t, ds \cup {g})
  BY DEF GoodTable, RowsOffered
<1>2. \A p \in DOMAIN t : t[p].at # g.stamp
  BY TableFacts, OfferFacts DEF GoodTable, Offer
<1>3. OffersWhole(t, ds \cup {g})
  BY <1>2 DEF GoodTable, OffersWhole
<1> QED
  BY <1>1, <1>3 DEF GoodTable

LEMMA HeldThroughUpsert ==
  ASSUME NEW t \in Tables, NEW g \in Offer, NEW n \in Nat, HoldsSince(t, n)
  PROVE  HoldsSince(Upserted(t, g), n)
<1> DEFINE u == Upserted(t, g)
<1>1. PICK p \in DOMAIN t : t[p].at >= n
  BY DEF HoldsSince
<1>2. /\ DOMAIN u = DOMAIN t \cup DOMAIN g.man
      /\ \A q \in DOMAIN t : u[q].at >= t[q].at
  BY UpsertedRows DEF Offer
<1>3. t[p].at \in Nat /\ u[p].at \in Nat
  BY <1>2, TableFacts, UpsertedType DEF Offer
<1> HIDE DEF u
<1>4. HoldsSince(u, n)
  BY <1>1, <1>2, <1>3 DEF HoldsSince
<1> QED
  BY <1>4 DEF u

LEMMA UpsertHolds ==
  ASSUME NEW t \in Tables, NEW g \in Offer
  PROVE  HoldsSince(Upserted(t, g), g.stamp)
<1>1. PICK p \in DOMAIN g.man : TRUE
  BY OfferFacts DEF Offer
<1>2. /\ DOMAIN Upserted(t, g) = DOMAIN t \cup DOMAIN g.man
      /\ \A q \in DOMAIN g.man : Upserted(t, g)[q].at >= g.stamp
  BY UpsertedRows DEF Offer
<1> QED
  BY <1>1, <1>2 DEF HoldsSince

LEMMA HeldThroughPrune ==
  ASSUME NEW t \in Tables, NEW k \in Nat, NEW n \in Nat,
         HoldsSince(t, k), HoldsSince(t, n)
  PROVE  HoldsSince(Pruned(t, n), k)
<1> DEFINE u == Pruned(t, n)
<1>1. /\ DOMAIN u = {p \in DOMAIN t : t[p].at >= n}
      /\ \A p \in DOMAIN u : u[p] = t[p]
      /\ \A p \in DOMAIN t : t[p].at \in Nat
  BY PrunedRows, TableFacts
<1> HIDE DEF u
<1>2. PICK p \in DOMAIN t : t[p].at >= k
  BY DEF HoldsSince
<1>3. PICK q \in DOMAIN t : t[q].at >= n
  BY DEF HoldsSince
<1>4. \E r \in {p, q} : t[r].at >= n /\ t[r].at >= k
  BY <1>1, <1>2, <1>3
<1>5. HoldsSince(u, k)
  BY <1>1, <1>4 DEF HoldsSince
<1> QED
  BY <1>5 DEF u

-----------------------------------------------------------------------------
(* The invariant holds initially and through every step. *)

LEMMA InitIInv == Init => IInv
<1> SUFFICES ASSUME Init PROVE IInv
  OBVIOUS
<1> USE DEF Init
<1>1. rows \in Tables
  BY DEF Nothing, Tables
<1>2. TypeOK
  BY <1>1, AttemptsAssumption DEF TypeOK
<1>3. GoodTable(rows, drawn)
  BY <1>1 DEF GoodTable, RowsOffered, OffersWhole, NewestExists, Nothing
<1> QED
  BY <1>2, <1>3 DEF IInv, StampsDistinct, SendersOffered, AnsweredIsCurrent, LateDeletesSafe

LEMMA StampIsNat ==
  ASSUME TypeOK
  PROVE  \A s \in Savers : stamp[s] \in Nat
<1>1. stamp \in [Savers -> Stamps \cup {0}]
  BY DEF TypeOK
<1>2. Stamps \cup {0} \subseteq Nat
  BY StampsAssumption
<1> QED
  BY <1>1, <1>2

(* A saver that leaves `save` changes only its own locals. *)
LEMMA LeaveIInv ==
  ASSUME IInv, NEW s \in Savers, Leave(s), drawn' = drawn,
         rows' \in Tables, GoodTable(rows', drawn),
         \A n \in Nat : HoldsSince(rows, n) => HoldsSince(rows', n),
         adrift' \subseteq [kind : {"insert", "delete"}, gen : drawn],
         \A r \in adrift' : r.kind = "delete" => HoldsSince(rows', r.gen.stamp)
  PROVE  IInv'
<1>1. TypeOK'
  <2>1. /\ pc' \in [Savers -> {"idle", "read", "insert", "delete"}]
        /\ man' \in [Savers -> Manifests \cup {Nothing}]
        /\ stamp' \in [Savers -> Stamps \cup {0}]
        /\ tries' \in [Savers -> 0..MaxAttempts]
    BY AttemptsAssumption DEF IInv, TypeOK, Leave
  <2> QED
    BY <2>1 DEF IInv, TypeOK
<1>2. StampsDistinct' /\ GoodTable(rows, drawn)'
  BY DEF IInv, StampsDistinct
<1>3. SendersOffered'
  BY DEF IInv, TypeOK, SendersOffered, Leave, Generation
<1>4. AnsweredIsCurrent'
  <2> SUFFICES ASSUME NEW z \in Savers, pc'[z] = "delete"
               PROVE  HoldsSince(rows', stamp'[z])
    BY DEF AnsweredIsCurrent, HoldsSince
  <2>1. z # s /\ pc[z] = "delete" /\ stamp'[z] = stamp[z]
    BY DEF IInv, TypeOK, Leave
  <2>2. HoldsSince(rows, stamp[z])
    BY <2>1 DEF IInv, AnsweredIsCurrent, HoldsSince
  <2>3. stamp[z] \in Nat
    BY StampIsNat DEF IInv
  <2> QED
    BY <2>1, <2>2, <2>3
<1>5. LateDeletesSafe'
  BY DEF LateDeletesSafe
<1> QED
  BY <1>1, <1>2, <1>3, <1>4, <1>5 DEF IInv

LEMMA NextIInv ==
  ASSUME ~ StampsCollide, IInv, [Next]_vars
  PROVE  IInv'
<1> USE DEF Offer
<1>1. /\ drawn \subseteq Offer
      /\ rows \in Tables
      /\ GoodTable(rows, drawn)
      /\ \A g \in drawn : g.stamp \in Nat
      /\ adrift \subseteq [kind : {"insert", "delete"}, gen : drawn]
  BY OfferFacts DEF IInv, TypeOK
<1>2. ASSUME NEW s \in Savers, NEW m \in Offers, Save(s, m)
      PROVE  IInv'
  <2>1. m \in Manifests
    BY OffersAssumption
  <2>2. TypeOK'
    BY <1>2, <2>1 DEF IInv, TypeOK, Save
  <2>3. SendersOffered'
    BY <1>2, <2>1 DEF IInv, TypeOK, SendersOffered, Save, Generation
  <2>4. AnsweredIsCurrent'
    BY <1>2 DEF IInv, TypeOK, AnsweredIsCurrent, Save
  <2> QED
    BY <1>1, <1>2, <2>2, <2>3, <2>4 DEF IInv, Save, StampsDistinct, LateDeletesSafe
<1>3. ASSUME NEW s \in Savers, ReadLatest(s)
      PROVE  IInv'
  <2>1. PICK t \in StampsAfter(rows) :
          /\ pc[s] = "read"
          /\ pc' = [pc EXCEPT ![s] = "insert"]
          /\ stamp' = [stamp EXCEPT ![s] = t]
          /\ tries' = [tries EXCEPT ![s] = 0]
          /\ drawn' = drawn \cup {[stamp |-> t, man |-> man[s]]}
          /\ UNCHANGED <<rows, man, adrift>>
    BY <1>3 DEF ReadLatest
  <2>2. /\ t \in Stamps
        /\ \A p \in DOMAIN rows : rows[p].at < t
        /\ \A g \in drawn : g.stamp # t
    BY <2>1 DEF StampsAfter
  <2>3. man[s] \in Manifests
    BY <2>1 DEF IInv, SendersOffered
  <2>4. TypeOK'
    <3>1. drawn' \subseteq Offer
      BY <1>1, <2>1, <2>2, <2>3
    <3>2. adrift' \subseteq [kind : {"insert", "delete"}, gen : drawn']
      BY <1>1, <2>1
    <3>3. /\ pc' \in [Savers -> {"idle", "read", "insert", "delete"}]
          /\ stamp' \in [Savers -> Stamps \cup {0}]
          /\ tries' \in [Savers -> 0..MaxAttempts]
      BY <2>1, <2>2, AttemptsAssumption DEF IInv, TypeOK
    <3> QED
      BY <2>1, <3>1, <3>2, <3>3 DEF IInv, TypeOK
  <2>5. StampsDistinct'
    BY <2>1, <2>2 DEF IInv, StampsDistinct
  <2>6. GoodTable(rows, drawn)'
    BY <1>1, <2>1, <2>2, <2>3, GoodDraw
  <2>7. SendersOffered'
    BY <2>1, <2>3 DEF IInv, TypeOK, SendersOffered, Generation
  <2>8. AnsweredIsCurrent'
    BY <2>1 DEF IInv, TypeOK, AnsweredIsCurrent
  <2> QED
    BY <2>1, <2>4, <2>5, <2>6, <2>7, <2>8 DEF IInv, LateDeletesSafe
<1>4. ASSUME NEW s \in Savers, Upsert(s)
      PROVE  IInv'
  <2> DEFINE g == Generation(s)
  <2>1. /\ g \in drawn
        /\ g \in Offer
        /\ \A h \in drawn : h.stamp = g.stamp => h = g
        /\ g.stamp = stamp[s]
    BY <1>1, <1>4 DEF IInv, SendersOffered, StampsDistinct, Upsert, Generation
  <2>2. rows' = Upserted(rows, g)
    BY <1>4 DEF Upsert
  <2>3. GoodTable(rows', drawn)
    BY <1>1, <2>1, <2>2, GoodUpsert
  <2>4. \A n \in Nat : HoldsSince(rows, n) => HoldsSince(rows', n)
    BY <1>1, <2>1, <2>2, HeldThroughUpsert
  <2>5. HoldsSince(rows', stamp[s])
    BY <1>1, <2>1, <2>2, UpsertHolds
  <2> HIDE DEF g
  <2>6. TypeOK'
    <3>1. /\ pc' \in [Savers -> {"idle", "read", "insert", "delete"}]
          /\ tries' \in [Savers -> 0..MaxAttempts]
      BY <1>4, AttemptsAssumption DEF IInv, TypeOK, Upsert
    <3> QED
      BY <1>4, <2>3, <3>1 DEF IInv, TypeOK, Upsert, GoodTable
  <2>7. SendersOffered'
    BY <1>4 DEF IInv, TypeOK, SendersOffered, Upsert, Generation
  <2>8. AnsweredIsCurrent'
    <3> SUFFICES ASSUME NEW z \in Savers, pc'[z] = "delete"
                 PROVE  HoldsSince(rows', stamp'[z])
      BY DEF AnsweredIsCurrent, HoldsSince
    <3>1. stamp' = stamp /\ stamp[z] \in Nat
      BY <1>4, StampIsNat DEF IInv, Upsert
    <3>2. CASE z = s
      BY <2>5, <3>1, <3>2
    <3>3. CASE z # s
      <4>1. pc[z] = "delete"
        BY <1>4, <3>3 DEF IInv, TypeOK, Upsert
      <4>2. HoldsSince(rows, stamp[z])
        BY <4>1 DEF IInv, AnsweredIsCurrent, HoldsSince
      <4> QED
        BY <2>4, <3>1, <4>2
    <3> QED
      BY <3>2, <3>3
  <2>9. LateDeletesSafe'
    BY <1>1, <1>4, <2>4 DEF IInv, LateDeletesSafe, Upsert
  <2> QED
    BY <1>4, <2>3, <2>6, <2>7, <2>8, <2>9 DEF IInv, StampsDistinct, Upsert
<1>5. ASSUME NEW s \in Savers, DeleteOlder(s)
      PROVE  IInv'
  <2>1. /\ rows' = Pruned(rows, stamp[s])
        /\ stamp[s] \in Nat
        /\ HoldsSince(rows, stamp[s])
    BY <1>5, StampIsNat DEF IInv, DeleteOlder, AnsweredIsCurrent, HoldsSince
  <2>2. GoodTable(rows', drawn)
    BY <1>1, <2>1, GoodPrune
  <2>3. \A n \in Nat : HoldsSince(rows, n) => HoldsSince(rows', n)
    BY <1>1, <2>1, HeldThroughPrune
  <2>4. \A r \in adrift : r.kind = "delete" => HoldsSince(rows', r.gen.stamp)
    BY <1>1, <2>3 DEF IInv, LateDeletesSafe
  <2> QED
    BY <1>1, <1>5, <2>2, <2>3, <2>4, LeaveIInv DEF DeleteOlder, GoodTable
<1>6. ASSUME NEW s \in Savers, Lost(s)
      PROVE  IInv'
  <2>1. /\ rows' = rows /\ drawn' = drawn
        /\ pc[s] \in {"insert", "delete"}
        /\ adrift' = adrift \cup {[kind |-> pc[s], gen |-> Generation(s)]}
    BY <1>6 DEF Lost
  <2>2. Generation(s) \in drawn
    BY <2>1 DEF IInv, SendersOffered
  <2>3. adrift' \subseteq [kind : {"insert", "delete"}, gen : drawn]
    BY <1>1, <2>1, <2>2
  <2>4. pc[s] = "delete" => HoldsSince(rows, stamp[s])
    BY DEF IInv, AnsweredIsCurrent, HoldsSince
  <2>5. \A r \in adrift' : r.kind = "delete" => HoldsSince(rows', r.gen.stamp)
    BY <2>1, <2>4 DEF IInv, LateDeletesSafe, Generation
  <2>6. CASE tries[s] + 1 < MaxAttempts
    <3>1. /\ tries' = [tries EXCEPT ![s] = @ + 1]
          /\ UNCHANGED <<pc, man, stamp>>
      BY <1>6, <2>6 DEF Lost
    <3>2. tries' \in [Savers -> 0..MaxAttempts]
      BY <2>6, <3>1, AttemptsAssumption DEF IInv, TypeOK
    <3>3. TypeOK'
      BY <2>1, <2>3, <3>1, <3>2 DEF IInv, TypeOK
    <3> QED
      BY <2>1, <2>5, <3>1, <3>3
         DEF IInv, StampsDistinct, SendersOffered, AnsweredIsCurrent,
             LateDeletesSafe, Generation
  <2>7. CASE ~ (tries[s] + 1 < MaxAttempts)
    <3>1. Leave(s)
      BY <1>6, <2>7 DEF Lost
    <3> QED
      BY <1>1, <2>1, <2>3, <2>5, <3>1, LeaveIInv
  <2> QED
    BY <2>6, <2>7
<1>7. ASSUME NEW s \in Savers, Abandon(s)
      PROVE  IInv'
  BY <1>1, <1>7, LeaveIInv DEF Abandon, IInv, LateDeletesSafe
<1>8. ASSUME RunLate
      PROVE  IInv'
  <2>1. PICK r \in adrift :
          /\ rows' = IF r.kind = "insert" THEN Upserted(rows, r.gen)
                                          ELSE Pruned(rows, r.gen.stamp)
          /\ adrift' = adrift \ {r}
          /\ UNCHANGED <<pc, man, stamp, tries, drawn>>
    BY <1>8 DEF RunLate
  <2>2. /\ r.gen \in drawn
        /\ r.gen \in Offer
        /\ r.gen.stamp \in Nat
        /\ r.kind \in {"insert", "delete"}
        /\ \A h \in drawn : h.stamp = r.gen.stamp => h = r.gen
    BY <1>1 DEF IInv, StampsDistinct
  <2>3. /\ GoodTable(rows', drawn)
        /\ \A n \in Nat : HoldsSince(rows, n) => HoldsSince(rows', n)
    <3>1. CASE r.kind = "insert"
      BY <1>1, <2>1, <2>2, <3>1, GoodUpsert, HeldThroughUpsert
    <3>2. CASE r.kind # "insert"
      <4>1. HoldsSince(rows, r.gen.stamp)
        BY <2>2, <3>2 DEF IInv, LateDeletesSafe
      <4>2. rows' = Pruned(rows, r.gen.stamp)
        BY <2>1, <3>2
      <4> QED
        BY <1>1, <2>2, <4>1, <4>2, GoodPrune, HeldThroughPrune
    <3> QED
      BY <3>1, <3>2
  <2>4. TypeOK'
    BY <2>1, <2>3 DEF IInv, TypeOK, GoodTable
  <2>5. AnsweredIsCurrent'
    <3> SUFFICES ASSUME NEW z \in Savers, pc'[z] = "delete"
                 PROVE  HoldsSince(rows', stamp'[z])
      BY DEF AnsweredIsCurrent, HoldsSince
    <3>1. HoldsSince(rows, stamp[z]) /\ stamp[z] \in Nat
      BY <2>1, StampIsNat DEF IInv, AnsweredIsCurrent, HoldsSince
    <3> QED
      BY <2>1, <2>3, <3>1
  <2>6. LateDeletesSafe'
    BY <1>1, <2>1, <2>3 DEF IInv, LateDeletesSafe
  <2> QED
    BY <2>1, <2>3, <2>4, <2>5, <2>6 DEF IInv, StampsDistinct, SendersOffered, Generation
<1>9. CASE UNCHANGED vars
  BY <1>9 DEF IInv, TypeOK, StampsDistinct, SendersOffered, AnsweredIsCurrent,
              LateDeletesSafe, Generation, vars
<1> QED
  BY <1>2, <1>3, <1>4, <1>5, <1>6, <1>7, <1>8, <1>9 DEF Next

-----------------------------------------------------------------------------
(* What the invariant says of `load`. *)

(* The rows under the newest stamp are the whole of one offer. *)
LEMMA LoadIsOffer ==
  ASSUME IInv, NEW m \in Newest(rows)
  PROVE  \E g \in drawn :
           /\ rows[m].at = g.stamp
           /\ Load = g.man
           /\ \A p \in DOMAIN Load : rows[p].at = g.stamp
<1>1. m \in DOMAIN rows /\ \A q \in DOMAIN rows : rows[q].at <= rows[m].at
  BY DEF Newest
<1>2. PICK g \in drawn : rows[m].at = g.stamp
  BY <1>1 DEF IInv, GoodTable, RowsOffered
<1>3. /\ \A p \in DOMAIN rows : rows[p].at \in Nat
      /\ g.man = [p \in DOMAIN g.man |-> g.man[p]]
  BY TableFacts, OfferFacts DEF IInv, GoodTable, TypeOK
<1>4. \A p \in Newest(rows) : rows[p].at = g.stamp
  BY <1>1, <1>2, <1>3 DEF Newest
<1>5. \A p \in Newest(rows) : p \in DOMAIN g.man /\ rows[p].hash = g.man[p]
  BY <1>4 DEF IInv, GoodTable, RowsOffered, StampsDistinct, Newest
<1>6. \A p \in DOMAIN g.man : p \in DOMAIN rows /\ rows[p].at >= rows[m].at
  BY <1>1, <1>2 DEF IInv, GoodTable, OffersWhole
<1>7. \A p \in DOMAIN g.man : p \in Newest(rows)
  BY <1>1, <1>3, <1>6 DEF Newest
<1>8. Newest(rows) = DOMAIN g.man
  BY <1>5, <1>7
<1>9. Load = g.man
  BY <1>3, <1>5, <1>8 DEF Load
<1> QED
  BY <1>2, <1>4, <1>8, <1>9

LEMMA EmptyTable ==
  ASSUME TypeOK
  PROVE  rows = Nothing <=> DOMAIN rows = {}
BY TableFacts DEF TypeOK, Nothing

LEMMA IInvOneGeneration == IInv => OneGeneration
<1> SUFFICES ASSUME IInv, rows # Nothing
             PROVE  \E g \in drawn :
                      Load = g.man /\ \A p \in DOMAIN Load : rows[p].at = g.stamp
  BY DEF OneGeneration
<1>1. PICK m \in Newest(rows) : TRUE
  BY EmptyTable DEF IInv, GoodTable, NewestExists
<1> QED
  BY <1>1, LoadIsOffer

(* Every reachable table is well typed, and its rows come from the offers  *)
(* in the way IInv says.                                                   *)
LEMMA Invariance == ASSUME ~ StampsCollide PROVE Spec => []IInv
<1>1. Init => IInv
  BY InitIInv
<1>2. IInv /\ [Next]_vars => IInv'
  BY NextIInv
<1> QED
  BY <1>1, <1>2, PTL DEF Spec

-----------------------------------------------------------------------------
(* The theorems. *)

(* The variables keep their types through every statement. *)
THEOREM TypeCorrect == ASSUME ~ StampsCollide PROVE Spec => []TypeOK
<1>1. IInv => TypeOK
  BY DEF IInv
<1> QED
  BY <1>1, Invariance, PTL

(* `load` never returns a mix of two saves, for any number of runs saving  *)
(* at once, as long as two of them do not draw the same stamp.             *)
THEOREM LoadIsOneGeneration == ASSUME ~ StampsCollide PROVE Spec => []OneGeneration
BY IInvOneGeneration, Invariance, PTL

(* A save whose upsert was answered is what `load` returns, or older than  *)
(* it: no delete removes the rows a reader needs.                          *)
THEOREM AnsweredStaysCurrent == ASSUME ~ StampsCollide PROVE Spec => []AnsweredIsCurrent
<1>1. IInv => AnsweredIsCurrent
  BY DEF IInv
<1> QED
  BY <1>1, Invariance, PTL

-----------------------------------------------------------------------------
(* The refinement: each step is a step of the register, or none. *)

(* What the register holds, in terms of any row with the newest stamp. *)
StampValue ==
  /\ rows = Nothing => NewestStamp = 0
  /\ \A m \in Newest(rows) : rows # Nothing /\ NewestStamp = rows[m].at

LoadValue ==
  \A m \in Newest(rows) : \E g \in drawn : rows[m].at = g.stamp /\ Load = g.man

LEMMA RegisterValue == IInv => StampValue /\ LoadValue
<1> SUFFICES ASSUME IInv PROVE StampValue /\ LoadValue
  OBVIOUS
<1>1. LoadValue
  BY LoadIsOffer DEF LoadValue
<1>2. ASSUME NEW p \in Newest(rows)
      PROVE  rows # Nothing /\ NewestStamp = rows[p].at
  <2> DEFINE m == CHOOSE q \in Newest(rows) : TRUE
  <2>1. m \in Newest(rows)
    BY <1>2
  <2>2. rows # Nothing
    BY <1>2, EmptyTable DEF IInv, Newest
  <2>3. NewestStamp = rows[m].at
    BY <2>2 DEF NewestStamp
  <2>4. \A q \in DOMAIN rows : rows[q].at \in Nat
    BY TableFacts DEF IInv, TypeOK
  <2> HIDE DEF m
  <2>5. rows[m].at <= rows[p].at /\ rows[p].at <= rows[m].at
    BY <1>2, <2>1 DEF Newest
  <2>6. m \in DOMAIN rows /\ p \in DOMAIN rows
    BY <1>2, <2>1 DEF Newest
  <2> QED
    BY <2>2, <2>3, <2>4, <2>5, <2>6
<1>3. StampValue
  BY <1>2 DEF NewestStamp, StampValue
<1> QED
  BY <1>1, <1>3

(* An upsert moves the register to its offer when its stamp is the newest, *)
(* and is invisible otherwise.                                             *)
LEMMA UpsertRefines ==
  ASSUME IInv, IInv', NEW g \in drawn, rows' = Upserted(rows, g), drawn' = drawn
  PROVE  Register!Replace \/ (NewestStamp' = NewestStamp /\ Load' = Load)
<1>1. /\ rows \in Tables /\ g \in Offer /\ g \in [stamp : Stamps, man : Manifests]
      /\ g.stamp \in Nat
      /\ \A p \in DOMAIN rows : rows[p].at \in Nat
      /\ g.stamp # 0
  BY TableFacts, OfferFacts, StampsAssumption DEF IInv, TypeOK, Offer
<1>2. /\ DOMAIN rows' = DOMAIN rows \cup DOMAIN g.man
      /\ \A p \in DOMAIN rows \cup DOMAIN g.man :
           \/ p \in DOMAIN rows /\ rows'[p] = rows[p]
           \/ /\ p \in DOMAIN g.man
              /\ rows'[p].hash = g.man[p]
              /\ rows'[p].at = g.stamp
              /\ p \in DOMAIN rows => g.stamp > rows[p].at
      /\ \A p \in DOMAIN g.man : rows'[p].at >= g.stamp
  BY <1>1, UpsertedRows
<1>0. StampValue /\ StampValue' /\ LoadValue'
  BY RegisterValue, PTL
<1>3. CASE \A p \in DOMAIN rows : rows[p].at < g.stamp
  <2>1. \A p \in DOMAIN g.man : rows'[p].at = g.stamp /\ p \in DOMAIN rows'
    BY <1>1, <1>2, <1>3
  <2>2. \A p \in DOMAIN rows' : rows'[p].at <= g.stamp
    BY <1>1, <1>2, <1>3
  <2>3. PICK m \in DOMAIN g.man : TRUE
    BY <1>1, OfferFacts
  <2>4. m \in Newest(rows')
    BY <2>1, <2>2 DEF Newest
  <2>5. (Newest(rows))' = Newest(rows')
    BY DEF Newest
  <2>6. PICK h \in drawn : rows'[m].at = h.stamp /\ Load' = h.man
    BY <1>0, <2>4, <2>5 DEF LoadValue
  <2>7. h = g
    BY <2>1, <2>6 DEF IInv, StampsDistinct
  <2>8. NewestStamp' = g.stamp
    BY <1>0, <2>1, <2>3, <2>4, <2>5 DEF StampValue
  <2>9. g.stamp > NewestStamp
    <3>1. CASE rows = Nothing
      BY <1>0, <1>1, <3>1 DEF StampValue
    <3>2. CASE rows # Nothing
      <4>1. PICK n \in Newest(rows) : TRUE
        BY <3>2, EmptyTable DEF IInv, GoodTable, NewestExists
      <4>2. n \in DOMAIN rows /\ NewestStamp = rows[n].at
        BY <1>0, <4>1 DEF Newest, StampValue
      <4> QED
        BY <1>1, <1>3, <4>2
    <3> QED
      BY <3>1, <3>2
  <2> QED
    BY <2>6, <2>7, <2>8, <2>9 DEF Register!Replace
<1>4. CASE \E p \in DOMAIN rows : ~ (rows[p].at < g.stamp)
  <2>1. PICK m \in Newest(rows) : TRUE
    BY <1>4 DEF IInv, GoodTable, NewestExists
  <2>2. m \in DOMAIN rows /\ \A q \in DOMAIN rows : rows[q].at <= rows[m].at
    BY <2>1 DEF Newest
  <2>3. g.stamp <= rows[m].at
    BY <1>1, <1>4, <2>2
  <2>4. rows'[m] = rows[m] /\ m \in DOMAIN rows'
    BY <1>1, <1>2, <2>2, <2>3
  <2>5. \A q \in DOMAIN rows' : rows'[q].at <= rows[m].at
    BY <1>1, <1>2, <2>2, <2>3
  (* No written row reaches the newest stamp: the offer is whole already. *)
  <2>6. \A q \in DOMAIN rows' :
          rows'[q].at = rows[m].at => q \in DOMAIN rows /\ rows'[q] = rows[q]
    <3> SUFFICES ASSUME NEW q \in DOMAIN rows', rows'[q].at = rows[m].at,
                        ~ (q \in DOMAIN rows /\ rows'[q] = rows[q])
                 PROVE  FALSE
      OBVIOUS
    <3>1. /\ q \in DOMAIN g.man /\ rows[m].at = g.stamp
          /\ q \in DOMAIN rows => g.stamp > rows[q].at
      BY <1>2
    <3>2. q \in DOMAIN rows /\ rows[q].at >= g.stamp
      BY <2>2, <3>1 DEF IInv, GoodTable, OffersWhole
    <3> QED
      BY <1>1, <3>1, <3>2
  <2>7. Newest(rows') = Newest(rows)
    <3>1. \A q \in Newest(rows') : q \in Newest(rows)
      <4> SUFFICES ASSUME NEW q \in Newest(rows') PROVE q \in Newest(rows)
        OBVIOUS
      <4>1. q \in DOMAIN rows' /\ rows'[m].at <= rows'[q].at
        BY <2>4 DEF Newest
      <4>2. rows'[q].at \in Nat
        BY <1>1, <1>2, <4>1
      <4>3. rows'[q].at = rows[m].at
        BY <1>1, <2>2, <2>4, <2>5, <4>1, <4>2
      <4> QED
        BY <2>2, <2>6, <4>1, <4>3 DEF Newest
    <3>2. \A q \in Newest(rows) : q \in Newest(rows')
      <4> SUFFICES ASSUME NEW q \in Newest(rows) PROVE q \in Newest(rows')
        OBVIOUS
      <4>1. q \in DOMAIN rows /\ rows[q].at = rows[m].at
        BY <1>1, <2>2 DEF Newest
      <4>2. rows'[q] = rows[q] /\ q \in DOMAIN rows'
        BY <1>1, <1>2, <2>3, <4>1
      <4> QED
        BY <2>5, <4>1, <4>2 DEF Newest
    <3> QED
      BY <3>1, <3>2
  <2>8. (Newest(rows))' = Newest(rows)
    BY <2>7 DEF Newest
  <2>9. \A q \in Newest(rows) : rows'[q] = rows[q]
    <3> SUFFICES ASSUME NEW q \in Newest(rows) PROVE rows'[q] = rows[q]
      OBVIOUS
    <3>1. q \in DOMAIN rows /\ rows[q].at = rows[m].at
      BY <1>1, <2>2 DEF Newest
    <3> QED
      BY <1>1, <1>2, <2>3, <3>1
  <2>10. Load' = Load
    BY <2>8, <2>9 DEF Load
  <2>11. NewestStamp' = NewestStamp
    BY <1>0, <2>1, <2>8, <2>9 DEF StampValue
  <2> QED
    BY <2>10, <2>11
<1> QED
  BY <1>3, <1>4

(* A delete that leaves a row leaves the newest ones. *)
LEMMA PruneRefines ==
  ASSUME IInv, IInv', NEW n \in Nat, rows' = Pruned(rows, n), HoldsSince(rows, n)
  PROVE  NewestStamp' = NewestStamp /\ Load' = Load
<1>1. /\ rows \in Tables
      /\ \A p \in DOMAIN rows : rows[p].at \in Nat
  BY TableFacts DEF IInv, TypeOK
<1>2. /\ DOMAIN rows' = {p \in DOMAIN rows : rows[p].at >= n}
      /\ \A p \in DOMAIN rows' : rows'[p] = rows[p]
  BY <1>1, PrunedRows
<1>3. PICK m \in Newest(rows) : TRUE
  BY DEF HoldsSince, IInv, GoodTable, NewestExists
<1>4. \A p \in Newest(rows) : p \in DOMAIN rows' /\ rows'[p] = rows[p]
  BY <1>1, <1>2 DEF HoldsSince, Newest
<1>5. Newest(rows') = Newest(rows)
  <2>1. \A q \in Newest(rows) : q \in Newest(rows')
    BY <1>2, <1>4 DEF Newest
  <2>2. \A q \in Newest(rows') : q \in Newest(rows)
    <3> SUFFICES ASSUME NEW q \in Newest(rows') PROVE q \in Newest(rows)
      OBVIOUS
    <3>1. /\ q \in DOMAIN rows /\ rows'[q] = rows[q]
          /\ rows[m].at <= rows[q].at
      BY <1>2, <1>3, <1>4 DEF Newest
    <3>2. m \in DOMAIN rows /\ \A p \in DOMAIN rows : rows[p].at <= rows[m].at
      BY <1>3 DEF Newest
    <3> QED
      BY <1>1, <3>1, <3>2 DEF Newest
  <2> QED
    BY <2>1, <2>2
<1>6. (Newest(rows))' = Newest(rows)
  BY <1>5 DEF Newest
<1>7. Load' = Load
  BY <1>4, <1>6 DEF Load
<1>8. NewestStamp' = NewestStamp
  <2>1. StampValue /\ StampValue'
    BY RegisterValue, PTL
  <2> QED
    BY <1>3, <1>4, <1>6, <2>1 DEF StampValue
<1> QED
  BY <1>7, <1>8

LEMMA StepRefines ==
  ASSUME IInv, IInv', [Next]_vars
  PROVE  [Register!Next]_(Register!vars)
<1> USE DEF Register!Next, Register!vars
<1>1. ASSUME rows' = rows, drawn' = drawn
      PROVE  UNCHANGED Register!vars
  BY <1>1 DEF Load, NewestStamp, Newest
<1>2. ASSUME NEW s \in Savers, ReadLatest(s)
      PROVE  Register!Offer
  <2>1. PICK t \in Stamps :
          /\ drawn' = drawn \cup {[stamp |-> t, man |-> man[s]]}
          /\ rows' = rows
          /\ man[s] \in Manifests
    BY <1>2 DEF ReadLatest, StampsAfter, IInv, SendersOffered
  <2>2. Load' = Load /\ NewestStamp' = NewestStamp
    BY <2>1 DEF Load, NewestStamp, Newest
  <2> QED
    BY <2>1, <2>2 DEF Register!Offer, Register!Manifests, Manifests
<1>3. ASSUME NEW g \in drawn, rows' = Upserted(rows, g), drawn' = drawn
      PROVE  [Register!Next]_(Register!vars)
  BY <1>3, UpsertRefines
<1>4. ASSUME NEW n \in Nat, rows' = Pruned(rows, n), HoldsSince(rows, n), drawn' = drawn
      PROVE  UNCHANGED Register!vars
  BY <1>4, PruneRefines
<1>5. ASSUME NEW s \in Savers, Upsert(s)
      PROVE  [Register!Next]_(Register!vars)
  BY <1>3, <1>5 DEF Upsert, IInv, SendersOffered
<1>6. ASSUME NEW s \in Savers, DeleteOlder(s)
      PROVE  UNCHANGED Register!vars
  <2>1. HoldsSince(rows, stamp[s])
    BY <1>6 DEF DeleteOlder, IInv, AnsweredIsCurrent, HoldsSince
  <2> QED
    BY <1>4, <1>6, <2>1, StampIsNat DEF DeleteOlder, IInv
<1>7. ASSUME RunLate
      PROVE  [Register!Next]_(Register!vars)
  <2>1. PICK r \in adrift :
          /\ rows' = IF r.kind = "insert" THEN Upserted(rows, r.gen)
                                          ELSE Pruned(rows, r.gen.stamp)
          /\ drawn' = drawn
    BY <1>7 DEF RunLate
  <2>2. r.gen \in drawn /\ r.gen.stamp \in Nat /\ r.kind \in {"insert", "delete"}
    BY OfferFacts DEF IInv, TypeOK
  <2>3. CASE r.kind = "insert"
    BY <1>3, <2>1, <2>2, <2>3
  <2>4. CASE r.kind # "insert"
    <3>1. HoldsSince(rows, r.gen.stamp)
      BY <2>2, <2>4 DEF IInv, LateDeletesSafe
    <3> QED
      BY <1>4, <2>1, <2>2, <2>4, <3>1
  <2> QED
    BY <2>3, <2>4
<1>8. ASSUME NEW s \in Savers,
             (\E m \in Offers : Save(s, m)) \/ Lost(s) \/ Abandon(s)
      PROVE  UNCHANGED Register!vars
  BY <1>1, <1>8 DEF Save, Lost, Abandon
<1>9. CASE UNCHANGED vars
  BY <1>1, <1>9 DEF vars
<1> QED
  BY <1>2, <1>5, <1>6, <1>7, <1>8, <1>9 DEF Next

(* The three statements of `save` and the SELECT of `load` implement one   *)
(* register that is replaced whole and only moves forward, for any number  *)
(* of runs, lost answers and late statements.                              *)
THEOREM TableImplementsRegister == ASSUME ~ StampsCollide PROVE Spec => ImplementsRegister
<1>1. Init => Register!Init
  BY DEF Init, Register!Init, NewestStamp, Load, Newest, Nothing, Register!Nothing
<1>2. IInv /\ IInv' /\ [Next]_vars => [Register!Next]_(Register!vars)
  BY StepRefines
<1> QED
  BY <1>1, <1>2, Invariance, PTL DEF Spec, ImplementsRegister, Register!Spec
=============================================================================
