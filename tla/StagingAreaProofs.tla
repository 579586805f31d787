--------------------------- MODULE StagingAreaProofs ---------------------------
(***************************************************************************)
(* Theorems about StagingArea: what is on show at any time, that it never  *)
(* gets older, that what was discarded stays away, and that the selection  *)
(* is the user's, whatever the order in which messages, answers and images *)
(* arrive and however many calls of onItemsChangedEvent are waiting.       *)
(***************************************************************************)
EXTENDS StagingArea, FiniteSetTheorems, SequenceTheorems, NaturalsInduction, TLAPS

-------------------------------------------------------------------------------
(* The inductive invariant.                                                *)

ItemType == [id : Items, status : Status, seq : Int, results : BOOLEAN]

\* A status and its sequence number: 0 pending, 1 in progress or canceled before
\* that, 2 ended.
Dated(status, seq) ==
    IF Sequenced THEN \/ Rank(status) = 0 /\ seq = 0
                      \/ Rank(status) = 1 /\ seq = 1
                      \/ Rank(status) = 2 /\ seq \in {1, 2}
    ELSE seq = Undefined

\* A list of items, each of them there once.
ListOK(list) ==
    /\ list \in Seq(ItemType)
    /\ \A m, n \in DOMAIN list : list[m].id = list[n].id => m = n
    /\ \A n \in DOMAIN list : Dated(list[n].status, list[n].seq)

\* One that may be on show.
ShowableOK(list) ==
    /\ ListOK(list)
    /\ \A n \in DOMAIN list : list[n].status \notin {"canceled", "failed"}

\* The api has seen something as late as x.
Remembers(a, x) == a.seqs[x.id] >= x.seq /\ a.ranks[x.id] >= Rank(x.status)

Newer(y, x) == y.seq >= x.seq /\ Rank(y.status) >= Rank(x.status)

CallType == [list : Seq(ItemType), old : Seq(ItemType), at : Nat, stale : BOOLEAN]

AreaType ==
    [items : Seq(ItemType), dtos : [Items -> Nat], selected : Items \cup {None}, image : Nat,
     lastStarted : Items \cup {None}, lastCompleted : Items \cup {None},
     seqs : [Items -> Int], ranks : [Items -> Int], calls : SUBSET CallType,
     forgotten : SUBSET Items, lost : BOOLEAN]

Newest(a) == {c \in a.calls : ~c.stale}

\* The images of an item are there, if it has any, or could not be had.
HasImages(a, x, miss) == ~AwaitsImages(a, x) \/ x.id \in miss

ShownOK(a, own) ==
    /\ ShowableOK(a.items) /\ Ids(a.items) \subseteq own
    /\ \A n \in DOMAIN a.items : a.items[n].id \notin a.forgotten => Remembers(a, a.items[n])

\* What the newest call has before it is remembered, and no older than what is
\* on show; it is past the images it has seen to.
NewestOK(a, c, own, disc, miss) ==
    /\ Ids(c.list) \subseteq own \ disc
    /\ a.selected # None
    /\ \A n \in DOMAIN c.list : Remembers(a, c.list[n])
    /\ \A m \in DOMAIN a.items, n \in DOMAIN c.list :
          a.items[m].id = c.list[n].id /\ a.items[m].id \notin a.forgotten
              => Newer(c.list[n], a.items[m])
    /\ \A n \in 1 .. c.at - 1 : HasImages(a, c.list[n], miss)

RestOK(a, miss) ==
    /\ \A n \in DOMAIN a.items : HasImages(a, a.items[n], miss)
    /\ miss = {} /\ ~a.lost /\ a.items # <<>> => a.selected \in Ids(a.items)

\* The api, but for what its newest call has yet to do ...
BaseOK(a, own) ==
    /\ a \in AreaType
    /\ \A i \in Items : a.dtos[i] <= Outputs[i]
    /\ ShownOK(a, own)
    /\ \A c \in a.calls : ShowableOK(c.list) /\ c.at \in DOMAIN c.list

\* ... and with that, or with what it has left when no call goes on.
AreaOK(a, own, disc, miss) ==
    /\ BaseOK(a, own)
    /\ \A c, d \in Newest(a) : c = d
    /\ \A c \in Newest(a) : NewestOK(a, c, own, disc, miss)
    /\ Newest(a) = {} => RestOK(a, miss)

\* The items of a session.
Own(rows, session) == {i \in Items : rows[i].dest = session}

RowType == [dest : 0 .. MaxSessions, status : Status \cup {"none", "gone"},
            seq : Nat, results : BOOLEAN]

RowOK(row) ==
    /\ row \in RowType
    /\ row.status = "none" => row.dest = 0
    /\ row.status = "pending" => row.seq = 0
    /\ row.status = "in_progress" => row.seq = 1
    /\ row.status \in Terminal => row.seq \in {1, 2}

MessageType ==
    [kind : {"queue_item_status_changed", "batch_enqueued", "queue_cleared"},
     id : Items \cup {None}, status : Status, dest : Nat, seq : Int]

MessageOK(e) ==
    e.kind = "queue_item_status_changed" => e.id \in Items /\ Dated(e.status, e.seq)

QueryType == [data : Seq(ItemType), fetch : {"idle", "sent", "served"}, answer : Seq(ItemType)]

QueryOK(q, own) ==
    /\ q \in QueryType
    /\ ListOK(q.data) /\ Ids(q.data) \subseteq own
    /\ ListOK(q.answer) /\ Ids(q.answer) \subseteq own

World ==
    /\ srv \in [Items -> RowType] /\ \A i \in Items : RowOK(srv[i])
    /\ wire \in Seq(MessageType) /\ Len(wire) <= MaxWire
    /\ \A n \in DOMAIN wire : MessageOK(wire[n])
    /\ finished \subseteq Items /\ missed \subseteq Items
    /\ app \in [session : 1 .. MaxSessions, discarded : SUBSET Items, mode : Modes]

IInv ==
    /\ World
    /\ QueryOK(query, Own(srv, app.session))
    /\ AreaOK(area, Own(srv, app.session), app.discarded, missed)

-------------------------------------------------------------------------------
(* Numbers and sequences.                                                  *)

LEMMA MinIs ==
    ASSUME NEW S \in SUBSET Nat, S # {}
    PROVE  Min(S) \in S /\ \A x \in S : Min(S) <= x
<1> DEFINE Less == {ss \in Nat \X Nat : ss[1] < ss[2]}
<1>1. IsWellFoundedOn(Less, Nat)
  BY NatLessThanWellFounded DEF OpToRel
<1>2. \E x \in S : \A y \in S : ~(<<y, x>> \in Less)
  BY <1>1, WFMin
<1>3. \A x, y \in Nat : ~(<<y, x>> \in Less) => x <= y
  OBVIOUS
<1>4. \E x \in S : \A y \in S : x <= y
  <2> HIDE DEF Less
  <2> QED BY <1>2, <1>3
<1>5. QED BY <1>4 DEF Min

LEMMA MaxOfTwo ==
    ASSUME NEW m \in Int, NEW n \in Int
    PROVE  Max({m, n}) = IF m >= n THEN m ELSE n
<1>1. \E x \in {m, n} : \A y \in {m, n} : x >= y
  OBVIOUS
<1>2. Max({m, n}) \in {m, n} /\ \A y \in {m, n} : Max({m, n}) >= y
  BY <1>1 DEF Max
<1>3. QED BY <1>2

LEMMA MinOfTwo ==
    ASSUME NEW m \in Int, NEW n \in Int
    PROVE  Min({m, n}) = IF m <= n THEN m ELSE n
<1>1. \E x \in {m, n} : \A y \in {m, n} : x <= y
  OBVIOUS
<1>2. Min({m, n}) \in {m, n} /\ \A y \in {m, n} : Min({m, n}) <= y
  BY <1>1 DEF Min
<1>3. QED BY <1>2

\* f is what FlattenSeq goes through with the first n of the sequences s.
Flattening(f, s, n) == f = [i \in 1 .. n |-> IF i = 1 THEN s[i] ELSE f[i - 1] \o s[i]]

LEMMA FlatteningExists ==
    ASSUME NEW N \in Nat \ {0}, NEW s
    PROVE  \E f : Flattening(f, s, N)
<1> DEFINE Bad == {n \in Nat : n > 0 /\ ~ \E f : Flattening(f, s, n)}
<1> SUFFICES ASSUME Bad # {} PROVE FALSE
  OBVIOUS
<1>1. PICK m \in Bad : \A n \in Bad : m <= n
  BY MinIs
<1>2. m # 1
  <2>1. Flattening([i \in 1 .. 1 |-> s[i]], s, 1)
    BY DEF Flattening
  <2>2. QED BY <1>1, <2>1
<1>3. m - 1 \in Nat /\ m - 1 > 0 /\ m - 1 \notin Bad
  BY <1>1, <1>2
<1>4. PICK f : Flattening(f, s, m - 1)
  BY <1>3
<1> DEFINE g == [i \in 1 .. m |-> IF i = m THEN f[m - 1] \o s[m] ELSE f[i]]
<1>5. ASSUME NEW i \in 1 .. m PROVE g[i] = IF i = 1 THEN s[i] ELSE g[i - 1] \o s[i]
  <2>1. \A j \in 1 .. m - 1 : f[j] = IF j = 1 THEN s[j] ELSE f[j - 1] \o s[j]
    BY <1>4 DEF Flattening
  <2>2. \A j \in 1 .. m - 1 : j \in 1 .. m /\ j # m
    BY <1>1
  <2>3. \A j \in 1 .. m - 1 : g[j] = f[j]
    BY <2>2
  <2>4. m \in 1 .. m /\ g[m] = f[m - 1] \o s[m]
    <3>1. m \in 1 .. m
      BY <1>1
    <3>2. QED BY <3>1
  <2>5. CASE i = m
    <3>1. m - 1 \in 1 .. m - 1
      BY <1>3
    <3>2. QED BY <1>2, <2>3, <2>4, <2>5, <3>1
  <2>6. CASE i # m
    <3>1. i \in 1 .. m - 1 /\ (i # 1 => i - 1 \in 1 .. m - 1)
      BY <1>1, <2>6
    <3>2. QED
      <4> HIDE DEF g
      <4> QED BY <2>1, <2>3, <3>1
  <2>7. QED BY <2>5, <2>6
<1>6. Flattening(g, s, m)
  <2>1. g = [i \in 1 .. m |-> g[i]]
    OBVIOUS
  <2> HIDE DEF g
  <2>2. QED BY <1>5, <2>1 DEF Flattening
<1>7. QED BY <1>1, <1>6

LEMMA FlattenSeqIs ==
    ASSUME NEW s, Len(s) \in Nat \ {0}
    PROVE  \E f : Flattening(f, s, Len(s)) /\ FlattenSeq(s) = f[Len(s)]
<1> DEFINE g == CHOOSE g : g = [i \in 1 .. Len(s) |-> IF i = 1 THEN s[i] ELSE g[i - 1] \o s[i]]
<1>1. g = [i \in 1 .. Len(s) |-> IF i = 1 THEN s[i] ELSE g[i - 1] \o s[i]]
  BY FlatteningExists DEF Flattening
<1>2. FlattenSeq(s) = g[Len(s)]
  BY DEF FlattenSeq
<1>3. QED BY <1>1, <1>2 DEF Flattening

\* Every element of flat has its place in one of the first n of the sequences
\* s, each place one element.
LaidOut(flat, s, n) ==
    \E p \in [1 .. Len(flat) -> (1 .. n) \X Nat] :
       /\ \A j \in 1 .. Len(flat) : p[j][2] \in DOMAIN s[p[j][1]] /\ flat[j] = s[p[j][1]][p[j][2]]
       /\ \A j, k \in 1 .. Len(flat) : p[j] = p[k] => j = k
       /\ \A m \in 1 .. n : \A k \in DOMAIN s[m] : \E j \in 1 .. Len(flat) : p[j] = <<m, k>>

LEMMA OneMoreLaidOut ==
    ASSUME NEW S, NEW N \in Nat, NEW s \in [1 .. N -> Seq(S)], NEW n \in 1 .. N, n > 1,
           NEW flat \in Seq(S), LaidOut(flat, s, n - 1)
    PROVE  LaidOut(flat \o s[n], s, n)
<1>1. PICK p \in [1 .. Len(flat) -> (1 .. n - 1) \X Nat] :
         /\ \A j \in 1 .. Len(flat) : p[j][2] \in DOMAIN s[p[j][1]] /\ flat[j] = s[p[j][1]][p[j][2]]
         /\ \A j, k \in 1 .. Len(flat) : p[j] = p[k] => j = k
         /\ \A m \in 1 .. n - 1 : \A k \in DOMAIN s[m] : \E j \in 1 .. Len(flat) : p[j] = <<m, k>>
  BY DEF LaidOut
<1> DEFINE more == flat \o s[n]
           q == [j \in 1 .. Len(more) |-> IF j <= Len(flat) THEN p[j] ELSE <<n, j - Len(flat)>>]
<1>2. /\ s[n] \in Seq(S) /\ Len(s[n]) \in Nat /\ DOMAIN s[n] = 1 .. Len(s[n]) /\ Len(flat) \in Nat
      /\ Len(more) = Len(flat) + Len(s[n])
      /\ \A j \in 1 .. Len(more) : more[j] = IF j <= Len(flat) THEN flat[j] ELSE s[n][j - Len(flat)]
  OBVIOUS
<1>3. \A j \in 1 .. Len(more) :
         \/ j \in 1 .. Len(flat) /\ q[j] = p[j] /\ p[j] \in (1 .. n - 1) \X Nat
         \/ j - Len(flat) \in 1 .. Len(s[n]) /\ ~(j <= Len(flat)) /\ q[j] = <<n, j - Len(flat)>>
  <2> HIDE DEF more
  <2> SUFFICES ASSUME NEW j \in 1 .. Len(more)
               PROVE  \/ j \in 1 .. Len(flat) /\ q[j] = p[j] /\ p[j] \in (1 .. n - 1) \X Nat
                      \/ j - Len(flat) \in 1 .. Len(s[n]) /\ ~(j <= Len(flat)) /\ q[j] = <<n, j - Len(flat)>>
    OBVIOUS
  <2>1. CASE j <= Len(flat)
    <3>1. j \in 1 .. Len(flat) /\ q[j] = p[j]
      BY <1>2, <2>1
    <3>2. QED BY <1>1, <3>1
  <2>2. CASE ~(j <= Len(flat))
    <3>1. j - Len(flat) \in 1 .. Len(s[n])
      BY <1>2, <2>2
    <3>2. QED BY <2>2, <3>1
  <2>3. QED BY <2>1, <2>2
<1>4. q \in [1 .. Len(more) -> (1 .. n) \X Nat]
  <2>1. \A j \in 1 .. Len(more) : q[j] \in (1 .. n) \X Nat
    BY <1>2, <1>3
  <2>2. QED BY <2>1
<1>5. ASSUME NEW j \in 1 .. Len(more)
      PROVE  q[j][2] \in DOMAIN s[q[j][1]] /\ more[j] = s[q[j][1]][q[j][2]]
  <2> HIDE DEF more, q
  <2>1. CASE j \in 1 .. Len(flat)
    <3>1. q[j] = p[j]
      BY <1>2, <1>3, <2>1
    <3>2. more[j] = flat[j]
      BY <1>2, <2>1
    <3>3. p[j][2] \in DOMAIN s[p[j][1]] /\ flat[j] = s[p[j][1]][p[j][2]]
      BY ONLY <1>1, <2>1
    <3>4. QED BY ONLY <3>1, <3>2, <3>3
  <2>2. CASE j - Len(flat) \in 1 .. Len(s[n]) /\ ~(j <= Len(flat)) /\ q[j] = <<n, j - Len(flat)>>
    BY <1>2, <2>2
  <2>3. QED BY <1>3, <2>1, <2>2
<1>6. ASSUME NEW j \in 1 .. Len(more), NEW k \in 1 .. Len(more), q[j] = q[k] PROVE j = k
  <2> HIDE DEF more, q
  <2>0. \A i \in 1 .. Len(flat) : i <= Len(flat)
    BY <1>2
  <2>1. CASE j \in 1 .. Len(flat) /\ k \in 1 .. Len(flat)
    <3>1. q[j] = p[j] /\ q[k] = p[k]
      BY ONLY <1>3, <2>0, <2>1, j \in 1 .. Len(more), k \in 1 .. Len(more)
    <3>2. QED BY <1>1, <1>6, <2>1, <3>1
  <2>2. CASE j \notin 1 .. Len(flat) \/ k \notin 1 .. Len(flat)
    <3>1. \A i \in 1 .. Len(more) :
             \/ i \in 1 .. Len(flat) /\ q[i][1] # n
             \/ i \notin 1 .. Len(flat) /\ q[i] = <<n, i - Len(flat)>>
      <4>1. \A x \in (1 .. n - 1) \X Nat : x[1] # n
        OBVIOUS
      <4>2. QED BY ONLY <1>3, <2>0, <4>1
    <3>2. q[j] = <<n, j - Len(flat)>> /\ q[k] = <<n, k - Len(flat)>>
      BY <1>6, <2>2, <3>1
    <3>3. <<n, j - Len(flat)>>[2] = <<n, k - Len(flat)>>[2]
      BY <1>6, <3>2
    <3>4. QED BY <1>2, <3>3
  <2>3. QED BY <2>1, <2>2
<1>7. ASSUME NEW m \in 1 .. n, NEW k \in DOMAIN s[m] PROVE \E j \in 1 .. Len(more) : q[j] = <<m, k>>
  <2>1. CASE m = n
    <3>1. Len(flat) + k \in 1 .. Len(more)
      BY <1>2, <2>1
    <3>2. q[Len(flat) + k] = <<m, k>>
      <4>1. ~(Len(flat) + k <= Len(flat)) /\ (Len(flat) + k) - Len(flat) = k
        BY <1>2, <2>1
      <4>2. QED BY <2>1, <3>1, <4>1
    <3>3. QED
      <4> HIDE DEF q
      <4> QED BY <3>1, <3>2
  <2>2. CASE m # n
    <3>0. m \in 1 .. n - 1
      BY <2>2
    <3>1. PICK j \in 1 .. Len(flat) : p[j] = <<m, k>>
      BY <1>1, <3>0
    <3>2. j \in 1 .. Len(more) /\ q[j] = p[j]
      BY <1>2
    <3>3. QED
      <4> HIDE DEF q
      <4> QED BY <3>1, <3>2
  <2>3. QED BY <2>1, <2>2
<1>8. QED
  <2> HIDE DEF q
  <2>1. QED BY <1>4, <1>5, <1>6, <1>7 DEF LaidOut

LEMMA Flattened ==
    ASSUME NEW S, NEW N \in Nat, NEW s \in [1 .. N -> Seq(S)]
    PROVE  FlattenSeq(s) \in Seq(S) /\ LaidOut(FlattenSeq(s), s, N)
<1>1. Len(s) = N /\ s \in Seq(Seq(S))
  OBVIOUS
<1>2. CASE N = 0
  <2>1. FlattenSeq(s) = s /\ s = <<>>
    BY <1>1, <1>2 DEF FlattenSeq
  <2>2. LaidOut(<<>>, s, 0)
    <3>1. Len(<<>>) = 0 /\ 1 .. 0 = {}
      OBVIOUS
    <3>2. \E p \in [1 .. 0 -> (1 .. 0) \X Nat] : TRUE
      <4>1. [i \in {} |-> 0] \in [{} -> (1 .. 0) \X Nat]
        OBVIOUS
      <4>2. QED BY <3>1, <4>1
    <3>3. QED BY <3>1, <3>2 DEF LaidOut
  <2>3. QED BY <1>2, <2>1, <2>2
<1>3. CASE N # 0
  <2>1. PICK f : Flattening(f, s, N) /\ FlattenSeq(s) = f[N]
    BY <1>1, <1>3, FlattenSeqIs
  <2>2. \A n \in 1 .. N : f[n] = IF n = 1 THEN s[n] ELSE f[n - 1] \o s[n]
    BY <2>1 DEF Flattening
  <2> DEFINE Bad == {n \in Nat : n \in 1 .. N /\ ~(f[n] \in Seq(S) /\ LaidOut(f[n], s, n))}
  <2>3. ASSUME Bad # {} PROVE FALSE
    <3>1. PICK m \in Bad : \A n \in Bad : m <= n
      BY <2>3, MinIs
    <3>2. CASE m = 1
      <4>1. f[1] = s[1] /\ s[1] \in Seq(S) /\ DOMAIN s[1] = 1 .. Len(s[1])
        BY <2>2, <3>1, <3>2
      <4> DEFINE q == [j \in 1 .. Len(s[1]) |-> <<1, j>>]
      <4>2. q \in [1 .. Len(s[1]) -> (1 .. 1) \X Nat]
        BY <4>1
      <4>3. LaidOut(s[1], s, 1)
        <5>1. \A j \in 1 .. Len(s[1]) : q[j] = <<1, j>> /\ q[j][1] = 1 /\ q[j][2] = j
          OBVIOUS
        <5>2. \A j, k \in 1 .. Len(s[1]) : q[j] = q[k] => j = k
          <6> HIDE DEF q
          <6> QED BY <5>1
        <5>3. \A m1 \in 1 .. 1 : \A k \in DOMAIN s[m1] : \E j \in 1 .. Len(s[1]) : q[j] = <<m1, k>>
          <6> HIDE DEF q
          <6>1. \A m1 \in 1 .. 1 : m1 = 1
            OBVIOUS
          <6>2. QED BY <4>1, <5>1, <6>1
        <5> HIDE DEF q
        <5>4. \A j \in 1 .. Len(s[1]) : q[j][2] \in DOMAIN s[q[j][1]] /\ s[1][j] = s[q[j][1]][q[j][2]]
          BY <4>1, <5>1
        <5>5. QED BY <4>2, <5>2, <5>3, <5>4 DEF LaidOut
      <4>4. QED BY <3>1, <3>2, <4>1, <4>3
    <3>3. CASE m # 1
      <4>1. m \in 1 .. N /\ m > 1 /\ m - 1 \in 1 .. N /\ m - 1 \notin Bad
        BY <3>1, <3>3
      <4>2. f[m - 1] \in Seq(S) /\ LaidOut(f[m - 1], s, m - 1)
        BY <4>1
      <4>3. f[m] = f[m - 1] \o s[m] /\ s[m] \in Seq(S)
        <5> HIDE DEF Bad
        <5>1. m # 1
          BY <3>3
        <5>2. QED BY <2>2, <4>1, <5>1
      <4>4. f[m] \in Seq(S) /\ LaidOut(f[m], s, m)
        <5> HIDE DEF Bad
        <5>1. f[m - 1] \o s[m] \in Seq(S)
          BY <4>2, <4>3
        <5>2. LaidOut(f[m - 1] \o s[m], s, m)
          BY <4>1, <4>2, OneMoreLaidOut
        <5>3. QED BY <4>3, <5>1, <5>2
      <4>5. QED BY <3>1, <4>4
    <3>4. QED BY <3>2, <3>3
  <2>4. N \in 1 .. N /\ N \notin Bad
    <3>1. N \in 1 .. N
      BY <1>3
    <3>2. QED BY <2>3, <3>1
  <2>5. QED BY <2>1, <2>4
<1>4. QED BY <1>2, <1>3

\* The flatMap of a list that makes at most one of each element: what it keeps,
\* it keeps once.
OneEach(flat, s, N) ==
    \E p \in [DOMAIN flat -> 1 .. N] :
       /\ \A j \in DOMAIN flat : s[p[j]] # <<>> /\ flat[j] = s[p[j]][1]
       /\ \A j, k \in DOMAIN flat : p[j] = p[k] => j = k
       /\ \A n \in 1 .. N : s[n] # <<>> => \E j \in DOMAIN flat : p[j] = n

LEMMA Picked ==
    ASSUME NEW S, NEW N \in Nat, NEW s \in [1 .. N -> Seq(S)], \A n \in 1 .. N : Len(s[n]) <= 1
    PROVE  FlattenSeq(s) \in Seq(S) /\ OneEach(FlattenSeq(s), s, N)
<1> DEFINE F == FlattenSeq(s)
<1>1. F \in Seq(S) /\ LaidOut(F, s, N) /\ DOMAIN F = 1 .. Len(F)
  BY Flattened
<1> HIDE DEF F
<1>2. PICK q \in [1 .. Len(F) -> (1 .. N) \X Nat] :
        /\ \A j \in 1 .. Len(F) : q[j][2] \in DOMAIN s[q[j][1]] /\ F[j] = s[q[j][1]][q[j][2]]
        /\ \A j, k \in 1 .. Len(F) : q[j] = q[k] => j = k
        /\ \A m \in 1 .. N : \A k \in DOMAIN s[m] : \E j \in 1 .. Len(F) : q[j] = <<m, k>>
  BY <1>1 DEF LaidOut
<1>3. \A n \in 1 .. N : s[n] \in Seq(S) /\ DOMAIN s[n] \subseteq {1} /\ (s[n] # <<>> => 1 \in DOMAIN s[n])
  <2> SUFFICES ASSUME NEW n \in 1 .. N
               PROVE  s[n] \in Seq(S) /\ DOMAIN s[n] \subseteq {1} /\ (s[n] # <<>> => 1 \in DOMAIN s[n])
    OBVIOUS
  <2>1. s[n] \in Seq(S) /\ Len(s[n]) \in Nat /\ DOMAIN s[n] = 1 .. Len(s[n]) /\ Len(s[n]) <= 1
    OBVIOUS
  <2>2. s[n] # <<>> => Len(s[n]) # 0
    BY <2>1
  <2>3. QED BY <2>1, <2>2
<1>4. \A j \in 1 .. Len(F) : /\ q[j][1] \in 1 .. N /\ q[j][2] = 1 /\ q[j] = <<q[j][1], 1>>
                             /\ 1 \in DOMAIN s[q[j][1]] /\ F[j] = s[q[j][1]][1]
  <2> SUFFICES ASSUME NEW j \in 1 .. Len(F)
               PROVE  /\ q[j][1] \in 1 .. N /\ q[j][2] = 1 /\ q[j] = <<q[j][1], 1>>
                      /\ 1 \in DOMAIN s[q[j][1]] /\ F[j] = s[q[j][1]][1]
    OBVIOUS
  <2>1. q[j] \in (1 .. N) \X Nat /\ q[j][2] \in DOMAIN s[q[j][1]] /\ F[j] = s[q[j][1]][q[j][2]]
    BY <1>2
  <2>2. q[j][1] \in 1 .. N /\ q[j] = <<q[j][1], q[j][2]>>
    BY <2>1
  <2>3. q[j][2] = 1
    BY <1>3, <2>1, <2>2
  <2>4. QED BY <2>1, <2>2, <2>3
<1> DEFINE p == [j \in DOMAIN F |-> q[j][1]]
<1>5. \A j \in DOMAIN F : p[j] = q[j][1]
  OBVIOUS
<1>6. p \in [DOMAIN F -> 1 .. N]
  BY <1>1, <1>4
<1> HIDE DEF p
<1>7. \A j \in DOMAIN F : s[p[j]] # <<>> /\ F[j] = s[p[j]][1]
  BY <1>1, <1>4, <1>5
<1>8. ASSUME NEW j \in DOMAIN F, NEW k \in DOMAIN F, p[j] = p[k] PROVE j = k
  <2>1. j \in 1 .. Len(F) /\ k \in 1 .. Len(F) /\ q[j][1] = q[k][1]
    BY <1>1, <1>5, <1>8
  <2>2. q[j] = <<q[j][1], 1>> /\ q[k] = <<q[k][1], 1>>
    BY <1>4, <2>1
  <2>3. q[j] = q[k]
    BY <2>1, <2>2
  <2>4. QED BY <1>2, <2>1, <2>3
<1>9. ASSUME NEW n \in 1 .. N, s[n] # <<>> PROVE \E j \in DOMAIN F : p[j] = n
  <2>1. PICK j \in 1 .. Len(F) : q[j] = <<n, 1>>
    BY <1>2, <1>3, <1>9
  <2>2. q[j][1] = n
    BY <2>1
  <2>3. QED BY <1>1, <1>5, <2>2
<1>10. OneEach(F, s, N)
  BY <1>6, <1>7, <1>8, <1>9 DEF OneEach
<1>11. QED BY <1>1, <1>10 DEF F

-------------------------------------------------------------------------------
(* Lists of items.                                                         *)

LEMMA IdsAre ==
    ASSUME NEW list, NEW i
    PROVE  i \in Ids(list) <=> \E n \in DOMAIN list : list[n].id = i
BY DEF Ids, Range

LEMMA IdsOfItems ==
    ASSUME NEW list \in Seq(ItemType)
    PROVE  Ids(list) \subseteq Items /\ \A n \in DOMAIN list : list[n] \in ItemType /\ list[n].id \in Ids(list)
<1>1. \A n \in DOMAIN list : list[n] \in ItemType
  OBVIOUS
<1>2. \A x \in ItemType : x.id \in Items
  BY DEF ItemType
<1>3. QED BY <1>1, <1>2 DEF Ids, Range

\* A list of one, and of none.
LEMMA OneOrNone ==
    ASSUME NEW x \in ItemType
    PROVE  /\ <<x>> \in Seq(ItemType) /\ Len(<<x>>) = 1 /\ <<x>> # <<>> /\ <<x>>[1] = x
           /\ <<>> \in Seq(ItemType) /\ Len(<<>>) = 0
OBVIOUS

LEMMA ItemInIs ==
    ASSUME NEW list, ListOK(list), NEW n \in DOMAIN list
    PROVE  ItemIn(list, list[n].id) = list[n]
BY DEF ItemIn, ListOK

LEMMA SomeItemIn ==
    ASSUME NEW list, NEW i \in Ids(list)
    PROVE  \E n \in DOMAIN list : ItemIn(list, i) = list[n] /\ list[n].id = i
BY IdsAre DEF ItemIn

LEMMA IndexInIs ==
    ASSUME NEW list \in Seq(ItemType), NEW i
    PROVE  /\ i \in Ids(list) => IndexIn(list, i) \in DOMAIN list /\ list[IndexIn(list, i)].id = i
           /\ i \notin Ids(list) => IndexIn(list, i) = 0
           /\ IndexIn(list, i) \in Nat
<1>1. i \in Ids(list) => IndexIn(list, i) \in DOMAIN list /\ list[IndexIn(list, i)].id = i
  BY IdsAre DEF IndexIn
<1>2. i \notin Ids(list) => IndexIn(list, i) = 0
  BY DEF IndexIn
<1>3. DOMAIN list \subseteq Nat
  OBVIOUS
<1>4. QED BY <1>1, <1>2, <1>3

LEMMA EmptyList == ShowableOK(<<>>) /\ Ids(<<>>) = {} /\ \A own : Ids(<<>>) \subseteq own
BY DEF ShowableOK, ListOK, Ids, Range

LEMMA CanvasQueueItemsOK ==
    ASSUME NEW q, ListOK(q.data), NEW discarded
    PROVE  /\ ShowableOK(CanvasQueueItems(q, discarded))
           /\ Ids(CanvasQueueItems(q, discarded)) \subseteq Ids(q.data) \ discarded
<1> DEFINE data == q.data
           N == Len(data)
           Keeps(n) == data[n].status \notin {"canceled", "failed"} /\ data[n].id \notin discarded
           s == [n \in DOMAIN data |-> IF Keeps(n) THEN <<data[n]>> ELSE <<>>]
           L == FlattenSeq(s)
<1>1. data \in Seq(ItemType) /\ N \in Nat /\ DOMAIN data = 1 .. N
  BY DEF ListOK
<1>2. CanvasQueueItems(q, discarded) = L
  BY DEF CanvasQueueItems
<1>3. \A n \in 1 .. N : data[n] \in ItemType
  BY <1>1
<1>4. \A n \in 1 .. N : s[n] = IF Keeps(n) THEN <<data[n]>> ELSE <<>>
  BY <1>1
<1>5. s \in [1 .. N -> Seq(ItemType)] /\ \A n \in 1 .. N : Len(s[n]) <= 1
  <2>1. \A n \in 1 .. N : s[n] \in Seq(ItemType) /\ Len(s[n]) <= 1
    <3> HIDE DEF s, Keeps, data, N, L
    <3>1. ASSUME NEW n \in 1 .. N PROVE s[n] \in Seq(ItemType) /\ Len(s[n]) <= 1
      <4>1. s[n] = <<data[n]>> \/ s[n] = <<>>
        BY <1>4
      <4>2. <<data[n]>> \in Seq(ItemType) /\ Len(<<data[n]>>) = 1
        BY <1>3, OneOrNone
      <4>3. <<>> \in Seq(ItemType) /\ Len(<<>>) = 0
        OBVIOUS
      <4>4. s[n] \in Seq(ItemType) /\ Len(s[n]) \in {0, 1}
        BY <4>1, <4>2, <4>3, Zenon
      <4>5. \A v \in {0, 1} : v <= 1
        OBVIOUS
      <4>6. QED BY <4>4, <4>5, Zenon
    <3>2. QED BY <3>1
  <2>2. QED BY <1>1, <2>1
<1> HIDE DEF s, data, N
<1>6. L \in Seq(ItemType) /\ OneEach(L, s, N)
  BY <1>1, <1>5, Picked
<1> HIDE DEF L
<1>7. PICK p \in [DOMAIN L -> 1 .. N] :
        /\ \A j \in DOMAIN L : s[p[j]] # <<>> /\ L[j] = s[p[j]][1]
        /\ \A j, k \in DOMAIN L : p[j] = p[k] => j = k
        /\ \A n \in 1 .. N : s[n] # <<>> => \E j \in DOMAIN L : p[j] = n
  BY <1>6 DEF OneEach
<1>8. \A j \in DOMAIN L : Keeps(p[j]) /\ L[j] = data[p[j]] /\ p[j] \in DOMAIN data
  <2> HIDE DEF Keeps
  <2>1. ASSUME NEW j \in DOMAIN L PROVE Keeps(p[j]) /\ L[j] = data[p[j]] /\ p[j] \in DOMAIN data
    <3>1. p[j] \in 1 .. N /\ s[p[j]] # <<>> /\ L[j] = s[p[j]][1]
      BY <1>7
    <3>2. Keeps(p[j]) /\ s[p[j]] = <<data[p[j]]>>
      BY <1>4, <3>1
    <3>3. QED BY <1>1, <1>3, <3>1, <3>2, OneOrNone
  <2>2. QED BY <2>1
<1>9. ListOK(data)
  BY DEF data
<1>10. ListOK(L)
  BY <1>6, <1>7, <1>8, <1>9 DEF ListOK
<1>11. ShowableOK(L)
  BY <1>8, <1>10 DEF ShowableOK
<1>12. Ids(L) \subseteq Ids(data) \ discarded
  BY <1>8, IdsAre
<1>13. QED BY <1>2, <1>11, <1>12 DEF data

LEMMA NormalizedOK ==
    ASSUME NEW a, ShowableOK(a.items), NEW list, ShowableOK(list)
    PROVE  LET next == Normalized(a, list)
           IN  /\ ShowableOK(next)
               /\ Ids(next) \subseteq Ids(list)
               /\ Ids(list) \cap Ids(a.items) \subseteq Ids(next)
               /\ \A n \in DOMAIN next : \/ shouldAcceptQueueItem(a, next[n])
                                         \/ \E m \in DOMAIN a.items : next[n] = a.items[m]
<1> DEFINE N == Len(list)
           Shown(n) == ItemIn(a.items, list[n].id)
           Takes(n) == shouldAcceptQueueItem(a, list[n])
           s == [n \in DOMAIN list |-> IF Takes(n) THEN <<list[n]>>
                                       ELSE IF list[n].id \in Ids(a.items) THEN <<Shown(n)>> ELSE <<>>]
           L == FlattenSeq(s)
<1>1. list \in Seq(ItemType) /\ N \in Nat /\ DOMAIN list = 1 .. N /\ a.items \in Seq(ItemType)
  BY DEF ShowableOK, ListOK
<1>2. Normalized(a, list) = L
  BY DEF Normalized
<1>3. \A n \in 1 .. N : list[n] \in ItemType
  BY <1>1
<1>4. \A n \in 1 .. N : list[n].id \in Ids(a.items) =>
         /\ Shown(n) \in ItemType /\ Shown(n).id = list[n].id
         /\ \E m \in DOMAIN a.items : Shown(n) = a.items[m]
  BY <1>1, SomeItemIn, IdsOfItems
<1>5. \A n \in 1 .. N : s[n] = IF Takes(n) THEN <<list[n]>>
                               ELSE IF list[n].id \in Ids(a.items) THEN <<Shown(n)>> ELSE <<>>
  BY <1>1
<1>6. ASSUME NEW n \in 1 .. N PROVE s[n] \in Seq(ItemType) /\ Len(s[n]) \in {0, 1}
  <2> HIDE DEF s, Takes, Shown, N, L
  <2>1. \/ s[n] = <<list[n]>>
        \/ list[n].id \in Ids(a.items) /\ s[n] = <<Shown(n)>>
        \/ s[n] = <<>>
    BY <1>5
  <2>2. <<list[n]>> \in Seq(ItemType) /\ Len(<<list[n]>>) = 1
    BY <1>3, OneOrNone
  <2>3. list[n].id \in Ids(a.items) => <<Shown(n)>> \in Seq(ItemType) /\ Len(<<Shown(n)>>) = 1
    BY <1>4, OneOrNone
  <2>4. <<>> \in Seq(ItemType) /\ Len(<<>>) = 0
    OBVIOUS
  <2>5. QED BY <2>1, <2>2, <2>3, <2>4, Zenon
<1>7. s \in [1 .. N -> Seq(ItemType)] /\ \A n \in 1 .. N : Len(s[n]) <= 1
  <2>1. DOMAIN s = 1 .. N /\ s = [n \in 1 .. N |-> s[n]]
    BY <1>1
  <2> HIDE DEF s, N, L
  <2>2. \A v \in {0, 1} : v <= 1
    OBVIOUS
  <2>3. \A n \in 1 .. N : Len(s[n]) <= 1
    BY <1>6, <2>2, Zenon
  <2>4. \A n \in 1 .. N : s[n] \in Seq(ItemType)
    BY <1>6
  <2>5. s \in [1 .. N -> Seq(ItemType)]
    BY <2>1, <2>4, Zenon
  <2>6. QED BY <2>3, <2>5
<1> HIDE DEF s, N
<1>8. L \in Seq(ItemType) /\ OneEach(L, s, N)
  BY <1>1, <1>7, Picked
<1> HIDE DEF L
<1>9. PICK p \in [DOMAIN L -> 1 .. N] :
        /\ \A j \in DOMAIN L : s[p[j]] # <<>> /\ L[j] = s[p[j]][1]
        /\ \A j, k \in DOMAIN L : p[j] = p[k] => j = k
        /\ \A n \in 1 .. N : s[n] # <<>> => \E j \in DOMAIN L : p[j] = n
  BY <1>8 DEF OneEach
<1>10. ASSUME NEW j \in DOMAIN L
       PROVE  /\ p[j] \in DOMAIN list /\ L[j].id = list[p[j]].id
              /\ \/ Takes(p[j]) /\ L[j] = list[p[j]]
                 \/ \E m \in DOMAIN a.items : L[j] = a.items[m]
  <2> HIDE DEF Takes, Shown
  <2>1. p[j] \in 1 .. N /\ s[p[j]] # <<>> /\ L[j] = s[p[j]][1]
    BY <1>9
  <2>2. CASE Takes(p[j])
    <3>1. s[p[j]] = <<list[p[j]]>> /\ list[p[j]] \in ItemType
      BY <1>3, <1>5, <2>1, <2>2
    <3>2. L[j] = list[p[j]]
      BY <2>1, <3>1, OneOrNone
    <3>3. QED BY <1>1, <2>1, <2>2, <3>2
  <2>3. CASE ~Takes(p[j])
    <3>1. list[p[j]].id \in Ids(a.items) /\ s[p[j]] = <<Shown(p[j])>>
      BY <1>5, <2>1, <2>3
    <3>2. L[j] = Shown(p[j])
      BY <1>4, <2>1, <3>1, OneOrNone
    <3>3. QED BY <1>1, <1>4, <2>1, <3>1, <3>2
  <2>4. QED BY <2>2, <2>3
<1>11. ShowableOK(L)
  <2>1. \A j \in DOMAIN L : \/ \E m \in DOMAIN list : L[j] = list[m]
                            \/ \E m \in DOMAIN a.items : L[j] = a.items[m]
    BY <1>10
  <2>2. \A j \in DOMAIN L : Dated(L[j].status, L[j].seq) /\ L[j].status \notin {"canceled", "failed"}
    BY <2>1 DEF ShowableOK, ListOK
  <2>3. \A j, k \in DOMAIN L : L[j].id = L[k].id => j = k
    BY <1>9, <1>10 DEF ShowableOK, ListOK
  <2>4. QED BY <1>8, <2>2, <2>3 DEF ShowableOK, ListOK
<1>12. Ids(L) \subseteq Ids(list)
  BY <1>10, IdsAre
<1>13. ASSUME NEW i \in Ids(list), i \in Ids(a.items) PROVE i \in Ids(L)
  <2>1. PICK n \in 1 .. N : list[n].id = i
    BY <1>1, IdsAre
  <2>2. s[n] # <<>>
    <3> HIDE DEF Takes, Shown
    <3>1. s[n] = <<list[n]>> \/ s[n] = <<Shown(n)>>
      BY <1>5, <1>13, <2>1
    <3>2. list[n] \in ItemType /\ Shown(n) \in ItemType
      BY <1>3, <1>4, <1>13, <2>1
    <3>3. <<list[n]>> # <<>> /\ <<Shown(n)>> # <<>>
      BY <3>2, OneOrNone
    <3>4. QED BY <3>1, <3>3
  <2>3. PICK j \in DOMAIN L : p[j] = n
    BY <1>9, <2>2
  <2>4. QED BY <1>10, <2>1, <2>3, IdsAre
<1>14. \A n \in DOMAIN L : \/ shouldAcceptQueueItem(a, L[n])
                           \/ \E m \in DOMAIN a.items : L[n] = a.items[m]
  BY <1>10
<1>15. QED BY <1>2, <1>11, <1>12, <1>13, <1>14

LEMMA RankIs == \A s \in Status : Rank(s) = IF s = "pending" THEN 0 ELSE IF s = "in_progress" THEN 1 ELSE 2
BY DEF Rank, Status, Terminal

LEMMA AcceptedIsNewer ==
    ASSUME NEW a \in AreaType, NEW x \in ItemType, NEW y \in ItemType, x.id = y.id,
           Dated(x.status, x.seq), Dated(y.status, y.seq),
           Remembers(a, x), shouldAcceptQueueItem(a, y)
    PROVE  Newer(y, x)
<1>1. /\ x.status \in Status /\ y.status \in Status /\ x.seq \in Int /\ y.seq \in Int /\ x.id \in Items
      /\ a.seqs[x.id] \in Int /\ a.ranks[x.id] \in Int
  BY DEF ItemType, AreaType
<1>2. Rank(x.status) \in 0 .. 2 /\ Rank(y.status) \in 0 .. 2
  BY <1>1, RankIs
<1>3. a.seqs[x.id] >= x.seq /\ a.ranks[x.id] >= Rank(x.status)
  BY DEF Remembers
<1>4. CASE Sequenced
  <2>1. \/ y.seq > a.seqs[x.id]
        \/ y.seq = a.seqs[x.id] /\ Rank(y.status) >= a.ranks[x.id]
    <3>1. y.seq # Undefined
      BY <1>2, <1>4 DEF Dated, Undefined
    <3>2. QED BY <3>1 DEF shouldAcceptQueueItem
  <2>2. /\ \/ Rank(x.status) = 0 /\ x.seq = 0
           \/ Rank(x.status) = 1 /\ x.seq = 1
           \/ Rank(x.status) = 2 /\ x.seq \in {1, 2}
        /\ \/ Rank(y.status) = 0 /\ y.seq = 0
           \/ Rank(y.status) = 1 /\ y.seq = 1
           \/ Rank(y.status) = 2 /\ y.seq \in {1, 2}
    BY <1>4 DEF Dated
  <2>3. QED BY <1>1, <1>2, <1>3, <2>1, <2>2 DEF Newer
<1>5. CASE ~Sequenced
  <2>1. x.seq = Undefined /\ y.seq = Undefined
    BY <1>5 DEF Dated
  <2>2. Rank(y.status) >= a.ranks[x.id]
    BY <2>1 DEF shouldAcceptQueueItem
  <2>3. QED BY <1>1, <1>2, <1>3, <2>1, <2>2 DEF Newer, Undefined
<1>6. QED BY <1>4, <1>5

-------------------------------------------------------------------------------
(* What the operations of the api leave as it is.                          *)

\* b differs from a in the selection at most, and in what is to be selected.
Alike(a, b) ==
    /\ b \in AreaType
    /\ b.items = a.items /\ b.dtos = a.dtos /\ b.seqs = a.seqs /\ b.ranks = a.ranks
    /\ b.calls = a.calls /\ b.forgotten = a.forgotten

LEMMA AlikeKeeps ==
    ASSUME NEW a, NEW b, Alike(a, b), NEW own
    PROVE  /\ BaseOK(a, own) => BaseOK(b, own)
           /\ Newest(b) = Newest(a)
           /\ \A x \in ItemType : AwaitsImages(b, x) <=> AwaitsImages(a, x)
           /\ \A x \in ItemType : Remembers(b, x) <=> Remembers(a, x)
<1>1. BaseOK(a, own) => BaseOK(b, own)
  BY DEF Alike, BaseOK, ShownOK, Remembers
<1>2. QED BY <1>1 DEF Alike, Newest, AwaitsImages, Remembers

LEMMA SelectingIs ==
    ASSUME NEW a \in AreaType, NEW i \in Items \cup {None}, NEW n \in Nat
    PROVE  /\ Alike(a, Selecting(a, i, n))
           /\ Selecting(a, i, n).selected = i /\ Selecting(a, i, n).lost = a.lost
           /\ Selecting(a, i, n).lastStarted = a.lastStarted
           /\ Selecting(a, i, n).lastCompleted = a.lastCompleted
BY DEF Alike, Selecting, AreaType

LEMMA PassingIs ==
    ASSUME NEW a \in AreaType, NEW xs \in SUBSET ItemType, NEW mode,
           \A x \in xs : x.status \notin {"canceled", "failed"}
    PROVE  /\ Alike(a, Passing(a, xs, mode)) /\ Passing(a, xs, mode).lost = a.lost
           /\ \/ Passing(a, xs, mode).selected = a.selected
              \/ /\ mode = "switch_on_start" /\ \E x \in xs : x.id = a.lastStarted
                 /\ Passing(a, xs, mode).selected = a.lastStarted
<1> DEFINE begun == {x \in xs : x.status = "in_progress" /\ x.id = a.lastStarted}
           ended == {x.id : x \in {y \in xs : y.status \in {"canceled", "failed"}}}
           b == [a EXCEPT !.dtos = [i \in Items |-> IF i \in ended THEN 0 ELSE @[i]]]
<1>1. ended = {}
  OBVIOUS
<1>2. [i \in Items |-> IF i \in ended THEN 0 ELSE a.dtos[i]] = a.dtos
  BY <1>1 DEF AreaType
<1>3. b \in AreaType /\ Alike(a, b) /\ b.lost = a.lost /\ b.selected = a.selected /\ b.lastStarted = a.lastStarted
  <2> HIDE DEF ended
  <2> QED BY <1>2 DEF AreaType, Alike
<1>4. CASE begun # {} /\ mode = "switch_on_start"
  <2>1. PICK x \in xs : x.id = a.lastStarted
    BY <1>4
  <2>2. a.lastStarted \in Items \cup {None}
    BY DEF AreaType
  <2> DEFINE c == Selecting(b, a.lastStarted, 0)
             d == [c EXCEPT !.lastStarted = None]
  <2>3. Passing(a, xs, mode) = d
    BY <1>4 DEF Passing
  <2>4. Alike(b, c) /\ c.selected = a.lastStarted /\ c.lost = b.lost
    <3> HIDE DEF b
    <3> QED BY <1>3, <2>2, SelectingIs
  <2> HIDE DEF b, c
  <2>5. d \in AreaType /\ Alike(c, d) /\ d.lost = c.lost /\ d.selected = c.selected
    <3>1. c \in AreaType
      BY <2>4 DEF Alike
    <3>2. QED BY <3>1 DEF AreaType, Alike, None
  <2> HIDE DEF d
  <2>6. Alike(a, d) /\ d.lost = a.lost /\ d.selected = a.lastStarted
    BY <1>3, <2>4, <2>5 DEF Alike
  <2>7. QED BY <1>4, <2>1, <2>3, <2>6
<1>5. CASE ~(begun # {} /\ mode = "switch_on_start")
  <2>1. Passing(a, xs, mode) = b
    BY <1>5 DEF Passing
  <2> HIDE DEF b
  <2>2. QED BY <1>3, <2>1
<1>6. QED BY <1>4, <1>5

LEMMA ReselectIs ==
    ASSUME NEW a \in AreaType, NEW c \in CallType
    PROVE  /\ Alike(a, Reselect(a, c))
           /\ a.selected \in Ids(c.list) => Reselect(a, c) = a
           /\ Reselect(a, c).selected = a.selected \/ a.selected \notin Ids(c.list)
           /\ ~Reselect(a, c).lost /\ c.list # <<>> /\ a.selected # None
                => Reselect(a, c).selected \in Ids(c.list)
<1> DEFINE k == IndexIn(c.old, a.selected)
           places == {n \in {k, k - 1} : n \in DOMAIN c.list}
<1>1. /\ c.list \in Seq(ItemType) /\ c.old \in Seq(ItemType) /\ DOMAIN c.list = 1 .. Len(c.list)
      /\ Len(c.list) \in Nat /\ Alike(a, a)
  BY DEF CallType, Alike
<1>2. k \in Nat
  BY <1>1, IndexInIs
<1> HIDE DEF k
<1>3. CASE a.selected = None \/ a.selected \in Ids(c.list)
  <2>1. Reselect(a, c) = a
    BY <1>3 DEF Reselect
  <2>2. QED BY <1>1, <1>3, <2>1
<1>4. CASE ~(a.selected = None \/ a.selected \in Ids(c.list)) /\ k # 0 /\ places = {}
  <2>1. Reselect(a, c) = [a EXCEPT !.lost = TRUE]
    BY <1>4 DEF Reselect, k
  <2>2. Alike(a, [a EXCEPT !.lost = TRUE]) /\ [a EXCEPT !.lost = TRUE].lost = TRUE
    BY DEF Alike, AreaType
  <2>3. QED BY <1>4, <2>1, <2>2
<1>5. CASE ~(a.selected = None \/ a.selected \in Ids(c.list)) /\ k # 0 /\ places # {}
  <2>1. Reselect(a, c) = Selecting(a, c.list[Max(places)].id, 0)
    BY <1>5 DEF Reselect, k
  <2>2. Max(places) \in places
    <3>1. \E m \in places : \A n \in places : m >= n
      BY <1>2, <1>5
    <3> HIDE DEF places
    <3>2. QED BY <3>1 DEF Max
  <2>3. c.list[Max(places)].id \in Ids(c.list) /\ c.list[Max(places)].id \in Items
    BY <1>1, <2>2, IdsOfItems
  <2> HIDE DEF places
  <2>4. QED BY <1>5, <2>1, <2>3, SelectingIs
<1>6. CASE ~(a.selected = None \/ a.selected \in Ids(c.list)) /\ k = 0
  <2> DEFINE i == IF c.list = <<>> THEN None ELSE c.list[1].id
  <2>1. Reselect(a, c) = Selecting(a, i, 0)
    BY <1>6 DEF Reselect, k
  <2>2. c.list # <<>> => 1 \in DOMAIN c.list
    BY <1>1
  <2>3. i \in Items \cup {None} /\ (c.list # <<>> => i \in Ids(c.list))
    BY <1>1, <2>2, IdsOfItems
  <2> HIDE DEF i
  <2>4. Alike(a, Selecting(a, i, 0)) /\ Selecting(a, i, 0).selected = i
    BY <2>3, SelectingIs
  <2>5. QED BY <1>6, <2>1, <2>3, <2>4
<1>7. QED BY <1>3, <1>4, <1>5, <1>6

-------------------------------------------------------------------------------
(* The loop of a call.                                                     *)

\* What the newest call, c, is to show is fit to be shown.
Going(a, c, own, disc) ==
    /\ Ids(c.list) \subseteq own \ disc
    /\ c.list # <<>> => a.selected # None
    /\ \A n \in DOMAIN c.list : Remembers(a, c.list[n])
    /\ \A m \in DOMAIN a.items, n \in DOMAIN c.list :
          a.items[m].id = c.list[n].id /\ a.items[m].id \notin a.forgotten
              => Newer(c.list[n], a.items[m])

\* What the loop comes to: it waits at an item with images, or is over.
Stops(a, c, n, mode) ==
    LET b == Looping(a, c, n, mode)
    IN  \E d \in AreaType :
          /\ Alike(a, d) /\ d.lost = a.lost
          /\ \/ d.selected = a.selected
             \/ /\ mode = "switch_on_start" /\ a.lastStarted \in Ids(c.list)
                /\ d.selected = a.lastStarted
          /\ \/ \E k \in n .. Len(c.list) :
                  /\ \A m \in n .. k - 1 : ~AwaitsImages(a, c.list[m])
                  /\ b = [d EXCEPT !.calls = @ \cup {[c EXCEPT !.at = k]}]
             \/ /\ \A m \in n .. Len(c.list) : ~AwaitsImages(a, c.list[m])
                /\ b = Finishing(d, c)

LEMMA LoopingStops ==
    ASSUME NEW a \in AreaType, NEW c \in CallType, ShowableOK(c.list), NEW n \in Nat \ {0}, NEW mode
    PROVE  Stops(a, c, n, mode)
<1> DEFINE list == c.list
           awaits == {m \in n .. Len(list) : AwaitsImages(a, list[m])}
           upto == IF awaits = {} THEN Len(list) ELSE Min(awaits) - 1
           xs == {list[m] : m \in n .. upto}
           d == Passing(a, xs, mode)
<1>1. /\ list \in Seq(ItemType) /\ Len(list) \in Nat /\ DOMAIN list = 1 .. Len(list)
      /\ \A m \in DOMAIN list : list[m].status \notin {"canceled", "failed"}
  BY DEF CallType, ShowableOK
<1>2. awaits # {} => Min(awaits) \in awaits /\ \A m \in awaits : Min(awaits) <= m
  <2>1. awaits \in SUBSET Nat
    BY <1>1
  <2> HIDE DEF awaits
  <2>2. QED BY <2>1, MinIs
<1>3. upto \in Int /\ upto <= Len(list) /\ \A m \in n .. upto : m \in DOMAIN list /\ ~AwaitsImages(a, list[m])
  <2>1. CASE awaits = {}
    BY <1>1, <2>1
  <2>2. CASE awaits # {}
    <3>1. upto = Min(awaits) - 1 /\ Min(awaits) \in n .. Len(list)
      BY <1>2, <2>2
    <3>2. \A m \in n .. upto : m \in n .. Len(list) /\ ~(Min(awaits) <= m)
      BY <1>1, <3>1
    <3>3. \A m \in n .. upto : m \notin awaits
      BY <1>2, <2>2, <3>2
    <3>4. QED BY <1>1, <3>1, <3>2, <3>3
  <2>3. QED BY <2>1, <2>2
<1> HIDE DEF upto
<1>4. /\ xs \in SUBSET ItemType /\ \A x \in xs : x.status \notin {"canceled", "failed"}
      /\ \A x \in xs : x.id \in Ids(list)
  <2>1. \A x \in xs : \E m \in DOMAIN list : x = list[m]
    BY <1>3
  <2> HIDE DEF xs
  <2>2. QED BY <1>1, <2>1, IdsOfItems
<1> HIDE DEF xs
<1>5. /\ d \in AreaType /\ Alike(a, d) /\ d.lost = a.lost
      /\ \/ d.selected = a.selected
         \/ mode = "switch_on_start" /\ a.lastStarted \in Ids(list) /\ d.selected = a.lastStarted
  <2>1. /\ Alike(a, d) /\ d.lost = a.lost
        /\ \/ d.selected = a.selected
           \/ /\ mode = "switch_on_start" /\ \E x \in xs : x.id = a.lastStarted
              /\ d.selected = a.lastStarted
    BY <1>4, PassingIs
  <2> HIDE DEF d
  <2>2. QED BY <1>4, <2>1 DEF Alike
<1>6. Looping(a, c, n, mode) = IF awaits = {} THEN Finishing(d, c)
                               ELSE [d EXCEPT !.calls = @ \cup {[c EXCEPT !.at = upto + 1]}]
  BY DEF Looping, upto, xs
<1> HIDE DEF d
<1>7. CASE awaits = {}
  <2>1. \A m \in n .. Len(list) : ~AwaitsImages(a, list[m])
    BY <1>7
  <2> HIDE DEF awaits
  <2>2. QED BY <1>5, <1>6, <1>7, <2>1 DEF Stops
<1>8. CASE awaits # {}
  <2>1. upto + 1 \in n .. Len(list) /\ (upto + 1) - 1 = upto
    <3>1. Min(awaits) \in n .. Len(list) /\ upto = Min(awaits) - 1
      BY <1>2, <1>8 DEF upto
    <3> HIDE DEF awaits
    <3>2. QED BY <1>1, <3>1
  <2> HIDE DEF awaits
  <2>2. PICK k \in n .. Len(list) : k = upto + 1 /\ k - 1 = upto
    BY <2>1
  <2>3. \A m \in n .. k - 1 : ~AwaitsImages(a, list[m])
    BY <1>3, <2>2
  <2>4. Looping(a, c, n, mode) = [d EXCEPT !.calls = @ \cup {[c EXCEPT !.at = k]}]
    BY <1>6, <1>8, <2>2
  <2>5. QED BY <1>5, <2>3, <2>4 DEF Stops
<1>9. QED BY <1>7, <1>8

\* Nothing that is on show changes.
SameShown(a, b) ==
    /\ b.items = a.items /\ b.dtos = a.dtos /\ b.seqs = a.seqs /\ b.ranks = a.ranks
    /\ b.forgotten = a.forgotten /\ b.lost = a.lost
    /\ a.selected # None => b.selected # None

\* A call one further on.
LEMMA CallAt ==
    ASSUME NEW c \in CallType, NEW k \in Nat
    PROVE  LET e == [c EXCEPT !.at = k]
           IN  e \in CallType /\ e.list = c.list /\ e.at = k /\ e.stale = c.stale
BY DEF CallType

LEMMA WithCall ==
    ASSUME NEW a \in AreaType, NEW e \in CallType
    PROVE  LET b == [a EXCEPT !.calls = @ \cup {e}]
           IN  /\ b \in AreaType /\ b.calls = a.calls \cup {e}
               /\ SameShown(a, b) /\ b.selected = a.selected
BY DEF AreaType, SameShown

LEMMA IdsAreIds == None \notin Items /\ Undefined = -1
BY StagingAssumption DEF StagingAssumption, None, Undefined

LEMMA StaleLoops ==
    ASSUME NEW a, NEW own, BaseOK(a, own), NEW c \in CallType, ShowableOK(c.list), c.stale,
           NEW n \in Nat \ {0}, NEW mode
    PROVE  LET b == Looping(a, c, n, mode)
           IN  BaseOK(b, own) /\ SameShown(a, b) /\ Newest(b) = Newest(a)
<1> DEFINE b == Looping(a, c, n, mode)
<1>1. a \in AreaType
  BY DEF BaseOK
<1>2. PICK d \in AreaType :
        /\ Alike(a, d) /\ d.lost = a.lost
        /\ \/ d.selected = a.selected
           \/ /\ mode = "switch_on_start" /\ a.lastStarted \in Ids(c.list)
              /\ d.selected = a.lastStarted
        /\ \/ \E k \in n .. Len(c.list) :
                /\ \A m \in n .. k - 1 : ~AwaitsImages(a, c.list[m])
                /\ b = [d EXCEPT !.calls = @ \cup {[c EXCEPT !.at = k]}]
           \/ /\ \A m \in n .. Len(c.list) : ~AwaitsImages(a, c.list[m])
              /\ b = Finishing(d, c)
  BY <1>1, LoopingStops DEF Stops
<1> HIDE DEF b
<1>3. c.list \in Seq(ItemType) /\ Ids(c.list) \subseteq Items /\ DOMAIN c.list = 1 .. Len(c.list)
  BY IdsOfItems DEF CallType
<1>4. BaseOK(d, own) /\ SameShown(a, d) /\ Newest(d) = Newest(a)
  BY <1>2, <1>3, AlikeKeeps, IdsAreIds DEF SameShown, Alike
<1>5. CASE b = Finishing(d, c)
  <2>1. b = d
    BY <1>5 DEF Finishing
  <2>2. QED BY <1>4, <2>1 DEF b
<1>6. ASSUME NEW k \in n .. Len(c.list), b = [d EXCEPT !.calls = @ \cup {[c EXCEPT !.at = k]}]
      PROVE  BaseOK(b, own) /\ SameShown(a, b) /\ Newest(b) = Newest(a)
  <2> DEFINE e == [c EXCEPT !.at = k]
  <2>1. k \in Nat /\ k \in DOMAIN c.list
    BY <1>3
  <2>2. e \in CallType /\ e.list = c.list /\ e.at = k /\ e.stale
    BY <2>1, CallAt
  <2> HIDE DEF e
  <2>3. b \in AreaType /\ b.calls = d.calls \cup {e} /\ SameShown(d, b)
    BY <1>6, <2>2, WithCall DEF e
  <2>4. Newest(b) = Newest(d)
    BY <2>2, <2>3 DEF Newest
  <2>5. \A q \in b.calls : ShowableOK(q.list) /\ q.at \in DOMAIN q.list
    BY <1>4, <2>1, <2>2, <2>3 DEF BaseOK
  <2>6. BaseOK(b, own)
    BY <1>4, <2>3, <2>5 DEF BaseOK, ShownOK, SameShown, Remembers
  <2>7. SameShown(a, b)
    BY <1>4, <2>3 DEF SameShown
  <2>8. QED BY <1>4, <2>4, <2>6, <2>7
<1>7. QED BY <1>2, <1>5, <1>6 DEF b

LEMMA NewestLoops ==
    ASSUME NEW a, NEW own, NEW disc, NEW miss, BaseOK(a, own), Newest(a) = {},
           NEW c \in CallType, ShowableOK(c.list), ~c.stale, Going(a, c, own, disc),
           NEW n \in Nat \ {0}, \A m \in 1 .. n - 1 : HasImages(a, c.list[m], miss), NEW mode
    PROVE  LET b == Looping(a, c, n, mode)
           IN  /\ AreaOK(b, own, disc, miss)
               /\ \/ b.items = a.items /\ b.forgotten = a.forgotten
                  \/ b.items = c.list /\ b.forgotten = {}
<1> DEFINE b == Looping(a, c, n, mode)
<1>1. a \in AreaType
  BY DEF BaseOK
<1>2. PICK d \in AreaType :
        /\ Alike(a, d) /\ d.lost = a.lost
        /\ \/ d.selected = a.selected
           \/ /\ mode = "switch_on_start" /\ a.lastStarted \in Ids(c.list)
              /\ d.selected = a.lastStarted
        /\ \/ \E k \in n .. Len(c.list) :
                /\ \A m \in n .. k - 1 : ~AwaitsImages(a, c.list[m])
                /\ b = [d EXCEPT !.calls = @ \cup {[c EXCEPT !.at = k]}]
           \/ /\ \A m \in n .. Len(c.list) : ~AwaitsImages(a, c.list[m])
              /\ b = Finishing(d, c)
  BY <1>1, LoopingStops DEF Stops
<1> HIDE DEF b
<1>3. /\ c.list \in Seq(ItemType) /\ Ids(c.list) \subseteq Items /\ DOMAIN c.list = 1 .. Len(c.list)
      /\ Len(c.list) \in Nat /\ \A m \in DOMAIN c.list : c.list[m] \in ItemType
  BY IdsOfItems DEF CallType
<1>4. /\ BaseOK(d, own) /\ Newest(d) = {}
      /\ \A x \in ItemType : AwaitsImages(d, x) <=> AwaitsImages(a, x)
      /\ \A x \in ItemType : Remembers(d, x) <=> Remembers(a, x)
  BY <1>2, AlikeKeeps
<1>5. c.list # <<>> => d.selected # None
  BY <1>2, <1>3, IdsAreIds DEF Going
<1>6. CASE /\ \A m \in n .. Len(c.list) : ~AwaitsImages(a, c.list[m])
           /\ b = Finishing(d, c)
  <2> DEFINE r == Reselect(d, c)
  <2>1. Alike(d, r) /\ (~r.lost /\ c.list # <<>> /\ d.selected # None => r.selected \in Ids(c.list))
    BY ReselectIs
  <2> HIDE DEF r
  <2>2. BaseOK(r, own) /\ Newest(r) = {} /\ r \in AreaType
    BY <1>4, <2>1, AlikeKeeps DEF Alike
  <2>3. b = [r EXCEPT !.items = c.list, !.forgotten = {}]
    BY <1>6 DEF Finishing, r
  <2>4. /\ b \in AreaType /\ b.items = c.list /\ b.forgotten = {} /\ b.calls = r.calls
        /\ b.dtos = r.dtos /\ b.selected = r.selected /\ b.lost = r.lost
        /\ b.seqs = r.seqs /\ b.ranks = r.ranks
    BY <1>3, <2>2, <2>3 DEF AreaType
  <2>5. Newest(b) = {}
    BY <2>2, <2>4 DEF Newest
  <2>6. /\ b.seqs = a.seqs /\ b.ranks = a.ranks /\ b.dtos = a.dtos
    BY <1>2, <2>1, <2>4 DEF Alike
  <2>7. ShownOK(b, own)
    BY <2>4, <2>6 DEF ShownOK, Going, Remembers
  <2>8. BaseOK(b, own)
    BY <2>2, <2>4, <2>7 DEF BaseOK
  <2>9. \A m \in DOMAIN b.items : HasImages(b, b.items[m], miss)
    <3>1. \A m \in DOMAIN c.list : m \in 1 .. n - 1 \/ m \in n .. Len(c.list)
      BY <1>3
    <3>2. \A m \in DOMAIN c.list : HasImages(a, c.list[m], miss)
      BY <1>6, <3>1 DEF HasImages
    <3>3. QED BY <2>4, <2>6, <3>2 DEF HasImages, AwaitsImages
  <2>10. ~b.lost /\ b.items # <<>> => b.selected \in Ids(b.items)
    BY <1>5, <2>1, <2>4
  <2>11. AreaOK(b, own, disc, miss)
    <3>1. RestOK(b, miss)
      BY <2>9, <2>10 DEF RestOK
    <3>2. QED BY <2>5, <2>8, <3>1 DEF AreaOK
  <2>12. QED BY <2>4, <2>11 DEF b
<1>7. ASSUME NEW k \in n .. Len(c.list), \A m \in n .. k - 1 : ~AwaitsImages(a, c.list[m]),
             b = [d EXCEPT !.calls = @ \cup {[c EXCEPT !.at = k]}]
      PROVE  AreaOK(b, own, disc, miss) /\ b.items = a.items /\ b.forgotten = a.forgotten
  <2> DEFINE e == [c EXCEPT !.at = k]
  <2>1. k \in Nat /\ k \in DOMAIN c.list
    BY <1>3
  <2>2. e \in CallType /\ e.list = c.list /\ e.at = k /\ e.stale = c.stale
    BY <2>1, CallAt
  <2> HIDE DEF e
  <2>3. b \in AreaType /\ b.calls = d.calls \cup {e} /\ SameShown(d, b) /\ b.selected = d.selected
    BY <1>7, <2>2, WithCall DEF e
  <2>4. Newest(b) = {e}
    BY <1>4, <2>2, <2>3 DEF Newest
  <2>5. \A q \in b.calls : ShowableOK(q.list) /\ q.at \in DOMAIN q.list
    BY <1>4, <2>1, <2>2, <2>3 DEF BaseOK
  <2>6. BaseOK(b, own)
    BY <1>4, <2>3, <2>5 DEF BaseOK, ShownOK, SameShown, Remembers
  <2>7. /\ b.items = a.items /\ b.forgotten = a.forgotten /\ b.dtos = a.dtos
        /\ b.seqs = a.seqs /\ b.ranks = a.ranks
    BY <1>2, <2>3 DEF SameShown, Alike
  <2>8. NewestOK(b, e, own, disc, miss)
    <3>1. b.selected # None
      BY <1>3, <1>5, <2>1, <2>3
    <3>2. \A m \in DOMAIN e.list : Remembers(b, e.list[m])
      BY <2>2, <2>7 DEF Going, Remembers
    <3>3. \A m \in 1 .. k - 1 : m \in 1 .. n - 1 \/ m \in n .. k - 1
      OBVIOUS
    <3>4. \A m \in 1 .. k - 1 : HasImages(a, c.list[m], miss)
      BY <1>7, <3>3 DEF HasImages
    <3>5. \A m \in 1 .. e.at - 1 : HasImages(b, e.list[m], miss)
      BY <2>2, <2>7, <3>4 DEF HasImages, AwaitsImages
    <3>6. QED BY <2>2, <2>7, <3>1, <3>2, <3>5 DEF NewestOK, Going
  <2>9. QED BY <2>4, <2>6, <2>7, <2>8 DEF AreaOK
<1>8. QED BY <1>2, <1>6, <1>7 DEF b

-------------------------------------------------------------------------------
(* onItemsChangedEvent.                                                    *)

LEMMA RecordIs ==
    ASSUME NEW a \in AreaType, NEW x, x.id \in Items, x.seq \in Int, x.status \in Status
    PROVE  LET b == recordSeenItemOrdering(a, x)
           IN  /\ b \in AreaType
               /\ b.items = a.items /\ b.dtos = a.dtos /\ b.selected = a.selected /\ b.calls = a.calls
               /\ b.lastStarted = a.lastStarted /\ b.lastCompleted = a.lastCompleted
               /\ b.forgotten = a.forgotten /\ b.lost = a.lost
               /\ \A i \in Items : b.seqs[i] >= a.seqs[i] /\ b.ranks[i] >= a.ranks[i]
               /\ b.seqs[x.id] >= x.seq /\ b.ranks[x.id] >= Rank(x.status)
<1> DEFINE b == recordSeenItemOrdering(a, x)
           seq == Max({a.seqs[x.id], x.seq})
           rank == Max({a.ranks[x.id], Rank(x.status)})
<1>1. a.seqs \in [Items -> Int] /\ a.ranks \in [Items -> Int] /\ Rank(x.status) \in Int
  BY RankIs DEF AreaType
<1>2. seq \in Int /\ seq >= a.seqs[x.id] /\ seq >= x.seq
  BY <1>1, MaxOfTwo
<1>3. rank \in Int /\ rank >= a.ranks[x.id] /\ rank >= Rank(x.status)
  BY <1>1, MaxOfTwo
<1>4. b = [a EXCEPT !.seqs[x.id] = seq, !.ranks[x.id] = rank]
  BY DEF recordSeenItemOrdering
<1> HIDE DEF b, seq, rank
<1>5. /\ b \in AreaType /\ b.seqs = [a.seqs EXCEPT ![x.id] = seq] /\ b.ranks = [a.ranks EXCEPT ![x.id] = rank]
      /\ b.items = a.items /\ b.dtos = a.dtos /\ b.selected = a.selected /\ b.calls = a.calls
      /\ b.lastStarted = a.lastStarted /\ b.lastCompleted = a.lastCompleted
      /\ b.forgotten = a.forgotten /\ b.lost = a.lost
  BY <1>2, <1>3, <1>4 DEF AreaType
<1>6. \A i \in Items : b.seqs[i] >= a.seqs[i] /\ b.ranks[i] >= a.ranks[i]
  BY <1>1, <1>2, <1>3, <1>5
<1>7. b.seqs[x.id] >= x.seq /\ b.ranks[x.id] >= Rank(x.status)
  BY <1>1, <1>2, <1>3, <1>5
<1>8. QED BY <1>5, <1>6, <1>7 DEF b

LEMMA RecordAndPruneIs ==
    ASSUME NEW a \in AreaType, NEW list, ShowableOK(list)
    PROVE  LET b == RecordAndPrune(a, list)
           IN  /\ b \in AreaType
               /\ b.items = a.items /\ b.dtos = a.dtos /\ b.selected = a.selected /\ b.calls = a.calls
               /\ b.lost = a.lost
               /\ b.forgotten = a.forgotten \cup (Ids(a.items) \ Ids(list))
               /\ \A n \in DOMAIN list : Remembers(b, list[n])
               /\ \A x \in ItemType : x.id \in Ids(list) /\ Remembers(a, x) => Remembers(b, x)
<1> DEFINE b == RecordAndPrune(a, list)
           seen(i) == recordSeenItemOrdering(a, ItemIn(list, i))
           seqs == [i \in Items |-> IF i \in Ids(list) THEN seen(i).seqs[i] ELSE Undefined]
           ranks == [i \in Items |-> IF i \in Ids(list) THEN seen(i).ranks[i] ELSE Undefined]
           forgotten == a.forgotten \cup (Ids(a.items) \ Ids(list))
<1>1. list \in Seq(ItemType) /\ ListOK(list) /\ Ids(list) \subseteq Items
  BY IdsOfItems DEF ShowableOK, ListOK
<1>2. b = [a EXCEPT !.forgotten = forgotten, !.seqs = seqs, !.ranks = ranks]
  BY DEF RecordAndPrune
<1>3. \A i \in Ids(list) : /\ seen(i).seqs \in [Items -> Int] /\ seen(i).ranks \in [Items -> Int]
                           /\ seen(i).seqs[i] >= a.seqs[i] /\ seen(i).ranks[i] >= a.ranks[i]
                           /\ seen(i).seqs[i] >= ItemIn(list, i).seq
                           /\ seen(i).ranks[i] >= Rank(ItemIn(list, i).status)
  <2> SUFFICES ASSUME NEW i \in Ids(list)
               PROVE  /\ seen(i).seqs \in [Items -> Int] /\ seen(i).ranks \in [Items -> Int]
                      /\ seen(i).seqs[i] >= a.seqs[i] /\ seen(i).ranks[i] >= a.ranks[i]
                      /\ seen(i).seqs[i] >= ItemIn(list, i).seq
                      /\ seen(i).ranks[i] >= Rank(ItemIn(list, i).status)
    OBVIOUS
  <2> DEFINE x == ItemIn(list, i)
  <2>1. x \in ItemType /\ x.id = i
    BY <1>1, SomeItemIn, IdsOfItems
  <2>2. x.id \in Items /\ x.seq \in Int /\ x.status \in Status
    BY <2>1 DEF ItemType
  <2> HIDE DEF x
  <2>3. /\ recordSeenItemOrdering(a, x) \in AreaType
        /\ \A j \in Items : /\ recordSeenItemOrdering(a, x).seqs[j] >= a.seqs[j]
                            /\ recordSeenItemOrdering(a, x).ranks[j] >= a.ranks[j]
        /\ recordSeenItemOrdering(a, x).seqs[x.id] >= x.seq
        /\ recordSeenItemOrdering(a, x).ranks[x.id] >= Rank(x.status)
    BY <2>2, RecordIs
  <2>4. seen(i) = recordSeenItemOrdering(a, x)
    BY DEF x
  <2> HIDE DEF seen
  <2>5. QED BY <2>1, <2>2, <2>3, <2>4 DEF AreaType, x
<1> HIDE DEF seen
<1>4. seqs \in [Items -> Int] /\ ranks \in [Items -> Int]
  BY <1>3, IdsAreIds
<1>5. \A i \in Ids(list) : seqs[i] = seen(i).seqs[i] /\ ranks[i] = seen(i).ranks[i]
  BY <1>1
<1>6. forgotten \in SUBSET Items
  BY IdsOfItems DEF AreaType
<1> HIDE DEF seqs, ranks, forgotten, b
<1>7. /\ b \in AreaType /\ b.seqs = seqs /\ b.ranks = ranks /\ b.forgotten = forgotten
      /\ b.items = a.items /\ b.dtos = a.dtos /\ b.selected = a.selected /\ b.calls = a.calls
      /\ b.lost = a.lost
  BY <1>2, <1>4, <1>6 DEF AreaType
<1>8. ASSUME NEW n \in DOMAIN list PROVE Remembers(b, list[n])
  <2>1. list[n].id \in Ids(list) /\ ItemIn(list, list[n].id) = list[n]
    BY <1>1, IdsOfItems, ItemInIs
  <2>2. QED BY <1>3, <1>5, <1>7, <2>1 DEF Remembers
<1>9. ASSUME NEW x \in ItemType, x.id \in Ids(list), Remembers(a, x) PROVE Remembers(b, x)
  <2>1. /\ a.seqs[x.id] >= x.seq /\ a.ranks[x.id] >= Rank(x.status)
        /\ b.seqs[x.id] >= a.seqs[x.id] /\ b.ranks[x.id] >= a.ranks[x.id]
    BY <1>3, <1>5, <1>7, <1>9 DEF Remembers
  <2>2. /\ x.seq \in Int /\ Rank(x.status) \in Int /\ a.seqs[x.id] \in Int /\ a.ranks[x.id] \in Int
        /\ b.seqs[x.id] \in Int /\ b.ranks[x.id] \in Int
    BY <1>1, <1>4, <1>7, <1>9, RankIs DEF ItemType, AreaType
  <2>3. QED BY <2>1, <2>2 DEF Remembers
<1>10. QED BY <1>7, <1>8, <1>9 DEF b, forgotten

LEMMA OvertakingIs ==
    ASSUME NEW a \in AreaType, \A c \in a.calls : ShowableOK(c.list) /\ c.at \in DOMAIN c.list
    PROVE  LET b == Overtaking(a)
           IN  /\ b \in AreaType
               /\ b.items = a.items /\ b.dtos = a.dtos /\ b.selected = a.selected
               /\ b.seqs = a.seqs /\ b.ranks = a.ranks
               /\ b.forgotten = a.forgotten /\ b.lost = a.lost
               /\ Newest(b) = {}
               /\ \A c \in b.calls : ShowableOK(c.list) /\ c.at \in DOMAIN c.list
<1> DEFINE b == Overtaking(a)
           calls == {[c EXCEPT !.stale = TRUE, !.old = <<>>] : c \in a.calls}
<1>1. b = [a EXCEPT !.calls = calls]
  BY DEF Overtaking
<1>2. ASSUME NEW c \in a.calls
      PROVE  LET e == [c EXCEPT !.stale = TRUE, !.old = <<>>]
             IN  e \in CallType /\ e.stale /\ e.list = c.list /\ e.at = c.at
  <2>1. c \in CallType /\ <<>> \in Seq(ItemType)
    BY DEF AreaType
  <2>2. QED BY <2>1 DEF CallType
<1>3. /\ calls \in SUBSET CallType
      /\ \A e \in calls : e.stale /\ ShowableOK(e.list) /\ e.at \in DOMAIN e.list
  <2>1. \A c \in a.calls : ShowableOK(c.list) /\ c.at \in DOMAIN c.list
    OBVIOUS
  <2>2. \A e \in calls : \E c \in a.calls : e = [c EXCEPT !.stale = TRUE, !.old = <<>>]
    BY Zenon
  <2> HIDE DEF calls
  <2>3. ASSUME NEW e \in calls
        PROVE  e \in CallType /\ e.stale /\ ShowableOK(e.list) /\ e.at \in DOMAIN e.list
    <3>1. PICK c \in a.calls : e = [c EXCEPT !.stale = TRUE, !.old = <<>>]
      BY ONLY <2>2, e \in calls, Zenon
    <3>2. e \in CallType /\ e.stale /\ e.list = c.list /\ e.at = c.at
      <4> DEFINE f == [c EXCEPT !.stale = TRUE, !.old = <<>>]
      <4>1. f \in CallType /\ f.stale /\ f.list = c.list /\ f.at = c.at
        BY <1>2
      <4>2. e = f
        BY <3>1
      <4> HIDE DEF f
      <4>3. QED BY ONLY <4>1, <4>2
    <3>3. ShowableOK(c.list) /\ c.at \in DOMAIN c.list
      BY <2>1
    <3>4. QED BY ONLY <3>2, <3>3, Zenon
  <2>4. QED BY ONLY <2>3, Zenon
<1> HIDE DEF calls, b
<1>4. /\ b \in AreaType /\ b.calls = calls
      /\ b.items = a.items /\ b.dtos = a.dtos /\ b.selected = a.selected
      /\ b.seqs = a.seqs /\ b.ranks = a.ranks
      /\ b.forgotten = a.forgotten /\ b.lost = a.lost
  BY <1>1, <1>3 DEF AreaType
<1>5. Newest(b) = {}
  BY <1>3, <1>4 DEF Newest
<1>6. QED BY <1>3, <1>4, <1>5 DEF b

LEMMA NewerIsOrder ==
    /\ \A x \in ItemType : Newer(x, x)
    /\ \A x, y, z \in ItemType : Newer(z, y) /\ Newer(y, x) => Newer(z, x)
<1>1. \A x \in ItemType : x.seq \in Int /\ Rank(x.status) \in Int
  BY RankIs DEF ItemType
<1>2. QED BY <1>1 DEF Newer

\* What is on show after a change of the list to L (with b), as against before
\* it (with a): no older, if it was not forgotten; and of L, if it is another.
Shows(a, b, L) ==
    /\ \A m \in DOMAIN a.items, n \in DOMAIN b.items :
          a.items[m].id = b.items[n].id /\ a.items[m].id \notin a.forgotten
              => Newer(b.items[n], a.items[m])
    /\ b.items = a.items \/ Ids(b.items) \subseteq Ids(L)
    /\ \A i \in Ids(L) \cap Ids(a.items) : /\ i \in b.forgotten => i \in a.forgotten
                                           /\ b.items # a.items => i \in Ids(b.items)

LEMMA onItemsChangedEventOK ==
    ASSUME NEW a, NEW own, BaseOK(a, own), NEW list, ShowableOK(list), NEW disc,
           Ids(list) \subseteq own \ disc, NEW miss, NEW mode
    PROVE  LET b == onItemsChangedEvent(a, list, mode)
           IN  AreaOK(b, own, disc, miss) /\ Shows(a, b, list)
<1> DEFINE next == Normalized(a, list)
           r == RecordAndPrune(a, next)
           o == Overtaking(r)
           c == IF next = <<>> THEN Selecting(o, None, 0)
                ELSE IF o.selected = None THEN Selecting(o, next[1].id, 0) ELSE o
           dtos == [i \in Items |-> IF i \in Ids(next) THEN c.dtos[i] ELSE 0]
           d == [c EXCEPT !.dtos = dtos]
           call == [list |-> next, old |-> a.items, at |-> 0, stale |-> FALSE]
           b == Looping(d, call, 1, mode)
<1>1. onItemsChangedEvent(a, list, mode) = b
  BY DEF onItemsChangedEvent
<1>2. a \in AreaType /\ ShownOK(a, own) /\ ShowableOK(a.items) /\ a.items \in Seq(ItemType)
  BY DEF BaseOK, ShownOK, ShowableOK, ListOK
<1>3. /\ ShowableOK(next) /\ Ids(next) \subseteq Ids(list) /\ Ids(list) \cap Ids(a.items) \subseteq Ids(next)
      /\ \A n \in DOMAIN next : \/ shouldAcceptQueueItem(a, next[n])
                                \/ \E m \in DOMAIN a.items : next[n] = a.items[m]
  BY <1>2, NormalizedOK
<1> HIDE DEF next
<1>4. next \in Seq(ItemType) /\ DOMAIN next = 1 .. Len(next) /\ Len(next) \in Nat
  BY <1>3 DEF ShowableOK, ListOK
<1>5. ASSUME NEW m \in DOMAIN a.items, NEW n \in DOMAIN next,
             a.items[m].id = next[n].id, a.items[m].id \notin a.forgotten
      PROVE  Newer(next[n], a.items[m])
  <2>1. /\ a.items[m] \in ItemType /\ next[n] \in ItemType /\ Remembers(a, a.items[m])
        /\ Dated(a.items[m].status, a.items[m].seq) /\ Dated(next[n].status, next[n].seq)
    BY <1>2, <1>3, <1>4, <1>5, IdsOfItems DEF ShownOK, ShowableOK, ListOK
  <2>2. CASE shouldAcceptQueueItem(a, next[n])
    BY <1>2, <1>5, <2>1, <2>2, AcceptedIsNewer
  <2>3. ASSUME NEW k \in DOMAIN a.items, next[n] = a.items[k] PROVE Newer(next[n], a.items[m])
    <3>1. k = m
      BY <1>2, <1>5, <2>3 DEF ShowableOK, ListOK
    <3>2. QED BY <2>1, <2>3, <3>1, NewerIsOrder
  <2>4. QED BY <1>3, <2>2, <2>3
<1>6. /\ r \in AreaType
      /\ r.items = a.items /\ r.dtos = a.dtos /\ r.selected = a.selected /\ r.calls = a.calls
      /\ r.forgotten = a.forgotten \cup (Ids(a.items) \ Ids(next))
      /\ \A n \in DOMAIN next : Remembers(r, next[n])
      /\ \A x \in ItemType : x.id \in Ids(next) /\ Remembers(a, x) => Remembers(r, x)
  BY <1>2, <1>3, RecordAndPruneIs
<1> HIDE DEF r
<1>7. /\ o \in AreaType
      /\ o.items = r.items /\ o.dtos = r.dtos /\ o.selected = r.selected
      /\ o.seqs = r.seqs /\ o.ranks = r.ranks /\ o.forgotten = r.forgotten
      /\ Newest(o) = {}
      /\ \A q \in o.calls : ShowableOK(q.list) /\ q.at \in DOMAIN q.list
  BY <1>6, OvertakingIs DEF BaseOK
<1> HIDE DEF o
<1>8. Alike(o, c) /\ c \in AreaType /\ (next # <<>> => c.selected # None)
  <2>1. CASE next = <<>>
    <3>1. c = Selecting(o, None, 0)
      BY <2>1
    <3> HIDE DEF c
    <3>2. QED BY <1>7, <2>1, <3>1, SelectingIs, SMTT(30) DEF Alike
  <2>2. CASE next # <<>> /\ o.selected = None
    <3>1. c = Selecting(o, next[1].id, 0)
      BY <2>2
    <3>2. 1 \in DOMAIN next
      BY <1>4, <2>2
    <3>3. next[1].id \in Items /\ next[1].id # None
      BY <1>4, <3>2, IdsOfItems, IdsAreIds
    <3> HIDE DEF c
    <3>4. QED BY <1>7, <2>2, <3>1, <3>3, SelectingIs DEF Alike
  <2>3. CASE next # <<>> /\ o.selected # None
    <3>1. c = o
      BY <2>3
    <3> HIDE DEF c
    <3>2. QED BY <1>7, <2>3, <3>1 DEF Alike
  <2>4. QED BY <2>1, <2>2, <2>3
<1> HIDE DEF c
<1>9. dtos \in [Items -> Nat] /\ \A i \in Items : dtos[i] <= Outputs[i]
  <2>1. \A i \in Items : a.dtos[i] <= Outputs[i] /\ Outputs[i] \in Nat /\ c.dtos = a.dtos /\ c.dtos[i] \in Nat
    BY <1>6, <1>7, <1>8, StagingAssumption DEF BaseOK, Alike, AreaType, StagingAssumption
  <2>2. QED BY <2>1
<1> HIDE DEF dtos
<1>10. /\ d \in AreaType /\ d.dtos = dtos /\ d.items = a.items /\ d.selected = c.selected
       /\ d.seqs = r.seqs /\ d.ranks = r.ranks /\ d.calls = o.calls /\ d.forgotten = r.forgotten
  BY <1>6, <1>7, <1>8, <1>9 DEF Alike, AreaType
<1> HIDE DEF d
<1>11. Newest(d) = {}
  BY <1>7, <1>10 DEF Newest
<1>12. ShownOK(d, own)
  <2>1. ASSUME NEW n \in DOMAIN d.items, d.items[n].id \notin d.forgotten PROVE Remembers(d, d.items[n])
    <3>1. d.items[n] \in ItemType /\ d.items[n].id \in Ids(d.items) /\ n \in DOMAIN a.items
      BY <1>2, <1>10, IdsOfItems
    <3>2. d.items[n].id \notin a.forgotten /\ d.items[n].id \in Ids(next)
      BY <1>6, <1>10, <2>1, <3>1
    <3>3. Remembers(a, d.items[n])
      BY <1>2, <1>10, <3>1, <3>2 DEF ShownOK
    <3>4. Remembers(r, d.items[n])
      BY <1>6, <3>1, <3>2, <3>3
    <3>5. QED BY <1>10, <3>4 DEF Remembers
  <2>2. QED BY <1>2, <1>10, <2>1 DEF ShownOK
<1>13. BaseOK(d, own)
  BY <1>7, <1>9, <1>10, <1>12 DEF BaseOK
<1>14. call \in CallType /\ call.list = next /\ ~call.stale
  BY <1>2, <1>4 DEF CallType
<1> HIDE DEF call
<1>15. Going(d, call, own, disc)
  <2>1. Ids(next) \subseteq own \ disc
    BY <1>3
  <2>2. \A n \in DOMAIN next : Remembers(d, next[n])
    BY <1>6, <1>10 DEF Remembers
  <2>3. \A m \in DOMAIN d.items, n \in DOMAIN next :
           d.items[m].id = next[n].id /\ d.items[m].id \notin d.forgotten => Newer(next[n], d.items[m])
    BY <1>5, <1>6, <1>10
  <2>4. QED BY <1>8, <1>10, <1>14, <2>1, <2>2, <2>3 DEF Going
<1>16. \A m \in 1 .. 1 - 1 : HasImages(d, call.list[m], miss)
  OBVIOUS
<1>17. /\ AreaOK(b, own, disc, miss)
       /\ \/ b.items = d.items /\ b.forgotten = d.forgotten
          \/ b.items = call.list /\ b.forgotten = {}
  BY <1>3, <1>11, <1>13, <1>14, <1>15, <1>16, NewestLoops, SMTT(30)
<1> HIDE DEF b
<1>18. CASE b.items = a.items /\ b.forgotten = r.forgotten
  <2>1. \A i \in Ids(list) \cap Ids(a.items) : i \in b.forgotten => i \in a.forgotten
    BY <1>3, <1>6, <1>18
  <2>2. \A m, n \in DOMAIN a.items : a.items[m].id = a.items[n].id => Newer(a.items[n], a.items[m])
    <3>1. \A m \in DOMAIN a.items : a.items[m] \in ItemType
      BY <1>2
    <3>2. QED BY <1>2, <3>1, NewerIsOrder DEF ShowableOK, ListOK
  <2>3. QED BY <1>1, <1>17, <1>18, <2>1, <2>2 DEF Shows
<1>19. CASE b.items = next /\ b.forgotten = {}
  BY <1>1, <1>3, <1>5, <1>17, <1>19 DEF Shows
<1>20. QED BY <1>10, <1>14, <1>17, <1>18, <1>19

\* Two changes to the same list, one after the other.
LEMMA ShowsTwice ==
    ASSUME NEW a, NEW b, NEW c, NEW list, NEW own, BaseOK(a, own), BaseOK(b, own), BaseOK(c, own),
           Shows(a, b, list), Shows(b, c, list)
    PROVE  Shows(a, c, list)
<1>1. \A q \in {a, b, c} : \A m \in DOMAIN q.items : q.items[m] \in ItemType /\ q.items[m].id \in Ids(q.items)
  BY IdsOfItems DEF BaseOK, ShownOK, ShowableOK, ListOK
<1>2. ASSUME NEW m \in DOMAIN a.items, NEW n \in DOMAIN c.items,
             a.items[m].id = c.items[n].id, a.items[m].id \notin a.forgotten
      PROVE  Newer(c.items[n], a.items[m])
  <2>1. CASE c.items = b.items
    BY <1>2, <2>1 DEF Shows
  <2>2. CASE c.items # b.items /\ b.items = a.items
    <3>1. a.items[m].id \in Ids(list) /\ a.items[m].id \in Ids(a.items)
      BY <1>1, <1>2, <2>2 DEF Shows
    <3>2. a.items[m].id \notin b.forgotten
      BY <1>2, <3>1 DEF Shows
    <3>3. QED BY <1>2, <2>2, <3>2 DEF Shows
  <2>3. CASE c.items # b.items /\ b.items # a.items
    <3>1. a.items[m].id \in Ids(list) /\ a.items[m].id \in Ids(a.items)
      BY <1>1, <1>2, <2>3 DEF Shows
    <3>2. a.items[m].id \notin b.forgotten /\ a.items[m].id \in Ids(b.items)
      BY <1>2, <2>3, <3>1 DEF Shows
    <3>3. PICK k \in DOMAIN b.items : b.items[k].id = a.items[m].id
      BY <3>2, IdsAre
    <3>4. Newer(b.items[k], a.items[m]) /\ Newer(c.items[n], b.items[k])
      BY <1>2, <3>2, <3>3 DEF Shows
    <3>5. QED BY <1>1, <3>4, NewerIsOrder
  <2>4. QED BY <2>1, <2>2, <2>3
<1>3. c.items = a.items \/ Ids(c.items) \subseteq Ids(list)
  BY DEF Shows
<1>4. ASSUME NEW i \in Ids(list) \cap Ids(a.items)
      PROVE  (i \in c.forgotten => i \in a.forgotten) /\ (c.items # a.items => i \in Ids(c.items))
  <2>1. i \in Ids(b.items)
    BY DEF Shows
  <2>2. QED BY <2>1 DEF Shows
<1>5. QED BY <1>2, <1>3, <1>4 DEF Shows

-------------------------------------------------------------------------------
(* The cache.                                                              *)

LEMMA NotifiedOK ==
    ASSUME NEW a, NEW own, BaseOK(a, own), NEW q, QueryOK(q, own), NEW disc, NEW miss
    PROVE  /\ AreaOK(Notified(a, q, disc), own, disc, miss)
           /\ Shows(a, Notified(a, q, disc), CanvasQueueItems(q, disc))
<1>1. /\ ShowableOK(CanvasQueueItems(q, disc))
      /\ Ids(CanvasQueueItems(q, disc)) \subseteq own \ disc
  BY CanvasQueueItemsOK DEF QueryOK
<1>2. QED BY <1>1, onItemsChangedEventOK DEF Notified

LEMMA ShowsItself ==
    ASSUME NEW a, NEW own, BaseOK(a, own), NEW list
    PROVE  Shows(a, a, list)
<1>1. \A m \in DOMAIN a.items : a.items[m] \in ItemType
  BY DEF BaseOK, ShownOK, ShowableOK, ListOK
<1>2. QED BY <1>1, NewerIsOrder DEF BaseOK, ShownOK, ShowableOK, ListOK, Shows

LEMMA DispatchedOK ==
    ASSUME NEW a, NEW own, AreaOK(a, own, app.discarded, missed), NEW q, NEW r, QueryOK(r, own)
    PROVE  /\ AreaOK(Dispatched(a, q, r), own, app.discarded, missed)
           /\ Shows(a, Dispatched(a, q, r), CanvasQueueItems(r, app.discarded))
<1>1. BaseOK(a, own)
  BY DEF AreaOK
<1>2. CASE q = r
  BY <1>1, <1>2, ShowsItself DEF Dispatched
<1>3. CASE q # r
  BY <1>1, <1>3, NotifiedOK DEF Dispatched
<1>4. QED BY <1>2, <1>3

LEMMA InvalidatedOK ==
    ASSUME NEW q, NEW own, QueryOK(q, own)
    PROVE  QueryOK(Invalidated(q), own) /\ Invalidated(q).data = q.data
BY DEF QueryOK, QueryType, Invalidated

LEMMA PatchedOK ==
    ASSUME NEW q, NEW own, QueryOK(q, own), NEW e \in MessageType, e.id \in Items, Dated(e.status, e.seq)
    PROVE  QueryOK(Patched(q, e), own)
<1> DEFINE data == [n \in DOMAIN q.data |->
                       IF q.data[n].id = e.id THEN [q.data[n] EXCEPT !.status = e.status, !.seq = e.seq]
                       ELSE q.data[n]]
<1>1. /\ q \in QueryType /\ q.data \in Seq(ItemType) /\ DOMAIN q.data = 1 .. Len(q.data) /\ Len(q.data) \in Nat
      /\ \A n \in DOMAIN q.data : q.data[n] \in ItemType
  BY DEF QueryOK, QueryType
<1>2. Patched(q, e) = [q EXCEPT !.data = data]
  BY DEF Patched
<1>3. ASSUME NEW n \in DOMAIN q.data
      PROVE  data[n] \in ItemType /\ data[n].id = q.data[n].id /\ Dated(data[n].status, data[n].seq)
  <2>1. CASE q.data[n].id = e.id
    <3>1. data[n] = [q.data[n] EXCEPT !.status = e.status, !.seq = e.seq]
      BY <2>1
    <3> HIDE DEF data
    <3>2. /\ data[n] \in ItemType /\ data[n].id = q.data[n].id
          /\ data[n].status = e.status /\ data[n].seq = e.seq
      BY <1>1, <3>1 DEF ItemType, MessageType
    <3>3. QED BY <3>2
  <2>2. CASE q.data[n].id # e.id
    <3>1. data[n] = q.data[n]
      BY <2>2
    <3> HIDE DEF data
    <3>2. QED BY <1>1, <3>1 DEF QueryOK, ListOK
  <2>3. QED BY <2>1, <2>2
<1>4. data \in Seq(ItemType) /\ DOMAIN data = DOMAIN q.data
  <2>1. data \in [1 .. Len(q.data) -> ItemType]
    BY <1>1, <1>3
  <2> HIDE DEF data
  <2>2. QED BY <1>1, <2>1
<1> HIDE DEF data
<1>5. ListOK(data)
  BY <1>3, <1>4 DEF QueryOK, ListOK
<1>6. Ids(data) \subseteq Ids(q.data)
  BY <1>3, <1>4, IdsAre
<1>7. QED BY <1>1, <1>2, <1>4, <1>5, <1>6 DEF QueryOK, QueryType

-------------------------------------------------------------------------------
(* What a step within a session may do to what is on show.                 *)

Kept(a, b, disc) ==
    /\ \A m \in DOMAIN a.items, n \in DOMAIN b.items :
          a.items[m].id = b.items[n].id /\ a.items[m].id \notin a.forgotten
              => Newer(b.items[n], a.items[m])
    /\ \A i \in disc : i \in Ids(b.items) => i \in Ids(a.items)

LEMMA ShowsKept ==
    ASSUME NEW a, NEW b, NEW q, ListOK(q.data), NEW disc,
           Shows(a, b, CanvasQueueItems(q, disc))
    PROVE  Kept(a, b, disc)
<1>1. Ids(CanvasQueueItems(q, disc)) \cap disc = {}
  BY CanvasQueueItemsOK
<1>2. QED BY <1>1 DEF Shows, Kept

LEMMA SameItemsKept ==
    ASSUME NEW a, NEW own, BaseOK(a, own), NEW b, b.items = a.items, NEW disc
    PROVE  Kept(a, b, disc)
<1>1. \A m \in DOMAIN a.items : a.items[m] \in ItemType
  BY DEF BaseOK, ShownOK, ShowableOK, ListOK
<1>2. QED BY <1>1, NewerIsOrder DEF BaseOK, ShownOK, ShowableOK, ListOK, Kept

\* As more items are the session's, what was all right is.
LEMMA OwnGrows ==
    ASSUME NEW own, NEW more, own \subseteq more, NEW a, NEW disc, NEW miss, NEW q
    PROVE  /\ AreaOK(a, own, disc, miss) => AreaOK(a, more, disc, miss)
           /\ QueryOK(q, own) => QueryOK(q, more)
BY DEF AreaOK, BaseOK, ShownOK, NewestOK, QueryOK

\* A step: what is to hold after it.
Stepped == IInv' /\ (app'.session = app.session => Kept(area, area', app.discarded))

\* Steps that leave the api as it is.
LEMMA AreaAsItIs ==
    ASSUME IInv, World', area' = area, app'.session = app.session, app'.discarded = app.discarded,
           missed' = missed, Own(srv, app.session) \subseteq Own(srv', app.session),
           QueryOK(query', Own(srv', app.session))
    PROVE  Stepped
<1>1. AreaOK(area, Own(srv', app.session), app.discarded, missed)
  BY OwnGrows DEF IInv
<1>2. Kept(area, area', app.discarded)
  BY SameItemsKept DEF IInv, AreaOK
<1>3. QED BY <1>1, <1>2 DEF Stepped, IInv

-------------------------------------------------------------------------------
(* The server's steps.                                                     *)

LEMMA StatusNames ==
    /\ Status = {"pending", "in_progress", "completed", "failed", "canceled"}
    /\ Rank("pending") = 0 /\ Rank("in_progress") = 1
    /\ Rank("completed") = 2 /\ Rank("failed") = 2 /\ Rank("canceled") = 2
BY DEF Status, Terminal, Rank

LEMMA AppIs ==
    ASSUME IInv
    PROVE  /\ app.session \in 1 .. MaxSessions /\ app.session # 0
           /\ app.discarded \in SUBSET Items /\ app.mode \in Modes
           /\ MaxSessions \in Nat /\ MaxWire \in Nat
BY StagingAssumption DEF IInv, World, StagingAssumption

LEMMA RowDated ==
    ASSUME NEW row, RowOK(row), row.status \in Status
    PROVE  Dated(row.status, IF Sequenced THEN row.seq ELSE Undefined)
<1>1. CASE Sequenced
  <2>1. \/ row.status = "pending" /\ row.seq = 0
        \/ row.status = "in_progress" /\ row.seq = 1
        \/ row.status \in {"completed", "failed", "canceled"} /\ row.seq \in {1, 2}
    BY StatusNames DEF RowOK, Terminal
  <2>2. \/ Rank(row.status) = 0 /\ row.seq = 0
        \/ Rank(row.status) = 1 /\ row.seq = 1
        \/ Rank(row.status) = 2 /\ row.seq \in {1, 2}
    BY <2>1, StatusNames
  <2>3. QED BY <1>1, <2>2 DEF Dated
<1>2. CASE ~Sequenced
  BY <1>2 DEF Dated
<1>3. QED BY <1>1, <1>2

LEMMA Sent ==
    ASSUME IInv, HasRoom, NEW e \in MessageType, MessageOK(e), wire' = Append(wire, e)
    PROVE  wire' \in Seq(MessageType) /\ Len(wire') <= MaxWire /\ \A n \in DOMAIN wire' : MessageOK(wire'[n])
<1>1. wire \in Seq(MessageType) /\ \A n \in DOMAIN wire : MessageOK(wire[n])
  BY DEF IInv, World
<1>2. /\ wire' \in Seq(MessageType) /\ Len(wire') = Len(wire) + 1 /\ Len(wire) \in Nat
      /\ DOMAIN wire' = 1 .. Len(wire) + 1 /\ DOMAIN wire = 1 .. Len(wire)
      /\ \A n \in DOMAIN wire' : wire'[n] = IF n = Len(wire) + 1 THEN e ELSE wire[n]
  BY <1>1
<1>3. Len(wire') <= MaxWire
  BY <1>2, AppIs DEF HasRoom
<1>4. ASSUME NEW n \in DOMAIN wire' PROVE MessageOK(wire'[n])
  <2>1. n = Len(wire) + 1 \/ n \in DOMAIN wire
    BY <1>2
  <2>2. QED BY <1>1, <1>2, <2>1
<1>5. QED BY <1>2, <1>3, <1>4

LEMMA BatchMessagesOK ==
    /\ BatchEnqueued \in MessageType /\ MessageOK(BatchEnqueued)
    /\ QueueCleared \in MessageType /\ MessageOK(QueueCleared)
<1>1. BatchEnqueued \in MessageType /\ BatchEnqueued.kind = "batch_enqueued"
  BY StatusNames, IdsAreIds DEF BatchEnqueued, Message, MessageType, None
<1>2. QueueCleared \in MessageType /\ QueueCleared.kind = "queue_cleared"
  BY <1>1 DEF QueueCleared, MessageType
<1>3. QED BY <1>1, <1>2 DEF MessageOK

LEMMA EnqueueBatchSteps == IInv /\ EnqueueBatch => Stepped
<1> SUFFICES ASSUME IInv, EnqueueBatch PROVE Stepped
  OBVIOUS
<1>1. PICK i \in Items :
        /\ srv[i].status = "none"
        /\ srv' = [srv EXCEPT ![i] = [dest |-> app.session, status |-> "pending", seq |-> 0,
                                      results |-> FALSE]]
  BY DEF EnqueueBatch
<1>2. /\ HasRoom /\ wire' = Append(wire, BatchEnqueued)
      /\ finished' = finished /\ query' = query /\ app' = app /\ area' = area /\ missed' = missed
  BY DEF EnqueueBatch
<1> DEFINE row == [dest |-> app.session, status |-> "pending", seq |-> 0, results |-> FALSE]
<1>3. row \in RowType /\ RowOK(row)
  BY AppIs DEF RowType, RowOK, Status, Terminal
<1> HIDE DEF row
<1>4. /\ srv \in [Items -> RowType] /\ \A j \in Items : RowOK(srv[j])
      /\ srv' = [srv EXCEPT ![i] = row]
  BY <1>1 DEF IInv, World, row
<1>5. srv' \in [Items -> RowType] /\ \A j \in Items : RowOK(srv'[j])
  BY <1>3, <1>4
<1>6. World'
  BY <1>2, <1>5, Sent, BatchMessagesOK DEF IInv, World
<1>7. Own(srv, app.session) \subseteq Own(srv', app.session)
  BY <1>1, <1>4, AppIs DEF Own, RowOK
<1>8. QueryOK(query', Own(srv', app.session))
  BY <1>2, <1>7, OwnGrows DEF IInv
<1>9. QED BY <1>2, <1>6, <1>7, <1>8, AreaAsItIs

\* A row changes, but not its destination.
LEMMA RowChanges ==
    ASSUME IInv, NEW i \in Items, NEW row, RowOK(row), row.dest = srv[i].dest,
           srv' = [srv EXCEPT ![i] = row],
           wire' \in Seq(MessageType), Len(wire') <= MaxWire, \A n \in DOMAIN wire' : MessageOK(wire'[n]),
           UNCHANGED <<finished, query, app, area, missed>>
    PROVE  Stepped
<1>1. srv \in [Items -> RowType] /\ (\A j \in Items : RowOK(srv[j])) /\ row \in RowType
  BY DEF IInv, World, RowOK
<1>2. /\ srv' \in [Items -> RowType] /\ \A j \in Items : RowOK(srv'[j])
      /\ \A j \in Items : srv'[j].dest = srv[j].dest
  BY <1>1
<1>3. World'
  BY <1>2 DEF IInv, World
<1>4. Own(srv', app.session) = Own(srv, app.session)
  BY <1>2 DEF Own
<1>5. QueryOK(query', Own(srv', app.session))
  BY <1>4 DEF IInv
<1>6. QED BY <1>3, <1>4, <1>5, AreaAsItIs

LEMMA ProduceSteps == IInv /\ Produce => Stepped
<1> SUFFICES ASSUME IInv, Produce PROVE Stepped
  OBVIOUS
<1>1. PICK i \in Items : srv[i].status = "in_progress" /\ srv' = [srv EXCEPT ![i].results = TRUE]
  BY DEF Produce
<1> DEFINE row == [srv[i] EXCEPT !.results = TRUE]
<1>2. RowOK(row) /\ row.dest = srv[i].dest
  BY DEF IInv, World, RowOK, RowType
<1>3. srv' = [srv EXCEPT ![i] = row]
  BY <1>1
<1>4. UNCHANGED <<wire, finished, query, app, area, missed>>
  BY DEF Produce
<1> HIDE DEF row
<1>5. QED BY <1>2, <1>3, <1>4, RowChanges DEF IInv, World

LEMMA StatusChanges == IInv /\ QueueItemStatusChanged => Stepped
<1> SUFFICES ASSUME IInv, QueueItemStatusChanged PROVE Stepped
  OBVIOUS
<1>1. PICK i \in Items, t \in Status :
        /\ Follows(srv[i].status, t)
        /\ srv' = [srv EXCEPT ![i].status = t, ![i].seq = @ + 1]
        /\ wire' = Append(wire, Message("queue_item_status_changed", i, t, srv'[i].seq, srv[i].dest))
  BY DEF QueueItemStatusChanged
<1>2. HasRoom /\ UNCHANGED <<finished, query, app, area, missed>>
  BY DEF QueueItemStatusChanged
<1> DEFINE row == [srv[i] EXCEPT !.status = t, !.seq = srv[i].seq + 1]
<1>3. /\ srv \in [Items -> RowType] /\ RowOK(srv[i]) /\ srv[i] \in RowType
      /\ srv[i].seq \in Nat /\ srv[i].dest \in Nat
  BY AppIs DEF IInv, World, RowType
<1>4. row \in RowType /\ row.dest = srv[i].dest /\ row.status = t /\ row.seq = srv[i].seq + 1
  <2>1. ASSUME NEW x \in RowType, NEW n \in Nat
        PROVE  LET y == [x EXCEPT !.status = t, !.seq = n]
               IN  y \in RowType /\ y.dest = x.dest /\ y.status = t /\ y.seq = n
    BY DEF RowType
  <2>2. srv[i].seq + 1 \in Nat
    BY <1>3
  <2>3. QED BY <1>3, <2>1, <2>2
<1>5. srv' = [srv EXCEPT ![i] = row]
  BY <1>1, <1>3
<1>6. srv'[i] = row
  BY <1>3, <1>5
<1> HIDE DEF row
<1>7. \/ srv[i].status = "pending" /\ srv[i].seq = 0 /\ t \in {"in_progress", "canceled"}
      \/ srv[i].status = "in_progress" /\ srv[i].seq = 1 /\ t \in {"completed", "failed", "canceled"}
  BY <1>1, <1>3, StagingAssumption DEF Follows, RowOK, StagingAssumption
<1>8. RowOK(row)
  BY <1>4, <1>7 DEF RowOK, Terminal
<1> DEFINE e == Message("queue_item_status_changed", i, t, srv'[i].seq, srv[i].dest)
<1>9. /\ e.id = i /\ e.status = t /\ e.seq = (IF Sequenced THEN row.seq ELSE Undefined)
      /\ e \in MessageType
  <2>1. (IF Sequenced THEN row.seq ELSE Undefined) \in Int
    BY <1>3, <1>4 DEF Undefined
  <2>2. QED BY <1>3, <1>6, <2>1 DEF Message, MessageType
<1>10. MessageOK(e)
  <2>1. Dated(t, IF Sequenced THEN row.seq ELSE Undefined)
    BY <1>4, <1>8, RowDated
  <2> HIDE DEF e
  <2>2. QED BY <1>9, <2>1 DEF MessageOK
<1>11. wire' = Append(wire, e)
  BY <1>1
<1> HIDE DEF e
<1>12. /\ wire' \in Seq(MessageType) /\ Len(wire') <= MaxWire /\ \A n \in DOMAIN wire' : MessageOK(wire'[n])
  BY <1>2, <1>9, <1>10, <1>11, Sent
<1>13. QED BY <1>2, <1>4, <1>5, <1>8, <1>12, RowChanges

LEMMA ClearQueueSteps == IInv /\ ClearQueue => Stepped
<1> SUFFICES ASSUME IInv, ClearQueue PROVE Stepped
  OBVIOUS
<1>1. /\ HasRoom /\ wire' = Append(wire, QueueCleared)
      /\ srv' = [i \in Items |->
                  IF srv[i].status \notin Status THEN srv[i]
                  ELSE [dest |-> srv[i].dest, status |-> "gone", seq |-> 0, results |-> FALSE]]
      /\ finished' = finished /\ query' = query /\ app' = app /\ area' = area /\ missed' = missed
  BY DEF ClearQueue
<1>2. srv \in [Items -> RowType] /\ \A i \in Items : RowOK(srv[i])
  BY DEF IInv, World
<1>3. ASSUME NEW i \in Items PROVE RowOK(srv'[i]) /\ srv'[i].dest = srv[i].dest
  <2>1. CASE srv[i].status \notin Status
    BY <1>1, <1>2, <2>1
  <2>2. CASE srv[i].status \in Status
    <3>1. srv'[i] = [dest |-> srv[i].dest, status |-> "gone", seq |-> 0, results |-> FALSE]
      BY <1>1, <2>2
    <3>2. srv[i].dest \in 0 .. MaxSessions
      BY <1>2 DEF RowType
    <3>3. QED BY <3>1, <3>2 DEF RowOK, RowType, Terminal
  <2>3. QED BY <2>1, <2>2
<1>4. srv' \in [Items -> RowType]
  <2>1. \A i \in Items : srv'[i] \in RowType
    BY <1>3 DEF RowOK
  <2>2. srv' = [i \in Items |-> srv'[i]]
    BY <1>1
  <2>3. QED BY <2>1, <2>2
<1>5. World'
  BY <1>1, <1>3, <1>4, Sent, BatchMessagesOK DEF IInv, World
<1>6. Own(srv', app.session) = Own(srv, app.session)
  BY <1>3 DEF Own
<1>7. QueryOK(query', Own(srv', app.session))
  BY <1>1, <1>6 DEF IInv
<1>8. QED BY <1>1, <1>5, <1>6, <1>7, AreaAsItIs

-------------------------------------------------------------------------------
(* Answers and messages.                                                   *)

LEMMA QueryIs ==
    ASSUME IInv
    PROVE  /\ query \in QueryType /\ QueryOK(query, Own(srv, app.session))
           /\ AreaOK(area, Own(srv, app.session), app.discarded, missed)
           /\ BaseOK(area, Own(srv, app.session)) /\ area \in AreaType
BY DEF IInv, QueryOK, AreaOK, BaseOK

LEMMA ServeListAllSteps == IInv /\ ServeListAll => Stepped
<1> SUFFICES ASSUME IInv, ServeListAll PROVE Stepped
  OBVIOUS
<1> DEFINE own == {i \in Items : srv[i].status \in Status /\ srv[i].dest = app.session}
           x(i) == [id |-> i, status |-> srv[i].status,
                    seq |-> IF Sequenced THEN srv[i].seq ELSE Undefined,
                    results |-> srv[i].results]
<1>1. PICK rows \in [1 .. Cardinality(own) -> own] :
        /\ \A m, n \in DOMAIN rows : m < n => rows[m] < rows[n]
        /\ query' = [query EXCEPT !.fetch = "served",
                                  !.answer = [n \in DOMAIN rows |->
                                     [id |-> rows[n], status |-> srv[rows[n]].status,
                                      seq |-> IF Sequenced THEN srv[rows[n]].seq ELSE Undefined,
                                      results |-> srv[rows[n]].results]]]
  BY DEF ServeListAll
<1>2. UNCHANGED <<srv, wire, finished, app, area, missed>>
  BY DEF ServeListAll
<1> DEFINE answer == [n \in DOMAIN rows |-> x(rows[n])]
<1>3. Cardinality(own) \in Nat
  BY StagingAssumption, FS_Subset, FS_CardinalityType DEF StagingAssumption
<1>4. ASSUME NEW i \in own
      PROVE  /\ x(i) \in ItemType /\ x(i).id = i /\ Dated(x(i).status, x(i).seq)
             /\ i \in Own(srv, app.session)
  <2>1. i \in Items /\ RowOK(srv[i]) /\ srv[i] \in RowType /\ srv[i].status \in Status
    BY DEF IInv, World
  <2>2. (IF Sequenced THEN srv[i].seq ELSE Undefined) \in Int /\ srv[i].results \in BOOLEAN
    BY <2>1 DEF RowType, Undefined
  <2>3. Dated(srv[i].status, IF Sequenced THEN srv[i].seq ELSE Undefined)
    BY <2>1, RowDated
  <2>4. QED BY <2>1, <2>2, <2>3 DEF ItemType, Own
<1>5. /\ DOMAIN answer = 1 .. Cardinality(own)
      /\ \A n \in DOMAIN answer : answer[n] = x(rows[n]) /\ rows[n] \in own
  BY <1>1
<1>6. query' = [query EXCEPT !.fetch = "served", !.answer = answer]
  BY <1>1
<1> HIDE DEF answer, x
<1>7. answer \in Seq(ItemType)
  <2>1. answer = [n \in 1 .. Cardinality(own) |-> answer[n]]
    BY <1>5 DEF answer
  <2>2. \A n \in 1 .. Cardinality(own) : answer[n] \in ItemType
    BY <1>4, <1>5
  <2>3. answer \in [1 .. Cardinality(own) -> ItemType]
    BY <2>1, <2>2
  <2> HIDE DEF own
  <2>4. QED BY <1>3, <2>3
<1>8. ListOK(answer)
  <2>1. ASSUME NEW m \in DOMAIN answer, NEW n \in DOMAIN answer, answer[m].id = answer[n].id PROVE m = n
    <3>0. /\ rows[m] \in own /\ answer[m] = x(rows[m]) /\ x(rows[m]).id = rows[m]
          /\ rows[n] \in own /\ answer[n] = x(rows[n]) /\ x(rows[n]).id = rows[n]
      BY <1>4, <1>5
    <3>1. rows[m] = rows[n] /\ rows[m] \in Int
      <4>1. rows[m] \in Items
        BY <3>0
      <4>2. rows[m] = rows[n]
        <5> HIDE DEF own
        <5>1. answer[m].id = rows[m] /\ answer[n].id = rows[n]
          BY <3>0
        <5>2. QED BY <2>1, <5>1
      <4>3. \A i \in Items : i \in Int
        BY StagingAssumption DEF StagingAssumption
      <4>4. QED BY <4>1, <4>2, <4>3, Zenon
    <3>2. m \in Int /\ n \in Int /\ m \in DOMAIN rows /\ n \in DOMAIN rows
      BY <1>3, <1>5
    <3>3. ~(m < n) /\ ~(n < m)
      BY <1>1, <3>1, <3>2
    <3>4. QED BY <3>2, <3>3
  <2>2. QED BY <1>4, <1>5, <1>7, <2>1 DEF ListOK
<1>9. ASSUME NEW i \in Ids(answer) PROVE i \in Own(srv, app.session)
  <2>1. PICK n \in DOMAIN answer : answer[n].id = i
    BY IdsAre
  <2>2. i = rows[n] /\ rows[n] \in own
    BY <1>4, <1>5, <2>1
  <2>3. QED BY <1>4, <2>2
<1>10. QueryOK(query', Own(srv, app.session))
  BY <1>6, <1>7, <1>8, <1>9, QueryIs DEF QueryOK, QueryType
<1>11. World'
  BY <1>2 DEF IInv, World
<1>12. QED BY <1>2, <1>10, <1>11, AreaAsItIs

\* A step that dispatches a change of the cache to r, and does no more to the api
\* than b, which is on show alike.
LEMMA DispatchSteps ==
    ASSUME IInv, World', srv' = srv, app' = app, missed' = missed,
           QueryOK(query', Own(srv, app.session)),
           area' = Dispatched(area, query, query')
    PROVE  Stepped
<1> DEFINE own == Own(srv, app.session)
<1>1. /\ AreaOK(area', own, app.discarded, missed)
      /\ Shows(area, area', CanvasQueueItems(query', app.discarded))
  BY QueryIs, DispatchedOK
<1>2. Kept(area, area', app.discarded)
  BY <1>1, ShowsKept DEF QueryOK
<1>3. QED BY <1>1, <1>2 DEF Stepped, IInv

LEMMA Received ==
    ASSUME IInv, wire # <<>>, wire' = Tail(wire)
    PROVE  /\ wire' \in Seq(MessageType) /\ Len(wire') <= MaxWire /\ \A n \in DOMAIN wire' : MessageOK(wire'[n])
           /\ Head(wire) \in MessageType /\ MessageOK(Head(wire))
<1>1. wire \in Seq(MessageType) /\ Len(wire) <= MaxWire /\ \A n \in DOMAIN wire : MessageOK(wire[n])
  BY DEF IInv, World
<1>2. /\ wire' \in Seq(MessageType) /\ Len(wire') = Len(wire) - 1 /\ Len(wire) \in Nat
      /\ \A n \in DOMAIN wire' : wire'[n] = wire[n + 1] /\ n + 1 \in DOMAIN wire
      /\ Head(wire) = wire[1] /\ 1 \in DOMAIN wire
  BY <1>1
<1>3. Len(wire') <= MaxWire
  BY <1>1, <1>2, AppIs
<1>4. QED BY <1>1, <1>2, <1>3

LEMMA FetchFulfilledSteps == IInv /\ FetchFulfilled => Stepped
<1> SUFFICES ASSUME IInv, FetchFulfilled PROVE Stepped
  OBVIOUS
<1>1. /\ query' = [data |-> query.answer, fetch |-> "idle", answer |-> <<>>]
      /\ area' = Dispatched(area, query, query')
      /\ UNCHANGED <<srv, wire, finished, app, missed>>
  BY DEF FetchFulfilled
<1>2. QueryOK(query', Own(srv, app.session))
  BY <1>1, QueryIs, EmptyList DEF QueryOK, QueryType, ShowableOK
<1>3. World'
  BY <1>1 DEF IInv, World
<1>4. QED BY <1>1, <1>2, <1>3, DispatchSteps

LEMMA FetchRejectedSteps == IInv /\ FetchRejected => Stepped
<1> SUFFICES ASSUME IInv, FetchRejected PROVE Stepped
  OBVIOUS
<1>1. /\ query' = [query EXCEPT !.fetch = "idle", !.answer = <<>>]
      /\ area' = Dispatched(area, query, query')
      /\ UNCHANGED <<srv, wire, finished, app, missed>>
  BY DEF FetchRejected
<1>2. query' \in QueryType /\ query'.data = query.data /\ query'.answer = <<>>
  <2>1. query \in QueryType /\ <<>> \in Seq(ItemType)
    BY QueryIs
  <2>2. QED BY <1>1, <2>1 DEF QueryType
<1>3. QueryOK(query', Own(srv, app.session))
  BY <1>2, QueryIs, EmptyList DEF QueryOK, ShowableOK
<1>4. World'
  BY <1>1 DEF IInv, World
<1>5. QED BY <1>1, <1>3, <1>4, DispatchSteps

LEMMA OnInvalidatedSteps == IInv /\ OnInvalidated => Stepped
<1> SUFFICES ASSUME IInv, OnInvalidated PROVE Stepped
  OBVIOUS
<1>1. /\ wire # <<>> /\ wire' = Tail(wire) /\ query' = Invalidated(query)
      /\ area' = Dispatched(area, query, query')
      /\ UNCHANGED <<srv, finished, app, missed>>
  BY DEF OnInvalidated
<1>2. QueryOK(query', Own(srv, app.session))
  BY <1>1, QueryIs, InvalidatedOK
<1>3. World'
  BY <1>1, Received DEF IInv, World
<1>4. QED BY <1>1, <1>2, <1>3, DispatchSteps

\* A status message is recorded, and may be what is to be selected.
LEMMA StatusEventIs ==
    ASSUME NEW a, NEW own, NEW disc, NEW miss, AreaOK(a, own, disc, miss),
           NEW e \in MessageType, e.id \in Items, NEW mode
    PROVE  LET b == onQueueItemStatusChangedEvent(a, e, mode)
           IN  AreaOK(b, own, disc, miss) /\ b.items = a.items
<1> DEFINE r == recordSeenItemOrdering(a, e)
           c == IF e.status = "completed" THEN [r EXCEPT !.lastCompleted = e.id] ELSE r
           b == onQueueItemStatusChangedEvent(a, e, mode)
<1>1. a \in AreaType /\ e.seq \in Int /\ e.status \in Status
  BY DEF AreaOK, BaseOK, MessageType
<1>2. /\ r \in AreaType
      /\ r.items = a.items /\ r.dtos = a.dtos /\ r.selected = a.selected /\ r.calls = a.calls
      /\ r.forgotten = a.forgotten /\ r.lost = a.lost
      /\ \A i \in Items : r.seqs[i] >= a.seqs[i] /\ r.ranks[i] >= a.ranks[i]
  BY <1>1, RecordIs
<1>3. b = IF e.status = "in_progress" /\ mode = "switch_on_start" THEN [c EXCEPT !.lastStarted = e.id] ELSE c
  BY DEF onQueueItemStatusChangedEvent
<1> HIDE DEF r, b
<1>4. /\ c \in AreaType
      /\ c.items = r.items /\ c.dtos = r.dtos /\ c.selected = r.selected /\ c.calls = r.calls
      /\ c.forgotten = r.forgotten /\ c.lost = r.lost /\ c.seqs = r.seqs /\ c.ranks = r.ranks
  BY <1>2 DEF AreaType
<1> HIDE DEF c
<1>5. /\ b \in AreaType
      /\ b.items = a.items /\ b.dtos = a.dtos /\ b.selected = a.selected /\ b.calls = a.calls
      /\ b.forgotten = a.forgotten /\ b.lost = a.lost /\ b.seqs = r.seqs /\ b.ranks = r.ranks
  BY <1>2, <1>3, <1>4 DEF AreaType
<1>6. ASSUME NEW x \in ItemType, Remembers(a, x) PROVE Remembers(b, x)
  <2>1. /\ x.id \in Items /\ x.seq \in Int /\ Rank(x.status) \in Int
        /\ a.seqs[x.id] \in Int /\ a.ranks[x.id] \in Int /\ b.seqs[x.id] \in Int /\ b.ranks[x.id] \in Int
    <3>1. x.id \in Items /\ x.seq \in Int /\ Rank(x.status) \in Int
      BY RankIs DEF ItemType
    <3>2. /\ a.seqs \in [Items -> Int] /\ a.ranks \in [Items -> Int]
          /\ b.seqs \in [Items -> Int] /\ b.ranks \in [Items -> Int]
      BY <1>1, <1>5 DEF AreaType
    <3>3. QED BY <3>1, <3>2
  <2>2. b.seqs[x.id] >= a.seqs[x.id] /\ b.ranks[x.id] >= a.ranks[x.id]
    BY <1>2, <1>5, <2>1
  <2>3. QED BY <1>6, <2>1, <2>2 DEF Remembers
<1>7. Newest(b) = Newest(a) /\ \A x : AwaitsImages(b, x) <=> AwaitsImages(a, x)
  BY <1>5 DEF Newest, AwaitsImages
<1>8. BaseOK(b, own)
  <2>1. \A n \in DOMAIN a.items : a.items[n] \in ItemType
    BY DEF AreaOK, BaseOK, ShownOK, ShowableOK, ListOK
  <2>2. ShownOK(b, own)
    BY <1>5, <1>6, <2>1 DEF AreaOK, BaseOK, ShownOK
  <2>3. QED BY <1>5, <2>2 DEF AreaOK, BaseOK
<1>9. ASSUME NEW q \in Newest(a) PROVE NewestOK(b, q, own, disc, miss)
  <2>1. \A n \in DOMAIN q.list : q.list[n] \in ItemType
    BY DEF AreaOK, BaseOK, Newest, ShowableOK, ListOK
  <2>2. NewestOK(a, q, own, disc, miss)
    BY DEF AreaOK
  <2>3. \A n \in DOMAIN q.list : Remembers(b, q.list[n])
    BY <1>6, <2>1, <2>2 DEF NewestOK
  <2>4. QED BY <1>5, <1>7, <2>2, <2>3 DEF NewestOK, HasImages
<1>10. RestOK(a, miss) => RestOK(b, miss)
  BY <1>5, <1>7 DEF RestOK, HasImages
<1>11. QED BY <1>5, <1>7, <1>8, <1>9, <1>10 DEF AreaOK, b

LEMMA OnStatusSteps == IInv /\ OnQueueItemStatusChanged => Stepped
<1> SUFFICES ASSUME IInv, OnQueueItemStatusChanged PROVE Stepped
  OBVIOUS
<1> DEFINE own == Own(srv, app.session)
           e == Head(wire)
           patched == IF e.dest = app.session THEN Patched(query, e) ELSE query
           a == Dispatched(area, query, patched)
           b == Dispatched(a, patched, Invalidated(patched))
           c == IF e.id \in finished THEN area ELSE b
           list == CanvasQueueItems(patched, app.discarded)
<1>1. /\ wire # <<>> /\ e.kind = "queue_item_status_changed" /\ wire' = Tail(wire)
      /\ query' = IF e.id \in finished THEN query ELSE Invalidated(patched)
      /\ finished' = IF e.status \in Terminal THEN finished \cup {e.id} ELSE finished
      /\ area' = IF e.dest = app.session THEN onQueueItemStatusChangedEvent(c, e, app.mode) ELSE c
      /\ srv' = srv /\ app' = app /\ missed' = missed
  BY DEF OnQueueItemStatusChanged
<1>2. e \in MessageType /\ e.id \in Items /\ Dated(e.status, e.seq)
  BY <1>1, Received DEF MessageOK
<1> HIDE DEF e
<1>3. QueryOK(patched, own)
  BY <1>2, QueryIs, PatchedOK
<1> HIDE DEF patched
<1>4. QueryOK(Invalidated(patched), own) /\ Invalidated(patched).data = patched.data
  BY <1>3, InvalidatedOK
<1>5. CanvasQueueItems(Invalidated(patched), app.discarded) = list
  BY <1>4 DEF CanvasQueueItems
<1>6. AreaOK(a, own, app.discarded, missed) /\ Shows(area, a, list)
  BY <1>3, QueryIs, DispatchedOK
<1> HIDE DEF a
<1>7. AreaOK(b, own, app.discarded, missed) /\ Shows(a, b, list)
  BY <1>4, <1>5, <1>6, DispatchedOK
<1> HIDE DEF b
<1>8. Shows(area, b, list)
  BY <1>6, <1>7, QueryIs, ShowsTwice DEF AreaOK
<1>9. Kept(area, b, app.discarded)
  BY <1>3, <1>8, ShowsKept DEF QueryOK
<1>10. AreaOK(c, own, app.discarded, missed) /\ Kept(area, c, app.discarded)
  BY <1>7, <1>9, QueryIs, SameItemsKept
<1> HIDE DEF c
<1>11. AreaOK(area', own, app.discarded, missed) /\ area'.items = c.items
  BY <1>1, <1>2, <1>10, StatusEventIs
<1>12. Kept(area, area', app.discarded)
  BY <1>10, <1>11 DEF Kept
<1>13. finished' \subseteq Items
  BY <1>1, <1>2 DEF IInv, World
<1>14. World'
  BY <1>1, <1>13, Received DEF IInv, World
<1>15. QueryOK(query', own)
  BY <1>1, <1>4, QueryIs
<1>16. QED BY <1>1, <1>11, <1>12, <1>14, <1>15 DEF Stepped, IInv

-------------------------------------------------------------------------------
(* Images that arrive.                                                     *)

\* The more images could not be had, the less is asked.
LEMMA MissedGrows ==
    ASSUME NEW miss, NEW more, miss \subseteq more, NEW own, NEW disc, NEW a, AreaOK(a, own, disc, miss)
    PROVE  AreaOK(a, own, disc, more)
<1>1. \A x : HasImages(a, x, miss) => HasImages(a, x, more)
  BY DEF HasImages
<1>2. \A c \in Newest(a) : NewestOK(a, c, own, disc, more)
  BY <1>1 DEF AreaOK, NewestOK
<1>3. RestOK(a, miss) => RestOK(a, more)
  BY <1>1 DEF RestOK
<1>4. QED BY <1>2, <1>3 DEF AreaOK

\* Images for the item i: the api a has k of its images.
WithImages(a, i, k) == [a EXCEPT !.dtos[i] = Max({@, k})]

LEMMA WithImagesIs ==
    ASSUME NEW a \in AreaType, \A j \in Items : a.dtos[j] <= Outputs[j],
           NEW i \in Items, NEW k \in 0 .. Outputs[i]
    PROVE  LET b == WithImages(a, i, k)
           IN  /\ b \in AreaType /\ b.items = a.items /\ b.selected = a.selected
               /\ b.lastStarted = a.lastStarted /\ b.lost = a.lost
               /\ b.seqs = a.seqs /\ b.ranks = a.ranks /\ b.calls = a.calls
               /\ b.forgotten = a.forgotten
               /\ \A j \in Items : b.dtos[j] <= Outputs[j] /\ (j # i => b.dtos[j] = a.dtos[j])
               /\ k = Outputs[i] => b.dtos[i] = Outputs[i]
               /\ k = 0 => b = a
<1> DEFINE b == WithImages(a, i, k)
           n == Max({a.dtos[i], k})
<1>1. /\ a.dtos \in [Items -> Nat] /\ Outputs \in [Items -> Nat \ {0}] /\ k \in Nat
      /\ a.dtos[i] <= Outputs[i]
  BY StagingAssumption DEF AreaType, StagingAssumption
<1>2. n = IF a.dtos[i] >= k THEN a.dtos[i] ELSE k
  BY <1>1, MaxOfTwo
<1>3. n \in Nat /\ n <= Outputs[i] /\ (k = Outputs[i] => n = Outputs[i]) /\ (k = 0 => n = a.dtos[i])
  BY <1>1, <1>2
<1>4. b = [a EXCEPT !.dtos[i] = n]
  BY DEF WithImages
<1> HIDE DEF n, b
<1>5. /\ b \in AreaType /\ b.items = a.items /\ b.selected = a.selected
      /\ b.lastStarted = a.lastStarted /\ b.lost = a.lost
      /\ b.seqs = a.seqs /\ b.ranks = a.ranks /\ b.calls = a.calls
      /\ b.forgotten = a.forgotten /\ b.dtos = [a.dtos EXCEPT ![i] = n]
  BY <1>1, <1>3, <1>4 DEF AreaType
<1>6. \A j \in Items : b.dtos[j] = IF j = i THEN n ELSE a.dtos[j]
  BY <1>1, <1>5
<1>7. k = 0 => b = a
  <2>1. n = a.dtos[i] => [a.dtos EXCEPT ![i] = n] = a.dtos
    BY <1>1
  <2>2. b = [a EXCEPT !.dtos = [a.dtos EXCEPT ![i] = n]]
    BY <1>4
  <2>3. [a EXCEPT !.dtos = a.dtos] = a
    BY DEF AreaType
  <2>4. QED BY <1>3, <2>1, <2>2, <2>3
<1>8. QED BY <1>1, <1>3, <1>5, <1>6, <1>7 DEF b

LEMMA WithoutCall ==
    ASSUME NEW a \in AreaType, NEW c
    PROVE  LET b == [a EXCEPT !.calls = @ \ {c}]
           IN  /\ b \in AreaType /\ b.calls = a.calls \ {c} /\ b.items = a.items /\ b.dtos = a.dtos
               /\ b.seqs = a.seqs /\ b.ranks = a.ranks /\ b.forgotten = a.forgotten
               /\ b.lost = a.lost /\ b.selected = a.selected /\ b.lastStarted = a.lastStarted
BY DEF AreaType

\* The selection is moved only off an item that is gone, or to one that auto-switch
\* follows.
LEMMA LoopingSelects ==
    ASSUME NEW a \in AreaType, NEW c \in CallType, ShowableOK(c.list), NEW n \in Nat \ {0}, NEW mode
    PROVE  LET b == Looping(a, c, n, mode)
           IN  \/ b.selected = a.selected
               \/ a.selected \notin Ids(b.items)
               \/ mode = "switch_on_start" /\ b.selected = a.lastStarted
<1> DEFINE b == Looping(a, c, n, mode)
<1>1. PICK d \in AreaType :
        /\ Alike(a, d) /\ d.lost = a.lost
        /\ \/ d.selected = a.selected
           \/ /\ mode = "switch_on_start" /\ a.lastStarted \in Ids(c.list)
              /\ d.selected = a.lastStarted
        /\ \/ \E k \in n .. Len(c.list) :
                /\ \A m \in n .. k - 1 : ~AwaitsImages(a, c.list[m])
                /\ b = [d EXCEPT !.calls = @ \cup {[c EXCEPT !.at = k]}]
           \/ /\ \A m \in n .. Len(c.list) : ~AwaitsImages(a, c.list[m])
              /\ b = Finishing(d, c)
  BY LoopingStops DEF Stops
<1> HIDE DEF b
<1>2. ASSUME NEW k \in n .. Len(c.list), b = [d EXCEPT !.calls = @ \cup {[c EXCEPT !.at = k]}]
      PROVE  b.selected = d.selected
  BY <1>2 DEF AreaType
<1>3. CASE b = Finishing(d, c) /\ c.stale
  <2>1. b = d
    BY <1>3 DEF Finishing
  <2>2. QED BY <1>1, <2>1 DEF b
<1>4. CASE b = Finishing(d, c) /\ ~c.stale
  <2> DEFINE r == Reselect(d, c)
  <2>1. /\ r \in AreaType /\ (d.selected \in Ids(c.list) => r = d)
        /\ r.selected = d.selected \/ d.selected \notin Ids(c.list)
    BY ReselectIs DEF Alike
  <2> HIDE DEF r
  <2>2. b = [r EXCEPT !.items = c.list, !.forgotten = {}]
    BY <1>4 DEF Finishing, r
  <2>3. b.selected = r.selected /\ b.items = c.list
    BY <2>1, <2>2 DEF AreaType
  <2>4. QED BY <1>1, <2>1, <2>3 DEF b
<1>5. QED BY <1>1, <1>2, <1>3, <1>4 DEF b

\* A call of the api a gets k of the images it waits for.
LEMMA ArrivingOK ==
    ASSUME NEW a, NEW own, NEW disc, NEW miss, AreaOK(a, own, disc, miss), NEW c \in a.calls,
           NEW i, i = c.list[c.at].id, NEW k \in 0 .. Outputs[i], NEW more,
           more = (IF k = Outputs[i] THEN miss ELSE miss \cup {i}), NEW mode
    PROVE  LET b == Arriving(a, c, k, mode)
           IN  /\ AreaOK(b, own, disc, more) /\ Kept(a, b, disc)
               /\ \/ b.selected = a.selected
                  \/ a.selected \notin Ids(b.items)
                  \/ mode = "switch_on_start" /\ b.selected = a.lastStarted
<1> DEFINE b == Arriving(a, c, k, mode)
           w == [a EXCEPT !.calls = @ \ {c}]
           x == WithImages(w, i, k)
           y == Looping(x, c, c.at + 1, mode)
<1>1. /\ a \in AreaType /\ BaseOK(a, own) /\ c \in CallType /\ ShowableOK(c.list) /\ c.at \in DOMAIN c.list
      /\ AreaOK(a, own, disc, more) /\ miss \subseteq more
  BY MissedGrows DEF AreaOK, BaseOK, AreaType
<1>2. /\ c.list \in Seq(ItemType) /\ DOMAIN c.list = 1 .. Len(c.list) /\ Len(c.list) \in Nat
      /\ c.at \in Nat \ {0} /\ c.at + 1 \in Nat \ {0} /\ i \in Items
      /\ \A n \in DOMAIN c.list : c.list[n] \in ItemType
  BY <1>1, IdsOfItems DEF ShowableOK, ListOK
<1>3. /\ w \in AreaType /\ w.calls = a.calls \ {c} /\ w.items = a.items /\ w.dtos = a.dtos
      /\ w.seqs = a.seqs /\ w.ranks = a.ranks /\ w.forgotten = a.forgotten
      /\ w.lost = a.lost /\ w.selected = a.selected /\ w.lastStarted = a.lastStarted
  BY <1>1, WithoutCall
<1>4. b = IF k > 0 /\ c.stale THEN w ELSE y
  BY DEF Arriving, WithImages
<1> HIDE DEF w, b
<1>5. Newest(w) = Newest(a) \ {c}
  BY <1>3 DEF Newest
<1>6. BaseOK(w, own)
  BY <1>1, <1>3 DEF BaseOK, ShownOK, Remembers
<1>7. /\ x \in AreaType /\ x.items = w.items /\ x.selected = w.selected
      /\ x.lastStarted = w.lastStarted /\ x.lost = w.lost
      /\ x.seqs = w.seqs /\ x.ranks = w.ranks /\ x.calls = w.calls /\ x.forgotten = w.forgotten
      /\ \A j \in Items : x.dtos[j] <= Outputs[j] /\ (j # i => x.dtos[j] = w.dtos[j])
      /\ k = Outputs[i] => x.dtos[i] = Outputs[i]
      /\ k = 0 => x = w
  BY <1>2, <1>6, WithImagesIs DEF BaseOK
<1> HIDE DEF x
<1>8. BaseOK(x, own) /\ Newest(x) = Newest(w)
  BY <1>6, <1>7 DEF BaseOK, ShownOK, Remembers, Newest
<1>9. \/ y.selected = a.selected
      \/ a.selected \notin Ids(y.items)
      \/ mode = "switch_on_start" /\ y.selected = a.lastStarted
  BY <1>1, <1>2, <1>3, <1>7, LoopingSelects
<1> HIDE DEF y
<1>10. CASE k > 0 /\ c.stale
  <2>1. b = w /\ Newest(b) = Newest(a)
    BY <1>4, <1>5, <1>10 DEF Newest
  <2>2. \A q \in Newest(a) : NewestOK(w, q, own, disc, more)
    BY <1>1, <1>3 DEF AreaOK, NewestOK, Remembers, HasImages, AwaitsImages
  <2>3. RestOK(a, more) => RestOK(w, more)
    BY <1>3 DEF RestOK, HasImages, AwaitsImages
  <2>4. AreaOK(b, own, disc, more)
    BY <1>1, <1>6, <2>1, <2>2, <2>3 DEF AreaOK
  <2>5. Kept(a, b, disc)
    BY <1>1, <1>3, <2>1, SameItemsKept
  <2>6. QED BY <1>3, <2>1, <2>4, <2>5 DEF b
<1>11. CASE k = 0 /\ c.stale
  <2>1. b = y /\ x = w
    BY <1>4, <1>7, <1>11
  <2>2. BaseOK(y, own) /\ SameShown(x, y) /\ Newest(y) = Newest(x)
    BY <1>1, <1>2, <1>8, <1>11, StaleLoops DEF y
  <2>3. Newest(b) = Newest(a)
    BY <1>5, <1>11, <2>1, <2>2 DEF Newest
  <2>4. /\ b.items = a.items /\ b.dtos = a.dtos /\ b.seqs = a.seqs /\ b.ranks = a.ranks
        /\ b.forgotten = a.forgotten /\ (a.selected # None => b.selected # None)
    BY <1>3, <2>1, <2>2 DEF SameShown
  <2>5. more # {}
    BY <1>2, <1>11, StagingAssumption DEF StagingAssumption
  <2>6. \A q \in Newest(a) : NewestOK(b, q, own, disc, more)
    BY <1>1, <2>4 DEF AreaOK, NewestOK, Remembers, HasImages, AwaitsImages
  <2>7. RestOK(a, more) => RestOK(b, more)
    BY <2>4, <2>5 DEF RestOK, HasImages, AwaitsImages
  <2>8. AreaOK(b, own, disc, more)
    BY <1>1, <2>1, <2>2, <2>3, <2>6, <2>7 DEF AreaOK
  <2>9. Kept(a, b, disc)
    BY <1>1, <2>4, SameItemsKept
  <2>10. QED BY <1>9, <2>1, <2>8, <2>9 DEF b
<1>12. CASE ~c.stale
  <2>1. b = y
    BY <1>4, <1>12
  <2>2. c \in Newest(a)
    BY <1>12 DEF Newest
  <2>3. NewestOK(a, c, own, disc, more) /\ Newest(x) = {}
    BY <1>1, <1>5, <1>8, <2>2 DEF AreaOK
  <2>4. Going(x, c, own, disc)
    BY <1>3, <1>7, <2>3 DEF NewestOK, Going, Remembers
  <2>5. ASSUME NEW m \in 1 .. (c.at + 1) - 1 PROVE HasImages(x, c.list[m], more)
    <3>1. CASE m = c.at
      <4>1. CASE k = Outputs[i]
        BY <1>7, <3>1, <4>1 DEF HasImages, AwaitsImages
      <4>2. CASE k # Outputs[i]
        BY <3>1, <4>2 DEF HasImages
      <4>3. QED BY <4>1, <4>2
    <3>2. CASE m # c.at
      <4>1. m \in 1 .. c.at - 1 /\ m \in DOMAIN c.list
        BY <1>1, <1>2, <3>2
      <4>2. c.list[m].id # i /\ c.list[m].id \in Items
        BY <1>1, <1>2, <3>2, <4>1, IdsOfItems DEF ShowableOK, ListOK
      <4>3. x.dtos[c.list[m].id] = a.dtos[c.list[m].id]
        BY <1>3, <1>7, <4>2
      <4>4. HasImages(a, c.list[m], more)
        BY <2>3, <4>1 DEF NewestOK
      <4>5. QED BY <4>3, <4>4 DEF HasImages, AwaitsImages
    <3>3. QED BY <3>1, <3>2
  <2>6. /\ AreaOK(y, own, disc, more)
        /\ \/ y.items = x.items /\ y.forgotten = x.forgotten
           \/ y.items = c.list /\ y.forgotten = {}
    BY <1>1, <1>2, <1>8, <1>12, <2>3, <2>4, <2>5, NewestLoops DEF y
  <2>7. Kept(a, b, disc)
    <3>1. CASE y.items = x.items
      BY <1>1, <1>3, <1>7, <2>1, <3>1, SameItemsKept
    <3>2. CASE y.items = c.list
      BY <2>1, <2>3, <3>2 DEF NewestOK, Kept
    <3>3. QED BY <2>6, <3>1, <3>2
  <2>8. QED BY <1>9, <2>1, <2>6, <2>7 DEF b
<1>13. QED BY <1>10, <1>11, <1>12, StagingAssumption DEF StagingAssumption

\* What a step that is not of the user's does with the selection.
SelectionKeptBy ==
    \/ area'.selected = area.selected
    \/ area.selected \notin Ids(area'.items)
    \/ app.mode = "switch_on_start" /\ area'.selected = area.lastStarted
    \/ app.mode = "switch_on_finish" /\ area'.selected = area.lastCompleted

LEMMA ImagesArriveSteps == IInv /\ ImagesArrive => Stepped /\ SelectionKeptBy
<1> SUFFICES ASSUME IInv, ImagesArrive PROVE Stepped /\ SelectionKeptBy
  OBVIOUS
<1>1. PICK c \in area.calls : \E k \in 0 .. Outputs[c.list[c.at].id] :
        /\ area' = Arriving(area, c, k, app.mode)
        /\ missed' = IF k = Outputs[c.list[c.at].id] THEN missed ELSE missed \cup {c.list[c.at].id}
  BY DEF ImagesArrive
<1> DEFINE i == c.list[c.at].id
<1>2. PICK k \in 0 .. Outputs[i] :
        /\ area' = Arriving(area, c, k, app.mode)
        /\ missed' = IF k = Outputs[i] THEN missed ELSE missed \cup {i}
  BY <1>1
<1>3. UNCHANGED <<srv, wire, finished, query, app>>
  BY DEF ImagesArrive
<1>4. i \in Items
  BY QueryIs, IdsOfItems DEF BaseOK, ShowableOK, ListOK
<1> HIDE DEF i
<1>5. /\ AreaOK(area', Own(srv, app.session), app.discarded, missed')
      /\ Kept(area, area', app.discarded)
      /\ \/ area'.selected = area.selected
         \/ area.selected \notin Ids(area'.items)
         \/ app.mode = "switch_on_start" /\ area'.selected = area.lastStarted
  BY <1>2, QueryIs, ArrivingOK DEF i
<1>6. World'
  BY <1>2, <1>3, <1>4 DEF IInv, World
<1>7. QED BY <1>3, <1>5, <1>6, QueryIs DEF Stepped, IInv, SelectionKeptBy

-------------------------------------------------------------------------------
(* The user's steps.                                                       *)

\* An item that is on show is selected.
LEMMA SelectingOK ==
    ASSUME NEW a, NEW own, NEW disc, NEW miss, AreaOK(a, own, disc, miss),
           NEW i \in Ids(a.items), NEW n \in Nat
    PROVE  /\ AreaOK(Selecting(a, i, n), own, disc, miss)
           /\ Alike(a, Selecting(a, i, n))
           /\ Selecting(a, i, n).selected = i /\ i \in Items
<1> DEFINE b == Selecting(a, i, n)
<1>1. a \in AreaType /\ BaseOK(a, own) /\ i \in Items /\ i # None
  BY IdsOfItems, IdsAreIds DEF AreaOK, BaseOK, ShownOK, ShowableOK, ListOK
<1>2. Alike(a, b) /\ b.selected = i /\ b.lost = a.lost
  BY <1>1, SelectingIs
<1> HIDE DEF b
<1>3. /\ BaseOK(b, own) /\ Newest(b) = Newest(a)
      /\ b.items = a.items /\ b.dtos = a.dtos /\ b.seqs = a.seqs /\ b.ranks = a.ranks
      /\ b.forgotten = a.forgotten
  BY <1>1, <1>2, AlikeKeeps DEF Alike
<1>4. \A c \in Newest(a) : NewestOK(b, c, own, disc, miss)
  BY <1>1, <1>2, <1>3 DEF AreaOK, NewestOK, Remembers, HasImages, AwaitsImages
<1>5. RestOK(a, miss) => RestOK(b, miss)
  BY <1>2, <1>3 DEF RestOK, HasImages, AwaitsImages
<1>6. QED BY <1>1, <1>2, <1>3, <1>4, <1>5 DEF AreaOK, b

\* The entries are of the items on show, each of which has one.
LEMMA EntriesAre ==
    ASSUME NEW a \in AreaType
    PROVE  LET e == Entries(a)
           IN  /\ e \in Seq(Ids(a.items) \X Nat)
               /\ \A i \in Ids(a.items) : \E n \in DOMAIN e : e[n][1] = i
<1> DEFINE N == Len(a.items)
           S == Ids(a.items) \X Nat
           top(n) == Max({1, a.dtos[a.items[n].id]})
           s == [n \in DOMAIN a.items |-> [k \in 1 .. top(n) |-> <<a.items[n].id, k - 1>>]]
           e == Entries(a)
<1>1. a.items \in Seq(ItemType) /\ N \in Nat /\ DOMAIN a.items = 1 .. N
  BY DEF AreaType
<1>2. e = FlattenSeq(s)
  BY DEF Entries
<1>3. ASSUME NEW n \in 1 .. N
      PROVE  /\ a.items[n].id \in Ids(a.items) /\ top(n) \in Nat /\ top(n) >= 1
  <2>1. a.items[n].id \in Ids(a.items) /\ a.items[n].id \in Items
    BY <1>1, IdsOfItems
  <2>2. a.dtos[a.items[n].id] \in Nat
    BY <2>1 DEF AreaType
  <2>3. QED BY <2>1, <2>2, MaxOfTwo
<1> HIDE DEF top
<1>4. ASSUME NEW n \in 1 .. N
      PROVE  /\ s[n] = [k \in 1 .. top(n) |-> <<a.items[n].id, k - 1>>]
             /\ s[n] \in Seq(S) /\ DOMAIN s[n] = 1 .. top(n)
  <2>1. s[n] = [k \in 1 .. top(n) |-> <<a.items[n].id, k - 1>>]
    BY <1>1
  <2> HIDE DEF s
  <2>2. \A k \in 1 .. top(n) : <<a.items[n].id, k - 1>> \in S
    BY <1>3
  <2> HIDE DEF S
  <2>3. s[n] \in [1 .. top(n) -> S]
    BY <2>1, <2>2
  <2>4. DOMAIN s[n] = 1 .. top(n)
    BY <2>1, Zenon
  <2>5. s[n] \in Seq(S)
    BY <1>3, <2>3, SeqDef
  <2>6. QED BY <2>1, <2>4, <2>5, Zenon
<1>5. s \in [1 .. N -> Seq(S)]
  <2>1. s = [n \in 1 .. N |-> s[n]]
    BY <1>1
  <2> HIDE DEF s, S
  <2>2. QED BY <1>4, <2>1
<1> HIDE DEF s, e
<1>6. e \in Seq(S) /\ LaidOut(e, s, N) /\ DOMAIN e = 1 .. Len(e)
  <2> HIDE DEF S
  <2>1. N \in Nat
    BY <1>1
  <2>2. FlattenSeq(s) \in Seq(S) /\ LaidOut(FlattenSeq(s), s, N)
    BY ONLY <1>5, <2>1, Flattened
  <2>3. QED BY <1>2, <2>2
<1>7. ASSUME NEW i \in Ids(a.items) PROVE \E n \in DOMAIN e : e[n][1] = i
  <2>1. PICK m \in 1 .. N : a.items[m].id = i
    BY <1>1, IdsAre
  <2>2. 1 \in DOMAIN s[m] /\ s[m][1] = <<i, 1 - 1>>
    <3>1. s[m] = [k \in 1 .. top(m) |-> <<a.items[m].id, k - 1>>] /\ DOMAIN s[m] = 1 .. top(m)
      BY <1>4, Zenon
    <3>2. 1 \in 1 .. top(m)
      BY <1>3
    <3>3. s[m][1] = <<a.items[m].id, 1 - 1>>
      BY <3>1, <3>2, Zenon
    <3>4. QED BY <2>1, <3>1, <3>2, <3>3, Zenon
  <2>3. PICK n \in 1 .. Len(e) : e[n] = s[m][1]
    <3>1. PICK p \in [1 .. Len(e) -> (1 .. N) \X Nat] :
            /\ \A j \in 1 .. Len(e) : p[j][2] \in DOMAIN s[p[j][1]] /\ e[j] = s[p[j][1]][p[j][2]]
            /\ \A q \in 1 .. N : \A k \in DOMAIN s[q] : \E j \in 1 .. Len(e) : p[j] = <<q, k>>
      BY <1>6 DEF LaidOut
    <3>2. PICK j \in 1 .. Len(e) : p[j] = <<m, 1>>
      BY <2>2, <3>1
    <3>3. p[j][1] = m /\ p[j][2] = 1
      BY <3>2
    <3>4. QED BY <3>1, <3>3
  <2>4. QED BY <1>6, <2>2, <2>3
<1>8. QED BY <1>6, <1>7 DEF e

LEMMA SelectedIndexIs ==
    ASSUME NEW a \in AreaType
    PROVE  /\ SelectedIndex(a) \in 0 .. Len(Entries(a))
           /\ SelectedIndex(a) # 0 <=> a.selected \in Ids(a.items)
<1> DEFINE e == Entries(a)
           own == {n \in DOMAIN e : e[n][1] = a.selected}
           exact == {n \in own : e[n][2] = a.image}
<1>1. /\ e \in Seq(Ids(a.items) \X Nat) /\ DOMAIN e = 1 .. Len(e) /\ Len(e) \in Nat
      /\ \A i \in Ids(a.items) : \E n \in DOMAIN e : e[n][1] = i
  <2>1. e \in Seq(Ids(a.items) \X Nat) /\ \A i \in Ids(a.items) : \E n \in DOMAIN e : e[n][1] = i
    BY EntriesAre
  <2> HIDE DEF e
  <2>2. QED BY <2>1
<1> HIDE DEF e
<1>2. \A n \in DOMAIN e : e[n][1] \in Ids(a.items)
  BY <1>1
<1>3. own # {} <=> a.selected \in Ids(a.items)
  BY <1>1, <1>2
<1>4. own \in SUBSET (1 .. Len(e)) /\ exact \in SUBSET (1 .. Len(e))
  BY <1>1
<1>5. SelectedIndex(a) = IF own = {} THEN 0 ELSE IF exact # {} THEN Min(exact) ELSE Min(own)
  BY DEF SelectedIndex, SelectedAmong, e
<1> HIDE DEF own, exact
<1>6. \A T \in SUBSET (1 .. Len(e)) : T # {} => Min(T) \in T
  <2>1. \A T \in SUBSET (1 .. Len(e)) : T \in SUBSET Nat
    OBVIOUS
  <2>2. QED BY <2>1, MinIs
<1>7. own # {} => SelectedIndex(a) \in 1 .. Len(e)
  BY <1>4, <1>5, <1>6
<1>8. own = {} => SelectedIndex(a) = 0
  BY <1>5
<1>9. QED BY <1>1, <1>3, <1>7, <1>8 DEF e

\* Steps that select an item on show.
LEMMA SelectionSteps ==
    ASSUME IInv, NEW i \in Ids(area.items), NEW n \in Nat,
           area' \in {Selecting(area, i, n), [Selecting(area, i, n) EXCEPT !.lastCompleted = None]},
           UNCHANGED <<srv, wire, finished, query, app, missed>>
    PROVE  Stepped /\ area'.selected = i
<1> DEFINE own == Own(srv, app.session)
           b == Selecting(area, i, n)
<1>1. AreaOK(b, own, app.discarded, missed) /\ Alike(area, b) /\ b.selected = i
  BY QueryIs, SelectingOK
<1> HIDE DEF b
<1>2. b \in AreaType
  BY <1>1 DEF Alike
<1>3. area' \in AreaType /\ Alike(b, area') /\ area'.selected = b.selected /\ area'.lost = b.lost
  BY <1>2 DEF AreaType, Alike, b
<1>4. /\ area'.items = b.items /\ area'.dtos = b.dtos /\ area'.seqs = b.seqs /\ area'.ranks = b.ranks
      /\ area'.forgotten = b.forgotten
  BY <1>3 DEF Alike
<1>5. BaseOK(area', own) /\ Newest(area') = Newest(b)
  BY <1>1, <1>3, AlikeKeeps DEF AreaOK
<1>6. \A c \in Newest(b) : NewestOK(area', c, own, app.discarded, missed)
  BY <1>1, <1>3, <1>4 DEF AreaOK, NewestOK, Remembers, HasImages, AwaitsImages
<1>7. RestOK(b, missed) => RestOK(area', missed)
  BY <1>3, <1>4 DEF RestOK, HasImages, AwaitsImages
<1>8. AreaOK(area', own, app.discarded, missed)
  BY <1>1, <1>5, <1>6, <1>7 DEF AreaOK
<1>9. Kept(area, area', app.discarded)
  BY <1>1, <1>4, QueryIs, SameItemsKept DEF Alike
<1>10. World'
  BY DEF IInv, World
<1>11. QED BY <1>1, <1>3, <1>8, <1>9, <1>10, QueryIs DEF Stepped, IInv

LEMMA onImageLoadedSteps == IInv /\ onImageLoaded => Stepped /\ SelectionKeptBy
<1> SUFFICES ASSUME IInv, onImageLoaded PROVE Stepped /\ SelectionKeptBy
  OBVIOUS
<1>1. PICK i \in Ids(area.items) :
        /\ area.lastCompleted = i /\ app.mode = "switch_on_finish"
        /\ area' = [Selecting(area, i, 0) EXCEPT !.lastCompleted = None]
  BY DEF onImageLoaded
<1>2. UNCHANGED <<srv, wire, finished, query, app, missed>>
  BY DEF onImageLoaded
<1>3. Stepped /\ area'.selected = i
  BY <1>1, <1>2, SelectionSteps
<1>4. QED BY <1>1, <1>3 DEF SelectionKeptBy

LEMMA EntryStep ==
    ASSUME IInv, NEW n \in DOMAIN Entries(area), Step(Entries(area), n)
    PROVE  Stepped
<1> DEFINE e == Entries(area)
<1>1. e \in Seq(Ids(area.items) \X Nat)
  BY QueryIs, EntriesAre
<1> HIDE DEF e
<1>2. e[n] \in Ids(area.items) \X Nat
  BY <1>1 DEF e
<1>3. e[n][1] \in Ids(area.items) /\ e[n][2] \in Nat
  BY <1>2
<1>4. area' = Selecting(area, e[n][1], e[n][2]) /\ UNCHANGED <<srv, wire, finished, query, app, missed>>
  BY DEF Step, ChangeSelection, e
<1>5. QED BY <1>3, <1>4, SelectionSteps

LEMMA UserSelects == IInv /\ (select \/ selectNext \/ selectPrev \/ selectFirst \/ selectLast) => Stepped
<1> DEFINE e == Entries(area)
           k == SelectedAmong(e, area)
<1> SUFFICES ASSUME IInv, select \/ selectNext \/ selectPrev \/ selectFirst \/ selectLast
             PROVE  \E n \in DOMAIN e : Step(e, n)
  BY EntryStep
<1>1. e \in Seq(Ids(area.items) \X Nat) /\ k \in 0 .. Len(e)
  BY QueryIs, EntriesAre, SelectedIndexIs DEF SelectedIndex
<1>2. CASE select
  BY <1>2 DEF select
<1>3. CASE selectNext
  <2>1. Len(e) > 1 /\ Step(e, (k % Len(e)) + 1)
    BY <1>3 DEF selectNext
  <2> HIDE DEF e, k
  <2>2. (k % Len(e)) + 1 \in 1 .. Len(e)
    BY <1>1, <2>1
  <2>3. QED BY <1>1, <2>1, <2>2
<1>4. CASE selectPrev
  <2>1. k # 0 /\ Len(e) > 1 /\ Step(e, ((k + Len(e) - 2) % Len(e)) + 1)
    BY <1>4 DEF selectPrev
  <2> HIDE DEF e, k
  <2>2. ((k + Len(e) - 2) % Len(e)) + 1 \in 1 .. Len(e)
    BY <1>1, <2>1
  <2>3. QED BY <1>1, <2>1, <2>2
<1>5. CASE selectFirst
  <2>1. e # <<>> /\ Step(e, 1)
    BY <1>5 DEF selectFirst
  <2> HIDE DEF e, k
  <2>2. QED BY <1>1, <2>1
<1>6. CASE selectLast
  <2>1. e # <<>> /\ Step(e, Len(e))
    BY <1>6 DEF selectLast
  <2> HIDE DEF e, k
  <2>2. QED BY <1>1, <2>1
<1>7. QED BY <1>2, <1>3, <1>4, <1>5, <1>6

LEMMA setAutoSwitchSteps == IInv /\ setAutoSwitch => Stepped
<1> SUFFICES ASSUME IInv, setAutoSwitch PROVE Stepped
  OBVIOUS
<1>1. PICK m \in Modes : app' = [app EXCEPT !.mode = m]
  BY DEF setAutoSwitch
<1>2. UNCHANGED <<srv, wire, finished, query, area, missed>>
  BY DEF setAutoSwitch
<1>3. /\ app' \in [session : 1 .. MaxSessions, discarded : SUBSET Items, mode : Modes]
      /\ app'.session = app.session /\ app'.discarded = app.discarded
  BY <1>1 DEF IInv, World
<1>4. World'
  BY <1>2, <1>3 DEF IInv, World
<1>5. QED BY <1>2, <1>3, <1>4, QueryIs, AreaAsItIs

-------------------------------------------------------------------------------
(* The end of a session.                                                   *)

\* Nothing is on show, and the calls that wait are stale.
LEMMA EmptyAreaIs ==
    ASSUME NEW calls \in SUBSET CallType,
           \A c \in calls : c.stale /\ ShowableOK(c.list) /\ c.at \in DOMAIN c.list,
           NEW own, NEW disc, NEW miss
    PROVE  AreaOK([EmptyArea EXCEPT !.calls = calls], own, disc, miss)
<1> DEFINE a == [EmptyArea EXCEPT !.calls = calls]
           zero == [i \in Items |-> 0]
           unseen == [i \in Items |-> Undefined]
           empty == [items |-> <<>>, dtos |-> zero, selected |-> None, image |-> 0,
                     lastStarted |-> None, lastCompleted |-> None, seqs |-> unseen, ranks |-> unseen,
                     calls |-> {}, forgotten |-> {}, lost |-> FALSE]
<1>1. zero \in [Items -> Nat] /\ unseen \in [Items -> Int] /\ <<>> \in Seq(ItemType)
  BY DEF Undefined
<1>2. \A i \in Items : zero[i] <= Outputs[i]
  BY StagingAssumption DEF StagingAssumption
<1>3. EmptyArea = empty
  BY Zenon DEF EmptyArea
<1>4. /\ a \in AreaType /\ a.items = <<>> /\ a.dtos = zero /\ a.selected = None
      /\ a.calls = calls /\ a.forgotten = {} /\ a.lost = FALSE
  <2> HIDE DEF zero, unseen
  <2>1. /\ empty \in AreaType /\ empty.items = <<>> /\ empty.dtos = zero /\ empty.selected = None
        /\ empty.forgotten = {} /\ empty.lost = FALSE
    BY <1>1 DEF AreaType
  <2> HIDE DEF empty
  <2>2. a = [empty EXCEPT !.calls = calls]
    BY <1>3, Zenon
  <2> HIDE DEF a
  <2>3. QED BY <2>1, <2>2 DEF AreaType
<1> HIDE DEF zero, unseen
<1> HIDE DEF a
<1>5. DOMAIN a.items = {}
  BY <1>4
<1>6. ShownOK(a, own)
  BY <1>4, <1>5, EmptyList DEF ShownOK
<1>7. Newest(a) = {}
  BY <1>4 DEF Newest
<1>8. BaseOK(a, own)
  BY <1>2, <1>4, <1>6 DEF BaseOK
<1>9. RestOK(a, miss)
  BY <1>4, <1>5 DEF RestOK
<1>10. QED BY <1>7, <1>8, <1>9 DEF AreaOK, a

LEMMA ResetSteps ==
    ASSUME IInv, NEW a, BaseOK(a, Own(srv, app.session)), ResetSession(a)
    PROVE  Stepped
<1> DEFINE own == Own(srv, app.session)
           b == Notified(a, query, {})
<1>1. /\ app.session < MaxSessions
      /\ app' = [app EXCEPT !.session = @ + 1, !.discarded = {}]
      /\ query' = NewQuery
      /\ area' = cleanup(b)
      /\ UNCHANGED <<srv, wire, finished, missed>>
  BY DEF ResetSession
<1>2. AreaOK(b, own, {}, missed)
  BY QueryIs, NotifiedOK
<1> HIDE DEF b
<1>3. b \in AreaType /\ \A c \in b.calls : ShowableOK(c.list) /\ c.at \in DOMAIN c.list
  BY <1>2 DEF AreaOK, BaseOK
<1>4. /\ Overtaking(b) \in AreaType /\ Newest(Overtaking(b)) = {}
      /\ \A c \in Overtaking(b).calls : ShowableOK(c.list) /\ c.at \in DOMAIN c.list
  BY <1>3, OvertakingIs
<1> DEFINE calls == Overtaking(b).calls
<1>5. calls \in SUBSET CallType /\ \A c \in calls : c.stale /\ ShowableOK(c.list) /\ c.at \in DOMAIN c.list
  BY <1>4 DEF AreaType, Newest
<1>6. area' = [EmptyArea EXCEPT !.calls = calls]
  BY <1>1 DEF cleanup
<1> HIDE DEF calls
<1>7. AreaOK(area', Own(srv', app'.session), app'.discarded, missed')
  BY <1>5, <1>6, EmptyAreaIs
<1>8. /\ app' \in [session : 1 .. MaxSessions, discarded : SUBSET Items, mode : Modes]
      /\ app'.session # app.session
  <2> DEFINE s == app.session + 1
  <2>1. s \in 1 .. MaxSessions /\ s # app.session
    BY <1>1, AppIs
  <2>2. app' = [app EXCEPT !.session = s, !.discarded = {}]
    BY <1>1
  <2> HIDE DEF s
  <2>3. QED BY <2>1, <2>2 DEF IInv, World
<1>9. World'
  BY <1>1, <1>8 DEF IInv, World
<1>10. QueryOK(query', Own(srv', app'.session))
  <2>1. NewQuery \in QueryType /\ NewQuery.data = <<>> /\ NewQuery.answer = <<>>
    BY DEF NewQuery, QueryType
  <2>2. QED BY <1>1, <2>1, EmptyList DEF QueryOK, ShowableOK
<1>11. QED BY <1>7, <1>8, <1>9, <1>10 DEF Stepped, IInv

LEMMA discardAllSteps == IInv /\ discardAll => Stepped
<1> SUFFICES ASSUME IInv, discardAll PROVE Stepped
  OBVIOUS
<1>1. Alike(area, Selecting(area, None, 0))
  BY QueryIs, SelectingIs
<1>2. BaseOK(Selecting(area, None, 0), Own(srv, app.session))
  BY <1>1, QueryIs, AlikeKeeps
<1>3. QED BY <1>2, ResetSteps DEF discardAll

LEMMA acceptSelectedSteps == IInv /\ acceptSelected => Stepped
BY QueryIs, ResetSteps DEF acceptSelected

LEMMA discardSelectedSteps == IInv /\ discardSelected => Stepped
<1> SUFFICES ASSUME IInv, discardSelected PROVE Stepped
  OBVIOUS
<1> DEFINE own == Own(srv, app.session)
           i == area.selected
           k == IndexIn(area.items, i)
           next == area.items[Min({k + 1, Len(area.items)})].id
           discarded == app.discarded \cup {i}
           b == Selecting(area, next, 0)
           a == IF i \in app.discarded THEN b ELSE Notified(b, query, discarded)
<1>1. area \in AreaType /\ area.items \in Seq(ItemType) /\ i \in Ids(area.items)
  BY QueryIs, SelectedIndexIs DEF discardSelected, AreaType
<1>2. next \in Ids(area.items)
  <2>1. k \in 1 .. Len(area.items) /\ Len(area.items) \in Nat
    BY <1>1, IndexInIs
  <2> HIDE DEF k
  <2> DEFINE n == Min({k + 1, Len(area.items)})
  <2>2. n \in DOMAIN area.items
    BY <1>1, <2>1, MinOfTwo
  <2> HIDE DEF n
  <2>3. area.items[n].id \in Ids(area.items)
    BY <1>1, <2>2, IdsOfItems
  <2>4. QED BY <2>3 DEF n
<1> HIDE DEF next
<1>3. AreaOK(b, own, app.discarded, missed) /\ Alike(area, b)
  BY <1>2, QueryIs, SelectingOK
<1>4. i \in Items
  BY <1>1, IdsOfItems
<1>5. IF CanvasQueueItems(query, discarded) = <<>> THEN ResetSession(a)
      ELSE /\ app' = [app EXCEPT !.discarded = discarded]
           /\ area' = a
           /\ UNCHANGED <<srv, wire, finished, query, missed>>
  BY DEF discardSelected, next
<1> HIDE DEF b
<1>6. BaseOK(b, own) /\ b.items = area.items /\ b.forgotten = area.forgotten
  BY <1>3 DEF AreaOK, Alike
<1>7. AreaOK(a, own, discarded, missed) /\ Kept(area, a, app.discarded)
  <2>1. CASE i \in app.discarded
    <3>1. a = b /\ discarded = app.discarded
      BY <2>1
    <3>2. Kept(area, b, app.discarded)
      BY <1>6, QueryIs, SameItemsKept
    <3>3. QED BY <1>3, <3>1, <3>2
  <2>2. CASE i \notin app.discarded
    <3>1. a = Notified(b, query, discarded)
      BY <2>2
    <3> HIDE DEF a, discarded
    <3>2. AreaOK(a, own, discarded, missed) /\ Shows(b, a, CanvasQueueItems(query, discarded))
      BY <1>6, <3>1, QueryIs, NotifiedOK
    <3>3. Kept(b, a, discarded)
      BY <3>2, QueryIs, ShowsKept DEF QueryOK
    <3>4. Kept(area, a, app.discarded)
      BY <1>6, <3>3 DEF Kept, discarded
    <3>5. QED BY <3>2, <3>4
  <2>3. QED BY <2>1, <2>2
<1> HIDE DEF a
<1>8. CASE CanvasQueueItems(query, discarded) = <<>>
  <2>1. BaseOK(a, own) /\ ResetSession(a)
    BY <1>5, <1>7, <1>8 DEF AreaOK
  <2>2. QED BY <2>1, ResetSteps
<1>9. CASE CanvasQueueItems(query, discarded) # <<>>
  <2>1. /\ app' = [app EXCEPT !.discarded = discarded] /\ area' = a
        /\ UNCHANGED <<srv, wire, finished, query, missed>>
    BY <1>5, <1>9
  <2>2. /\ app' \in [session : 1 .. MaxSessions, discarded : SUBSET Items, mode : Modes]
        /\ app'.session = app.session /\ app'.discarded = discarded
    BY <1>4, <2>1 DEF IInv, World
  <2>3. World'
    BY <2>1, <2>2 DEF IInv, World
  <2>4. AreaOK(area', Own(srv', app'.session), app'.discarded, missed')
    BY <1>7, <2>1, <2>2
  <2>5. QED BY <1>7, <2>1, <2>2, <2>3, <2>4, QueryIs DEF Stepped, IInv
<1>10. QED BY <1>8, <1>9

-------------------------------------------------------------------------------
(* The theorems.                                                           *)

LEMMA InitOK == Init => IInv
<1> SUFFICES ASSUME Init PROVE IInv
  OBVIOUS
<1>1. app.session = 1 /\ app.discarded = {} /\ app.mode \in Modes
      /\ app \in [session : 1 .. MaxSessions, discarded : SUBSET Items, mode : Modes]
  BY StagingAssumption DEF Init, StagingAssumption
<1>2. World
  <2>1. "none" \notin Status /\ "none" \notin Terminal
    BY StatusNames DEF Terminal
  <2>2. /\ srv \in [Items -> RowType]
        /\ \A i \in Items : srv[i] = [dest |-> 0, status |-> "none", seq |-> 0, results |-> FALSE]
    BY StagingAssumption DEF Init, RowType, StagingAssumption
  <2>3. \A i \in Items : RowOK(srv[i])
    BY <2>1, <2>2 DEF RowOK
  <2>4. wire = <<>> /\ wire \in Seq(MessageType) /\ Len(wire) <= MaxWire /\ DOMAIN wire = {}
    BY StagingAssumption DEF Init, StagingAssumption
  <2>5. QED BY <1>1, <2>2, <2>3, <2>4 DEF Init, World
<1>3. QueryOK(query, Own(srv, app.session))
  <2>1. NewQuery \in QueryType /\ NewQuery.data = <<>> /\ NewQuery.answer = <<>>
    BY DEF NewQuery, QueryType
  <2>2. QED BY <2>1, EmptyList DEF Init, QueryOK, ShowableOK
<1>4. AreaOK(area, Own(srv, app.session), app.discarded, missed)
  <2>1. area = [EmptyArea EXCEPT !.calls = {}]
    <3>1. EmptyArea.calls = {} /\ EmptyArea = [EmptyArea EXCEPT !.calls = EmptyArea.calls]
      BY DEF EmptyArea
    <3>2. QED BY <3>1 DEF Init
  <2>2. QED BY <2>1, EmptyAreaIs
<1>5. QED BY <1>2, <1>3, <1>4 DEF IInv

LEMMA NothingSteps == IInv /\ UNCHANGED vars => Stepped
<1> SUFFICES ASSUME IInv, UNCHANGED vars PROVE Stepped
  OBVIOUS
<1>1. UNCHANGED <<srv, wire, finished, query, app, area, missed>>
  BY DEF vars
<1>2. World'
  BY <1>1 DEF IInv, World
<1>3. QED BY <1>1, <1>2, QueryIs, AreaAsItIs

LEMMA NextSteps == IInv /\ [Next]_vars => Stepped
<1> SUFFICES ASSUME IInv, [Next]_vars PROVE Stepped
  OBVIOUS
<1>1. CASE Server
  BY <1>1, EnqueueBatchSteps, ProduceSteps, StatusChanges, ClearQueueSteps DEF Server
<1>2. CASE Network
  BY <1>2, ServeListAllSteps, FetchFulfilledSteps, FetchRejectedSteps, OnStatusSteps, OnInvalidatedSteps,
     ImagesArriveSteps DEF Network
<1>3. CASE User
  BY <1>3, onImageLoadedSteps, UserSelects, setAutoSwitchSteps, discardSelectedSteps, discardAllSteps,
     acceptSelectedSteps DEF User
<1>4. QED BY <1>1, <1>2, <1>3, NothingSteps DEF Next

\* The inductive invariant: the newest call that waits has a list that is no older
\* than what is on show, and what is on show is remembered by the api.
THEOREM Invariance == Spec => []IInv
<1>1. Init => IInv
  BY InitOK
<1>2. IInv /\ [Next]_vars => IInv'
  BY NextSteps DEF Stepped
<1>3. QED BY <1>1, <1>2, PTL DEF Spec

LEMMA InvariantGivesStaging == IInv => StagingInv
<1> SUFFICES ASSUME IInv PROVE StagingInv
  OBVIOUS
<1> DEFINE own == Own(srv, app.session)
<1>1. /\ query \in QueryType /\ area \in AreaType /\ BaseOK(area, own)
      /\ AreaOK(area, own, app.discarded, missed) /\ ShownOK(area, own)
  BY QueryIs DEF BaseOK
<1>2. ListType = Seq(ItemType)
  BY DEF ListType, ItemType
<1>3. TypeOK
  <2>1. \A i \in Items : area.dtos[i] \in 0 .. Outputs[i]
    BY <1>1, StagingAssumption DEF BaseOK, AreaType, StagingAssumption
  <2>2. srv \in [Items -> RowType] /\ Len(wire) <= MaxWire /\ finished \subseteq Items /\ missed \subseteq Items
    BY DEF IInv, World
  <2>3. app \in [session : 1 .. MaxSessions, discarded : SUBSET Items, mode : Modes]
    BY DEF IInv, World
  <2>4. query.fetch \in {"idle", "sent", "served"} /\ query.data \in ListType /\ query.answer \in ListType
    BY <1>1, <1>2 DEF QueryType
  <2>5. area.items \in ListType /\ {area.selected, area.lastStarted, area.lastCompleted} \subseteq Items \cup {None}
    BY <1>1, <1>2 DEF AreaType
  <2>6. \A c \in area.calls : c.at \in DOMAIN c.list
    BY <1>1 DEF BaseOK
  <2>7. QED BY <2>1, <2>2, <2>3, <2>4, <2>5, <2>6 DEF TypeOK, RowType
<1>4. OwnSession
  BY <1>1 DEF OwnSession, ShownOK, Own
<1>5. Waiting = {} => RestOK(area, missed)
  BY <1>1 DEF AreaOK, Waiting, Newest
<1>6. area.items \in Seq(ItemType)
  BY <1>1 DEF AreaType
<1>7. ImagesShown
  <2> SUFFICES ASSUME Waiting = {}, NEW n \in DOMAIN area.items,
                      area.items[n].status = "completed", area.items[n].results
               PROVE  area.dtos[area.items[n].id] = Outputs[area.items[n].id] \/ area.items[n].id \in missed
    BY DEF ImagesShown, Range
  <2>1. QED BY <1>5 DEF RestOK, HasImages, AwaitsImages
<1>8. SomethingSelected
  BY <1>1, <1>5, SelectedIndexIs DEF SomethingSelected, RestOK
<1>9. QED BY <1>3, <1>4, <1>7, <1>8 DEF StagingInv

\* At any time the items on show are of this session; and when no call waits, their
\* images are there, but for those that could not be had, and one of them is selected.
THEOREM StagingAreaCorrect == Spec => []StagingInv
BY Invariance, InvariantGivesStaging, PTL

LEMMA SteppedIsNoOlder ==
    ASSUME IInv, Stepped, app'.session = app.session,
           NEW i \in (Ids(area.items) \cap Ids(area'.items)) \ area.forgotten
    PROVE  Newer(ItemIn(area'.items, i), ItemIn(area.items, i))
<1>1. PICK m \in DOMAIN area.items : ItemIn(area.items, i) = area.items[m] /\ area.items[m].id = i
  BY SomeItemIn
<1>2. PICK n \in DOMAIN area'.items : ItemIn(area'.items, i) = area'.items[n] /\ area'.items[n].id = i
  BY SomeItemIn
<1>3. QED BY <1>1, <1>2 DEF Stepped, Kept

\* While an item is on show, what is shown of it never gets older, whatever the order
\* in which answers, patches, messages and images arrive, and however many calls wait.
THEOREM ShownNeverOlder == Spec => NeverOlder
<1> DEFINE Step1 == app'.session = app.session =>
              \A i \in (Ids(area.items) \cap Ids(area'.items)) \ area.forgotten :
                 LET x == ItemIn(area.items, i)
                     y == ItemIn(area'.items, i)
                 IN  y.seq >= x.seq /\ Rank(y.status) >= Rank(x.status)
<1>1. IInv /\ [Next]_vars => Step1
  <2> SUFFICES ASSUME IInv, [Next]_vars PROVE Step1
    OBVIOUS
  <2>1. Stepped
    BY NextSteps
  <2>2. QED BY <2>1, SteppedIsNoOlder DEF Newer
<1> HIDE DEF Step1
<1>2. Spec => [][Step1]_vars
  BY <1>1, Invariance, PTL DEF Spec
<1>3. QED BY <1>2 DEF NeverOlder, Step1

\* What the user discarded does not come back within the session, whichever calls of
\* onItemsChangedEvent were waiting with it on their list.
THEOREM DiscardedStays == Spec => DiscardedStaysAway
<1> DEFINE Step1 == app'.session = app.session =>
              \A i \in app.discarded : i \in Ids(area'.items) => i \in Ids(area.items)
<1>1. IInv /\ [Next]_vars => Step1
  BY NextSteps DEF Stepped, Kept
<1> HIDE DEF Step1
<1>2. Spec => [][Step1]_vars
  BY <1>1, Invariance, PTL DEF Spec
<1>3. QED BY <1>2 DEF DiscardedStaysAway, Step1

\* A call that goes on after its await, and an image that loads, move the selection
\* only off an item that is gone, or to the item that auto-switch follows.
THEOREM SelectionIsKept == Spec => SelectionKept
<1> DEFINE Step1 == ImagesArrive \/ onImageLoaded =>
              \/ area'.selected = area.selected
              \/ area.selected \notin Ids(area'.items)
              \/ app.mode = "switch_on_start" /\ area'.selected = area.lastStarted
              \/ app.mode = "switch_on_finish" /\ area'.selected = area.lastCompleted
<1>1. IInv => Step1
  BY ImagesArriveSteps, onImageLoadedSteps DEF SelectionKeptBy
<1> HIDE DEF Step1
<1>2. Spec => [][Step1]_vars
  BY <1>1, Invariance, PTL DEF Spec
<1>3. QED BY <1>2 DEF SelectionKept, Step1

===============================================================================
