------------------------- MODULE CanvasEntitiesProofs -------------------------
(***************************************************************************)
(* Theorems about CanvasEntities: no two entities or reference images      *)
(* share an id, the selection is on the canvas unless the lists were taken  *)
(* from under it, no empty list of masks is hidden, and reference images    *)
(* are configured for the model they have.                                 *)
(***************************************************************************)
EXTENDS CanvasEntities, SequenceTheorems, NaturalsInduction, WellFoundedInduction, TLAPS

-------------------------------------------------------------------------------
(* The inductive invariant.                                                *)

ConfigType == [type : {"ip_adapter", "flux_redux"}, model : RefModel \cup {None},
               clip : {"ViT-H", "ViT-L", "none"}]

\* The config of a reference image fits its model.
ConfigOK(config) ==
    /\ config \in ConfigType
    /\ config.model # None => config.model.type = config.type
    /\ config.clip = "none" <=> config.type = "flux_redux"

RefType == [id : Nat, config : ConfigType]

ControlAdapter == [type : {"controlnet", "t2i_adapter", "control_lora", "z_image_control"},
                   model : ControlModel \cup {None}]

EntityType == [id : Nat, enabled : BOOLEAN, drawn : BOOLEAN,
               adapter : ControlAdapter \cup {NoAdapter}, refs : Seq(RefType)]

\* An entity of type t whose ids are below N.
EntityOK(t, e, N) ==
    /\ e \in EntityType
    /\ IdsOf(e) \subseteq 1 .. N - 1
    /\ e.id \notin Ids(e.refs)
    /\ \A j, k \in DOMAIN e.refs : e.refs[j].id = e.refs[k].id => j = k
    /\ t = "control_layer" <=> e.adapter # NoAdapter
    /\ e.refs # <<>> => t = "regional_guidance"
    /\ \A k \in DOMAIN e.refs : ConfigOK(e.refs[k].config)

\* Two entities of the lists L have no id in common.
Apart(L) ==
    \A t, u \in Types : \A m \in DOMAIN L[t], n \in DOMAIN L[u] :
        <<t, m>> # <<u, n>> => IdsOf(L[t][m]) \cap IdsOf(L[u][n]) = {}

ListsOK(L, N) ==
    /\ L \in [Types -> Seq(EntityType)]
    /\ \A t \in Types : \A n \in DOMAIN L[t] : EntityOK(t, L[t][n], N)
    /\ Apart(L)

Identifier == [type : Types, id : Nat]

CanvasType == [lists : [Types -> Seq(EntityType)], hidden : [Types -> BOOLEAN],
               selected : Identifier \cup {None}, via : {"edits", "project"},
               orphan : Identifier \cup {None}]

MasksOK(c) == c.lists["inpaint_mask"] = <<>> /\ c.via # "project" => ~c.hidden["inpaint_mask"]

SelectionOK(c) == c.selected = None \/ Exists(c, c.selected) \/ c.selected = c.orphan

\* A canvas, with what its origin allows.
CanvasOK(c, N) ==
    /\ c \in CanvasType
    /\ ListsOK(c.lists, N)
    /\ SelectionOK(c) /\ MasksOK(c)

\* What was saved was an edited canvas: it was saved before anything was recalled.
IInv ==
    /\ nextId \in Nat \ {0}
    /\ CanvasOK(canvas, nextId)
    /\ saved # None => CanvasOK(saved, nextId) /\ saved.via = "edits"
    /\ saved = None => canvas.via = "edits"
    /\ installed \subseteq DOMAIN RefModels
    /\ merging # None => merging.type \in Types /\ merging.delete \subseteq 1 .. nextId - 1

-------------------------------------------------------------------------------
(* Numbers and sequences.                                                  *)

LEMMA MinIs ==
    ASSUME NEW S \in SUBSET Nat, S # {}
    PROVE  Min(S) \in S /\ \A x \in S : Min(S) <= x
<1> DEFINE Less == {ss \in Nat \X Nat : ss[1] < ss[2]}
<1>1. IsWellFoundedOn(Less, Nat)
  BY NatLessThanWellFounded DEF OpToRel
<1>2. \E x \in S : \A y \in S : ~(<<y, x>> \in Less)
  BY <1>1, WFMin
<1>3. \A x, y \in Nat : ~(<<y, x>> \in Less) => x <= y
  OBVIOUS
<1>4. \E x \in S : \A y \in S : x <= y
  <2> HIDE DEF Less
  <2> QED BY <1>2, <1>3
<1>5. QED BY <1>4 DEF Min


\* f is what FlattenSeq goes through with the first n of the sequences s.
Flattening(f, s, n) == f = [i \in 1 .. n |-> IF i = 1 THEN s[i] ELSE f[i - 1] \o s[i]]
LEMMA FlatteningExists ==
    ASSUME NEW N \in Nat \ {0}, NEW s
    PROVE  \E f : Flattening(f, s, N)
<1> DEFINE Bad == {n \in Nat : n > 0 /\ ~ \E f : Flattening(f, s, n)}
<1> SUFFICES ASSUME Bad # {} PROVE FALSE
  OBVIOUS
<1>1. PICK m \in Bad : \A n \in Bad : m <= n
  BY MinIs
<1>2. m # 1
  <2>1. Flattening([i \in 1 .. 1 |-> s[i]], s, 1)
    BY DEF Flattening
  <2>2. QED BY <1>1, <2>1
<1>3. m - 1 \in Nat /\ m - 1 > 0 /\ m - 1 \notin Bad
  BY <1>1, <1>2
<1>4. PICK f : Flattening(f, s, m - 1)
  BY <1>3
<1> DEFINE g == [i \in 1 .. m |-> IF i = m THEN f[m - 1] \o s[m] ELSE f[i]]
<1>5. ASSUME NEW i \in 1 .. m PROVE g[i] = IF i = 1 THEN s[i] ELSE g[i - 1] \o s[i]
  <2>1. \A j \in 1 .. m - 1 : f[j] = IF j = 1 THEN s[j] ELSE f[j - 1] \o s[j]
    BY <1>4 DEF Flattening
  <2>2. \A j \in 1 .. m - 1 : j \in 1 .. m /\ j # m
    BY <1>1
  <2>3. \A j \in 1 .. m - 1 : g[j] = f[j]
    BY <2>2
  <2>4. m \in 1 .. m /\ g[m] = f[m - 1] \o s[m]
    <3>1. m \in 1 .. m
      BY <1>1
    <3>2. QED BY <3>1
  <2>5. CASE i = m
    <3>1. m - 1 \in 1 .. m - 1
      BY <1>3
    <3>2. QED BY <1>2, <2>3, <2>4, <2>5, <3>1
  <2>6. CASE i # m
    <3>1. i \in 1 .. m - 1 /\ (i # 1 => i - 1 \in 1 .. m - 1)
      BY <1>1, <2>6
    <3>2. QED
      <4> HIDE DEF g
      <4> QED BY <2>1, <2>3, <3>1
  <2>7. QED BY <2>5, <2>6
<1>6. Flattening(g, s, m)
  <2>1. g = [i \in 1 .. m |-> g[i]]
    OBVIOUS
  <2> HIDE DEF g
  <2>2. QED BY <1>5, <2>1 DEF Flattening
<1>7. QED BY <1>1, <1>6

LEMMA FlattenSeqIs ==
    ASSUME NEW s, Len(s) \in Nat \ {0}
    PROVE  \E f : Flattening(f, s, Len(s)) /\ FlattenSeq(s) = f[Len(s)]
<1> DEFINE g == CHOOSE g : g = [i \in 1 .. Len(s) |-> IF i = 1 THEN s[i] ELSE g[i - 1] \o s[i]]
<1>1. g = [i \in 1 .. Len(s) |-> IF i = 1 THEN s[i] ELSE g[i - 1] \o s[i]]
  BY FlatteningExists DEF Flattening
<1>2. FlattenSeq(s) = g[Len(s)]
  BY DEF FlattenSeq
<1>3. QED BY <1>1, <1>2 DEF Flattening

\* The ids of a list tell its elements apart.
Distinct(list) == \A m, n \in DOMAIN list : list[m].id = list[n].id => m = n

\* flat has of the first n elements of a list those with other ids.
Taken(flat, list, ids, n) ==
    /\ \A j \in DOMAIN flat : \E m \in 1 .. n : flat[j] = list[m] /\ list[m].id \notin ids
    /\ \A m \in 1 .. n : list[m].id \notin ids => \E j \in DOMAIN flat : flat[j] = list[m]
    /\ Distinct(flat)

LEMMA OneMoreTaken ==
    ASSUME NEW S, NEW list \in Seq(S), Distinct(list), NEW ids, NEW n \in 1 .. Len(list), n > 1,
           NEW flat \in Seq(S), Taken(flat, list, ids, n - 1),
           NEW more, more = IF list[n].id \in ids THEN <<>> ELSE <<list[n]>>
    PROVE  flat \o more \in Seq(S) /\ Taken(flat \o more, list, ids, n)
<1>1. n \in DOMAIN list /\ list[n] \in S /\ n - 1 \in Nat /\ DOMAIN list = 1 .. Len(list) /\ Len(list) \in Nat
  OBVIOUS
<1>2. \A m \in 1 .. n : m = n \/ m \in 1 .. n - 1
  OBVIOUS
<1>3. \A m \in 1 .. n - 1 : m \in 1 .. n /\ m \in DOMAIN list /\ m # n
  BY <1>1
<1>4. CASE list[n].id \in ids
  <2>1. flat \o more = flat
    BY <1>4
  <2>2. QED BY <1>2, <1>3, <1>4, <2>1 DEF Taken
<1>5. CASE list[n].id \notin ids
  <2> DEFINE G == flat \o more
             K == Len(flat)
  <2>1. more = <<list[n]>> /\ K \in Nat /\ DOMAIN flat = 1 .. K
    BY <1>5
  <2>2. /\ G \in Seq(S) /\ DOMAIN G = 1 .. K + 1 /\ G[K + 1] = list[n]
        /\ \A j \in DOMAIN flat : G[j] = flat[j]
    <3> DEFINE x == list[n]
    <3>0. x \in S /\ G = flat \o <<x>>
      BY <1>1, <2>1, Zenon
    <3> HIDE DEF x, G
    <3>1. G = flat \o <<x>> /\ <<x>> \in Seq(S) /\ Len(<<x>>) = 1 /\ <<x>>[1] = x
      BY <3>0
    <3>2. /\ G \in Seq(S) /\ Len(G) = K + 1
          /\ \A i \in 1 .. K + 1 : G[i] = IF i <= K THEN flat[i] ELSE <<x>>[i - K]
      BY <3>1, ConcatProperties
    <3>3. DOMAIN G = 1 .. K + 1 /\ G[K + 1] = x
      BY <2>1, <3>1, <3>2
    <3>4. QED BY <2>1, <3>2, <3>3 DEF x
  <2> HIDE DEF G, K
  <2>3. \A j \in DOMAIN G : j = K + 1 \/ j \in DOMAIN flat
    BY <2>1, <2>2
  <2>4. \A j \in DOMAIN flat : j \in DOMAIN G
    BY <2>1, <2>2
  <2>5. K + 1 \in DOMAIN G
    BY <2>1, <2>2
  <2>6. ASSUME NEW j \in DOMAIN G PROVE \E m \in 1 .. n : G[j] = list[m] /\ list[m].id \notin ids
    <3>1. CASE j = K + 1
      BY <1>1, <1>5, <2>2, <3>1, SMTT(30)
    <3>2. CASE j \in DOMAIN flat
      BY <1>3, <2>2, <3>2 DEF Taken
    <3>3. QED BY <2>3, <3>1, <3>2
  <2>7. ASSUME NEW m \in 1 .. n, list[m].id \notin ids PROVE \E j \in DOMAIN G : G[j] = list[m]
    <3>1. CASE m = n
      BY <2>2, <2>5, <3>1
    <3>2. CASE m \in 1 .. n - 1
      BY <2>2, <2>4, <2>7, <3>2 DEF Taken
    <3>3. QED BY <1>2, <3>1, <3>2
  <2>8. \A j \in DOMAIN flat : flat[j].id # list[n].id
    BY <1>1, <1>3 DEF Taken, Distinct
  <2>9. Distinct(G)
    <3> SUFFICES ASSUME NEW j \in DOMAIN G, NEW k \in DOMAIN G, G[j].id = G[k].id PROVE j = k
      BY DEF Distinct
    <3>1. CASE j = K + 1 /\ k = K + 1
      BY <3>1
    <3>2. CASE j \in DOMAIN flat /\ k \in DOMAIN flat
      BY <2>2, <3>2 DEF Taken, Distinct
    <3>3. QED BY <2>2, <2>3, <2>8, <3>1, <3>2
  <2>10. QED BY <2>2, <2>6, <2>7, <2>9 DEF Taken, G
<1>6. QED BY <1>4, <1>5

LEMMA WithoutIs ==
    ASSUME NEW S, NEW list \in Seq(S), Distinct(list), NEW ids
    PROVE  Without(list, ids) \in Seq(S) /\ Taken(Without(list, ids), list, ids, Len(list))
<1> DEFINE N == Len(list)
           s == [n \in DOMAIN list |-> IF list[n].id \in ids THEN <<>> ELSE <<list[n]>>]
<1>1. N \in Nat /\ DOMAIN list = 1 .. N /\ Without(list, ids) = FlattenSeq(s)
  BY DEF Without
<1>2. \A n \in 1 .. N : s[n] = IF list[n].id \in ids THEN <<>> ELSE <<list[n]>>
  BY <1>1
<1>3. Len(s) = N
  BY <1>1
<1> HIDE DEF s
<1>4. CASE N = 0
  <2>1. list = <<>>
    BY <1>4
  <2>2. s = <<>>
    BY <1>1, <2>1 DEF s
  <2>3. FlattenSeq(s) = <<>>
    BY <2>2 DEF FlattenSeq
  <2>4. <<>> \in Seq(S) /\ DOMAIN <<>> = {} /\ 1 .. N = {}
    BY <1>4
  <2>5. QED BY <1>1, <2>3, <2>4 DEF Taken, Distinct
<1>5. CASE N # 0
  <2>1. PICK f : Flattening(f, s, N) /\ FlattenSeq(s) = f[N]
    BY <1>1, <1>3, <1>5, FlattenSeqIs
  <2>2. \A n \in 1 .. N : f[n] = IF n = 1 THEN s[n] ELSE f[n - 1] \o s[n]
    BY <2>1 DEF Flattening
  <2> DEFINE Good(n) == f[n] \in Seq(S) /\ Taken(f[n], list, ids, n)
             Bad == {n \in Nat : n \in 1 .. N /\ ~Good(n)}
  <2>3. Good(1)
    <3>1. 1 \in DOMAIN list /\ list[1] \in S /\ f[1] = s[1]
      BY <1>1, <1>5, <2>2
    <3>2. f[1] = IF list[1].id \in ids THEN <<>> ELSE <<list[1]>>
      BY <1>1, <1>2, <3>1
    <3>3. \A m \in 1 .. 1 : m = 1
      OBVIOUS
    <3>4. CASE list[1].id \in ids
      <4>1. f[1] = <<>> /\ <<>> \in Seq(S) /\ DOMAIN <<>> = {}
        BY <3>2, <3>4
      <4>2. QED BY <3>3, <3>4, <4>1 DEF Taken, Distinct
    <3>5. CASE list[1].id \notin ids
      <4>1. f[1] = <<list[1]>> /\ <<list[1]>> \in Seq(S) /\ DOMAIN <<list[1]>> = {1} /\ <<list[1]>>[1] = list[1]
        BY <3>1, <3>2, <3>5
      <4>2. QED BY <3>3, <3>5, <4>1 DEF Taken, Distinct
    <3>6. QED BY <3>4, <3>5
  <2>4. ASSUME NEW n \in 1 .. N, n > 1, Good(n - 1) PROVE Good(n)
    <3>1. f[n] = f[n - 1] \o s[n] /\ s[n] = IF list[n].id \in ids THEN <<>> ELSE <<list[n]>>
      <4>1. n # 1 /\ n \in 1 .. N
        BY <1>1, <2>4
      <4> HIDE DEF N, Bad, Good
      <4>2. f[n] = f[n - 1] \o s[n]
        BY <2>2, <4>1, Zenon
      <4>3. QED BY <1>2, <4>1, <4>2, Zenon
    <3>2. QED BY <2>4, <3>1, OneMoreTaken
  <2> HIDE DEF Good
  <2>5. ASSUME Bad # {} PROVE FALSE
    <3>1. PICK m \in Bad : \A n \in Bad : m <= n
      BY <2>5, MinIs
    <3>2. m \in 1 .. N /\ m # 1 /\ ~Good(m)
      BY <2>3, <3>1
    <3>3. m - 1 \in 1 .. N /\ m - 1 \notin Bad /\ m > 1
      BY <3>1, <3>2
    <3>4. QED BY <2>4, <3>2, <3>3
  <2>6. N \in 1 .. N
    BY <1>1, <1>5
  <2>7. Good(N)
    BY <2>5, <2>6
  <2>8. QED BY <1>1, <2>1, <2>7 DEF Good
<1>6. QED BY <1>4, <1>5

LEMMA InsertAtIs ==
    ASSUME NEW S, NEW list \in Seq(S), NEW k \in 1 .. Len(list) + 1, NEW x \in S
    PROVE  LET grown == InsertAt(list, k, x)
           IN  /\ grown \in Seq(S) /\ Len(grown) = Len(list) + 1
               /\ \A n \in DOMAIN grown : grown[n] = IF n < k THEN list[n] ELSE IF n = k THEN x ELSE list[n - 1]
<1> DEFINE L == Len(list)
           a == SubSeq(list, 1, k - 1)
           b == SubSeq(list, k, L)
<1>1. /\ L \in Nat /\ k \in Int /\ k - 1 \in Int /\ k >= 1 /\ k <= L + 1
      /\ \A n \in 1 .. L : list[n] \in S
  OBVIOUS
<1>2. a \in Seq(S) /\ Len(a) = k - 1 /\ \A i \in 1 .. k - 1 : a[i] = list[i]
  OBVIOUS
<1>3. b \in Seq(S) /\ Len(b) = L - k + 1 /\ \A i \in 1 .. L - k + 1 : b[i] = list[k + i - 1]
  OBVIOUS
<1>4. InsertAt(list, k, x) = (a \o <<x>>) \o b
  BY DEF InsertAt
<1> HIDE DEF a, b
<1> DEFINE c == a \o <<x>>
<1>5. /\ c \in Seq(S) /\ Len(c) = k /\ c[k] = x /\ \A i \in 1 .. k - 1 : c[i] = list[i]
  BY <1>1, <1>2
<1> HIDE DEF c
<1> DEFINE d == c \o b
<1>6. d \in Seq(S) /\ Len(d) = L + 1 /\ \A i \in 1 .. L + 1 : d[i] = IF i <= k THEN c[i] ELSE b[i - k]
  BY <1>1, <1>3, <1>5, SMTT(30)
<1>7. \A i \in 1 .. L + 1 : d[i] = IF i < k THEN list[i] ELSE IF i = k THEN x ELSE list[i - 1]
  <2> SUFFICES ASSUME NEW i \in 1 .. L + 1
               PROVE  d[i] = IF i < k THEN list[i] ELSE IF i = k THEN x ELSE list[i - 1]
    OBVIOUS
  <2> HIDE DEF d
  <2>1. CASE i <= k
    BY <1>1, <1>5, <1>6, <2>1
  <2>2. CASE i > k
    <3>1. i - k \in 1 .. L - k + 1 /\ k + (i - k) - 1 = i - 1
      BY <1>1, <2>2
    <3>2. b[i - k] = list[i - 1]
      BY <1>3, <3>1
    <3>3. QED BY <1>1, <1>6, <2>2, <3>2
  <2>3. QED BY <1>1, <2>1, <2>2
<1> HIDE DEF d
<1>8. DOMAIN d = 1 .. L + 1
  BY <1>1, <1>6
<1>9. QED BY <1>4, <1>6, <1>7, <1>8 DEF c, d

LEMMA RemoveAtIs ==
    ASSUME NEW S, NEW list \in Seq(S), NEW k \in DOMAIN list
    PROVE  LET rest == RemoveAt(list, k)
           IN  /\ rest \in Seq(S) /\ Len(rest) = Len(list) - 1
               /\ \A n \in DOMAIN rest : rest[n] = IF n < k THEN list[n] ELSE list[n + 1]
<1> DEFINE L == Len(list)
           a == SubSeq(list, 1, k - 1)
           b == SubSeq(list, k + 1, L)
<1>1. L \in Nat /\ k \in 1 .. L
  OBVIOUS
<1>2. a \in Seq(S) /\ Len(a) = k - 1 /\ \A i \in 1 .. k - 1 : a[i] = list[i]
  BY <1>1
<1>3. b \in Seq(S) /\ Len(b) = L - k /\ \A i \in 1 .. L - k : b[i] = list[k + i]
  BY <1>1
<1>4. RemoveAt(list, k) = a \o b
  BY DEF RemoveAt
<1> HIDE DEF a, b
<1> DEFINE d == a \o b
<1>5. d \in Seq(S) /\ Len(d) = L - 1 /\ \A i \in 1 .. L - 1 : d[i] = IF i <= k - 1 THEN a[i] ELSE b[i - (k - 1)]
  BY <1>1, <1>2, <1>3, SMTT(30)
<1>6. \A i \in 1 .. L - 1 : d[i] = IF i < k THEN list[i] ELSE list[i + 1]
  <2> SUFFICES ASSUME NEW i \in 1 .. L - 1 PROVE d[i] = IF i < k THEN list[i] ELSE list[i + 1]
    OBVIOUS
  <2> HIDE DEF d
  <2>1. CASE i < k
    BY <1>1, <1>2, <1>5, <2>1
  <2>2. CASE ~(i < k)
    <3>1. i - (k - 1) \in 1 .. L - k /\ k + (i - (k - 1)) = i + 1
      BY <1>1, <2>2
    <3>2. b[i - (k - 1)] = list[i + 1]
      BY <1>3, <3>1
    <3>3. QED BY <1>1, <1>5, <2>2, <3>2
  <2>3. QED BY <2>1, <2>2
<1> HIDE DEF d
<1>7. DOMAIN d = 1 .. L - 1
  BY <1>1, <1>5
<1>8. QED BY <1>4, <1>5, <1>6, <1>7 DEF d

-------------------------------------------------------------------------------
(* Lists of entities.                                                      *)

LEMMA IdsAre ==
    ASSUME NEW list, NEW i
    PROVE  i \in Ids(list) <=> \E n \in DOMAIN list : list[n].id = i
BY DEF Ids

LEMMA PositionIs ==
    ASSUME NEW S, NEW list \in Seq(S), NEW i
    PROVE  /\ i \in Ids(list) => Position(list, i) \in DOMAIN list /\ list[Position(list, i)].id = i
           /\ Position(list, i) \in 0 .. Len(list)
<1>1. i \in Ids(list) => Position(list, i) \in DOMAIN list /\ list[Position(list, i)].id = i
  BY IdsAre DEF Position
<1>2. i \notin Ids(list) => Position(list, i) = 0
  BY DEF Position
<1>3. QED BY <1>1, <1>2

LEMMA TypeNames == "inpaint_mask" \in Types /\ "control_layer" \in Types
                   /\ "regional_guidance" \in Types /\ "raster_layer" \in Types
BY DEF Types

\* The bound on the ids is raised.
LEMMA EntityGrows ==
    ASSUME NEW t, NEW e, NEW N \in Nat, NEW M \in Nat, N <= M, EntityOK(t, e, N)
    PROVE  EntityOK(t, e, M)
<1>1. 1 .. N - 1 \subseteq 1 .. M - 1
  OBVIOUS
<1>2. QED BY <1>1 DEF EntityOK

LEMMA ListsGrow ==
    ASSUME NEW L, NEW N \in Nat, NEW M \in Nat, N <= M, ListsOK(L, N)
    PROVE  ListsOK(L, M)
BY EntityGrows DEF ListsOK

LEMMA CanvasGrows ==
    ASSUME NEW c, NEW N \in Nat, NEW M \in Nat, N <= M, CanvasOK(c, N)
    PROVE  CanvasOK(c, M)
BY ListsGrow DEF CanvasOK

LEMMA ListsAre ==
    ASSUME NEW L, NEW N, ListsOK(L, N), NEW t \in Types
    PROVE  /\ L[t] \in Seq(EntityType) /\ Distinct(L[t])
           /\ DOMAIN L[t] = 1 .. Len(L[t]) /\ Len(L[t]) \in Nat
           /\ \A n \in DOMAIN L[t] : /\ L[t][n] \in EntityType /\ EntityOK(t, L[t][n], N)
                                     /\ IdsOf(L[t][n]) \subseteq 1 .. N - 1
<1>1. L[t] \in Seq(EntityType) /\ \A n \in DOMAIN L[t] : EntityOK(t, L[t][n], N)
  BY DEF ListsOK
<1>2. \A m \in DOMAIN L[t], n \in DOMAIN L[t] : m # n => IdsOf(L[t][m]) \cap IdsOf(L[t][n]) = {}
  BY DEF ListsOK, Apart
<1>3. Distinct(L[t])
  BY <1>2 DEF Distinct, IdsOf
<1>4. QED BY <1>1, <1>3 DEF EntityOK

\* In place of the list of type t there is one of some of its entities, and at most
\* a new one, which shares no id with those that stay.
Change(L, N, t, list, gone, news) ==
    /\ list \in Seq(EntityType) /\ Distinct(list)
    /\ \A x, y \in news : x = y
    /\ \A x \in news : EntityOK(t, x, N)
    /\ \A n \in DOMAIN list : \/ list[n] \in news
                             \/ \E m \in DOMAIN L[t] : list[n] = L[t][m] /\ m \notin gone
    /\ \A x \in news : \A u \in Types : \A m \in DOMAIN L[u] :
          u # t \/ m \notin gone => IdsOf(L[u][m]) \cap IdsOf(x) = {}

LEMMA OneChanged ==
    ASSUME NEW L, NEW N, ListsOK(L, N), NEW t \in Types, NEW list, NEW gone, NEW news,
           Change(L, N, t, list, gone, news)
    PROVE  ListsOK([L EXCEPT ![t] = list], N)
<1> USE DEF Change
<1> DEFINE K == [L EXCEPT ![t] = list]
<1>1. /\ K \in [Types -> Seq(EntityType)] /\ K[t] = list
      /\ \A u \in Types : u # t => K[u] = L[u]
  BY DEF ListsOK
<1> HIDE DEF K
<1>2. ASSUME NEW u \in Types, NEW n \in DOMAIN K[u] PROVE EntityOK(u, K[u][n], N)
  <2>1. CASE u = t
    BY <1>1, <1>2, <2>1 DEF ListsOK
  <2>2. CASE u # t
    BY <1>1, <1>2, <2>2 DEF ListsOK
  <2>3. QED BY <2>1, <2>2
<1>3. ASSUME NEW m \in DOMAIN list, NEW n \in DOMAIN list, m # n
      PROVE  IdsOf(list[m]) \cap IdsOf(list[n]) = {}
  <2>1. list[m].id # list[n].id
    BY <1>3 DEF Distinct
  <2>2. CASE list[m] \in news \/ list[n] \in news
    BY <2>1, <2>2
  <2>3. CASE list[m] \notin news /\ list[n] \notin news
    <3>1. PICK a \in DOMAIN L[t] : list[m] = L[t][a]
      BY <2>3
    <3>2. PICK b \in DOMAIN L[t] : list[n] = L[t][b]
      BY <2>3
    <3>3. <<t, a>> # <<t, b>>
      BY <2>1, <3>1, <3>2
    <3>4. QED BY <3>1, <3>2, <3>3 DEF ListsOK, Apart
  <2>4. QED BY <2>2, <2>3
<1>4. ASSUME NEW n \in DOMAIN list, NEW u \in Types, u # t, NEW m \in DOMAIN L[u]
      PROVE  IdsOf(list[n]) \cap IdsOf(L[u][m]) = {}
  <2>1. CASE list[n] \in news
    BY <1>4, <2>1
  <2>2. CASE list[n] \notin news
    <3>1. PICK a \in DOMAIN L[t] : list[n] = L[t][a]
      BY <2>2
    <3>2. <<t, a>> # <<u, m>>
      BY <1>4
    <3>3. QED BY <3>1, <3>2 DEF ListsOK, Apart
  <2>3. QED BY <2>1, <2>2
<1>5. ASSUME NEW u \in Types, NEW v \in Types, NEW m \in DOMAIN K[u], NEW n \in DOMAIN K[v], <<u, m>> # <<v, n>>
      PROVE  IdsOf(K[u][m]) \cap IdsOf(K[v][n]) = {}
  <2>1. u # v \/ m # n
    BY <1>5
  <2>2. CASE u = t /\ v = t
    BY <1>1, <1>3, <2>1, <2>2
  <2>3. CASE u = t /\ v # t
    BY <1>1, <1>4, <2>3
  <2>4. CASE u # t /\ v = t
    BY <1>1, <1>4, <2>4
  <2>5. CASE u # t /\ v # t
    BY <1>1, <1>5, <2>5 DEF ListsOK, Apart
  <2>6. QED BY <2>2, <2>3, <2>4, <2>5
<1>6. QED BY <1>1, <1>2, <1>5 DEF ListsOK, Apart, K

LEMMA OldKept ==
    ASSUME NEW L, NEW N, ListsOK(L, N), NEW t \in Types, NEW list \in Seq(EntityType), Distinct(list),
           \A n \in DOMAIN list : \E m \in DOMAIN L[t] : list[n] = L[t][m]
    PROVE  ListsOK([L EXCEPT ![t] = list], N)
<1>1. Change(L, N, t, list, {}, {})
  BY DEF Change
<1>2. QED BY <1>1, OneChanged

LEMMA NewPut ==
    ASSUME NEW L, NEW N, ListsOK(L, N), NEW t \in Types, NEW list \in Seq(EntityType), Distinct(list),
           NEW gone, NEW x, EntityOK(t, x, N),
           \A n \in DOMAIN list : list[n] = x \/ \E m \in DOMAIN L[t] : list[n] = L[t][m] /\ m \notin gone,
           \A u \in Types : \A m \in DOMAIN L[u] :
               u # t \/ m \notin gone => IdsOf(L[u][m]) \cap IdsOf(x) = {}
    PROVE  ListsOK([L EXCEPT ![t] = list], N)
<1>1. Change(L, N, t, list, gone, {x})
  BY DEF Change
<1>2. QED BY <1>1, OneChanged

\* In place of a list there is one of the same ids.
LEMMA Mapped ==
    ASSUME NEW L, NEW N, ListsOK(L, N), NEW t \in Types, NEW list \in Seq(EntityType),
           DOMAIN list = DOMAIN L[t],
           \A n \in DOMAIN list : EntityOK(t, list[n], N) /\ IdsOf(list[n]) = IdsOf(L[t][n])
    PROVE  ListsOK([L EXCEPT ![t] = list], N)
<1> DEFINE K == [L EXCEPT ![t] = list]
<1>1. /\ K \in [Types -> Seq(EntityType)] /\ K[t] = list
      /\ \A u \in Types : u # t => K[u] = L[u]
  BY DEF ListsOK
<1> HIDE DEF K
<1>2. \A u \in Types : \A n \in DOMAIN K[u] : n \in DOMAIN L[u] /\ EntityOK(u, K[u][n], N)
                                               /\ IdsOf(K[u][n]) = IdsOf(L[u][n])
  BY <1>1 DEF ListsOK
<1>3. Apart(K)
  BY <1>2 DEF ListsOK, Apart
<1>4. QED BY <1>1, <1>2, <1>3 DEF ListsOK, K

\* Some are taken out.
\* Each of a list is of an older one.
From(new, old) == \A n \in DOMAIN new : \E m \in DOMAIN old : new[n] = old[m]

LEMMA Filtered ==
    ASSUME NEW L, NEW N, ListsOK(L, N), NEW t \in Types, NEW ids
    PROVE  /\ Without(L[t], ids) \in Seq(EntityType)
           /\ ListsOK([L EXCEPT ![t] = Without(L[t], ids)], N)
           /\ \A i : i \in Ids(Without(L[t], ids)) <=> i \in Ids(L[t]) /\ i \notin ids
           /\ From(Without(L[t], ids), L[t])
<1> DEFINE kept == Without(L[t], ids)
<1>1. kept \in Seq(EntityType) /\ Taken(kept, L[t], ids, Len(L[t])) /\ DOMAIN L[t] = 1 .. Len(L[t])
  BY ListsAre, WithoutIs
<1> HIDE DEF kept
<1>2. ListsOK([L EXCEPT ![t] = kept], N)
  <2>1. \A n \in DOMAIN kept : \E m \in DOMAIN L[t] : kept[n] = L[t][m]
    BY <1>1 DEF Taken
  <2>2. QED BY <1>1, <2>1, OldKept DEF Taken
<1>3. ASSUME NEW i PROVE i \in Ids(kept) <=> i \in Ids(L[t]) /\ i \notin ids
  <2>1. ASSUME i \in Ids(kept) PROVE i \in Ids(L[t]) /\ i \notin ids
    <3>1. PICK j \in DOMAIN kept : kept[j].id = i
      BY <2>1, IdsAre
    <3>2. PICK m \in DOMAIN L[t] : kept[j] = L[t][m] /\ L[t][m].id \notin ids
      BY <1>1 DEF Taken
    <3>3. QED BY <3>1, <3>2, IdsAre
  <2>2. ASSUME i \in Ids(L[t]), i \notin ids PROVE i \in Ids(kept)
    <3>1. PICK m \in DOMAIN L[t] : L[t][m].id = i
      BY <2>2, IdsAre
    <3>2. PICK j \in DOMAIN kept : kept[j] = L[t][m]
      BY <1>1, <2>2, <3>1 DEF Taken
    <3>3. QED BY <3>1, <3>2, IdsAre
  <2>3. QED BY <2>1, <2>2
<1>4. From(kept, L[t])
  BY <1>1 DEF Taken, From
<1>5. QED BY <1>1, <1>2, <1>3, <1>4 DEF kept

-------------------------------------------------------------------------------
(* The canvas.                                                             *)

LEMMA ResetIs ==
    ASSUME NEW c \in CanvasType
    PROVE  LET r == resetInpaintMasksHiddenIfEmpty(c)
           IN  /\ r \in CanvasType
               /\ r.lists = c.lists /\ r.selected = c.selected /\ r.via = c.via /\ r.orphan = c.orphan
               /\ r.lists["inpaint_mask"] = <<>> => ~r.hidden["inpaint_mask"]
               /\ \A t \in Types : t # "inpaint_mask" => r.hidden[t] = c.hidden[t]
<1> DEFINE h == [c.hidden EXCEPT !["inpaint_mask"] = FALSE]
           d == [c EXCEPT !.hidden["inpaint_mask"] = FALSE]
<1>1. c.hidden \in [Types -> BOOLEAN]
  BY DEF CanvasType
<1>2. /\ h \in [Types -> BOOLEAN] /\ ~h["inpaint_mask"]
      /\ \A t \in Types : t # "inpaint_mask" => h[t] = c.hidden[t]
  BY <1>1, TypeNames
<1>3. d = [c EXCEPT !.hidden = h]
  OBVIOUS
<1> HIDE DEF h, d
<1>4. d \in CanvasType /\ d.lists = c.lists /\ d.selected = c.selected /\ d.via = c.via /\ d.orphan = c.orphan /\ d.hidden = h
  BY <1>2, <1>3 DEF CanvasType
<1>5. CASE c.lists["inpaint_mask"] = <<>>
  BY <1>2, <1>4, <1>5 DEF resetInpaintMasksHiddenIfEmpty, d
<1>6. CASE c.lists["inpaint_mask"] # <<>>
  BY <1>6 DEF resetInpaintMasksHiddenIfEmpty
<1>7. QED BY <1>5, <1>6

LEMMA WithList ==
    ASSUME NEW c \in CanvasType, NEW t \in Types, NEW list \in Seq(EntityType)
    PROVE  LET d == [c EXCEPT !.lists[t] = list]
           IN  /\ d \in CanvasType /\ d.lists = [c.lists EXCEPT ![t] = list] /\ d.lists[t] = list
               /\ \A u \in Types : u # t => d.lists[u] = c.lists[u]
               /\ d.hidden = c.hidden /\ d.selected = c.selected /\ d.via = c.via /\ d.orphan = c.orphan
<1> DEFINE L == [c.lists EXCEPT ![t] = list]
           d == [c EXCEPT !.lists[t] = list]
<1>1. c.lists \in [Types -> Seq(EntityType)]
  BY DEF CanvasType
<1>2. L \in [Types -> Seq(EntityType)] /\ L[t] = list /\ \A u \in Types : u # t => L[u] = c.lists[u]
  BY <1>1
<1>3. d = [c EXCEPT !.lists = L]
  OBVIOUS
<1> HIDE DEF L, d
<1>4. /\ d \in CanvasType /\ d.lists = L
      /\ d.hidden = c.hidden /\ d.selected = c.selected /\ d.via = c.via /\ d.orphan = c.orphan
  BY <1>2, <1>3 DEF CanvasType
<1>5. QED BY <1>2, <1>4 DEF d, L

LEMMA Selects ==
    ASSUME NEW c \in CanvasType, NEW t \in Types, NEW i \in Nat
    PROVE  LET d == [c EXCEPT !.selected = getEntityIdentifier(t, i)]
           IN  /\ d \in CanvasType /\ d.lists = c.lists /\ d.hidden = c.hidden /\ d.via = c.via /\ d.orphan = c.orphan
               /\ i \in Ids(c.lists[t]) => Exists(d, d.selected)
<1> DEFINE s == getEntityIdentifier(t, i)
           d == [c EXCEPT !.selected = s]
<1>1. s \in Identifier /\ s # None /\ s.type = t /\ s.id = i
  <2>1. s \in Identifier /\ s.type = t /\ s.id = i /\ t # "none" /\ None.type = "none"
    BY DEF getEntityIdentifier, Identifier, Types, None
  <2> HIDE DEF s
  <2>2. QED BY <2>1
<1> HIDE DEF s
<1>2. d \in CanvasType /\ d.lists = c.lists /\ d.hidden = c.hidden /\ d.via = c.via /\ d.orphan = c.orphan /\ d.selected = s
  BY <1>1 DEF CanvasType
<1>3. QED BY <1>1, <1>2 DEF Exists, s

\* An entity that shares no id with those of the lists L.
Stranger(e, L) == \A u \in Types : \A m \in DOMAIN L[u] : IdsOf(L[u][m]) \cap IdsOf(e) = {}

\* One is put in.
LEMMA Inserted ==
    ASSUME NEW L, NEW N, ListsOK(L, N), NEW t \in Types, NEW e, EntityOK(t, e, N), Stranger(e, L),
           NEW k \in 1 .. Len(L[t]) + 1
    PROVE  LET grown == InsertAt(L[t], k, e)
           IN  /\ grown \in Seq(EntityType) /\ ListsOK([L EXCEPT ![t] = grown], N)
               /\ e.id \in Ids(grown)
<1> DEFINE list == L[t]
           grown == InsertAt(list, k, e)
<1>1. /\ list \in Seq(EntityType) /\ Distinct(list) /\ Len(list) \in Nat /\ DOMAIN list = 1 .. Len(list)
      /\ e \in EntityType
  BY ListsAre DEF EntityOK
<1>2. /\ grown \in Seq(EntityType) /\ Len(grown) = Len(list) + 1
      /\ \A n \in DOMAIN grown : grown[n] = IF n < k THEN list[n] ELSE IF n = k THEN e ELSE list[n - 1]
  BY <1>1, InsertAtIs, SMTT(30)
<1>3. \A m \in DOMAIN list : list[m].id # e.id
  BY DEF Stranger, IdsOf
<1> HIDE DEF list, grown
<1>4. DOMAIN grown = 1 .. Len(list) + 1 /\ k \in 1 .. Len(list) + 1
  BY <1>1, <1>2 DEF list
<1>5. \A n \in DOMAIN grown : /\ n < k => n \in DOMAIN list
                              /\ n > k => n - 1 \in DOMAIN list
                              /\ n < k \/ n = k \/ n > k
  BY <1>1, <1>4
<1>6. \A n \in DOMAIN grown : /\ n < k => grown[n] = list[n]
                              /\ n = k => grown[n] = e
                              /\ n > k => grown[n] = list[n - 1]
  BY <1>1, <1>2, <1>4
<1>7. Distinct(grown)
  <2> SUFFICES ASSUME NEW m \in DOMAIN grown, NEW n \in DOMAIN grown, grown[m].id = grown[n].id PROVE m = n
    BY DEF Distinct
  <2>1. CASE m = k \/ n = k
    BY <1>3, <1>5, <1>6, <2>1
  <2>2. CASE m < k /\ n < k
    BY <1>1, <1>5, <1>6, <2>2 DEF Distinct
  <2>3. CASE m > k /\ n > k
    <3>1. m - 1 = n - 1
      BY <1>1, <1>5, <1>6, <2>3 DEF Distinct
    <3>2. QED BY <1>1, <1>4, <3>1
  <2>4. CASE m < k /\ n > k
    <3>1. m = n - 1
      BY <1>1, <1>5, <1>6, <2>4 DEF Distinct
    <3>2. QED BY <1>1, <1>4, <2>4, <3>1
  <2>5. CASE m > k /\ n < k
    <3>1. n = m - 1
      BY <1>1, <1>5, <1>6, <2>5 DEF Distinct
    <3>2. QED BY <1>1, <1>4, <2>5, <3>1
  <2>6. QED BY <1>5, <2>1, <2>2, <2>3, <2>4, <2>5
<1>8. \A n \in DOMAIN grown : grown[n] \in {e} \/ \E m \in DOMAIN list : grown[n] = list[m] /\ m \notin {}
  BY <1>5, <1>6
<1>9. Change(L, N, t, grown, {}, {e})
  BY <1>2, <1>7, <1>8 DEF Change, Stranger, list
<1>10. ListsOK([L EXCEPT ![t] = grown], N)
  BY <1>9, OneChanged
<1>11. e.id \in Ids(grown)
  BY <1>4, <1>6, IdsAre
<1>12. QED BY <1>2, <1>10, <1>11 DEF grown, list

\* Some of a list are disabled.
WithDisabled(list, ids) ==
    [n \in DOMAIN list |-> IF list[n].id \in ids THEN [list[n] EXCEPT !.enabled = FALSE] ELSE list[n]]

LEMMA Disabled ==
    ASSUME NEW L, NEW N, ListsOK(L, N), NEW t \in Types, NEW old, old = L[t], NEW disable
    PROVE  LET list == WithDisabled(old, disable)
           IN  /\ list \in Seq(EntityType) /\ ListsOK([L EXCEPT ![t] = list], N)
               /\ \A i : i \in Ids(list) <=> i \in Ids(old)
<1> DEFINE list == [n \in DOMAIN old |->
                       IF old[n].id \in disable THEN [old[n] EXCEPT !.enabled = FALSE] ELSE old[n]]
<1>1. /\ old \in Seq(EntityType) /\ DOMAIN old = 1 .. Len(old) /\ Len(old) \in Nat
      /\ \A n \in DOMAIN old : old[n] \in EntityType /\ EntityOK(t, old[n], N)
  BY ListsAre
<1>2. ASSUME NEW n \in DOMAIN old
      PROVE  /\ list[n] \in EntityType /\ EntityOK(t, list[n], N) /\ list[n].id = old[n].id
             /\ IdsOf(list[n]) = IdsOf(old[n])
  <2>1. CASE old[n].id \in disable
    <3>1. list[n] = [old[n] EXCEPT !.enabled = FALSE]
      BY <2>1
    <3> HIDE DEF list
    <3>2. /\ list[n] \in EntityType /\ list[n].id = old[n].id /\ list[n].refs = old[n].refs
          /\ list[n].adapter = old[n].adapter
      BY <1>1, <3>1 DEF EntityType
    <3>3. QED BY <1>1, <3>2 DEF EntityOK, IdsOf
  <2>2. CASE old[n].id \notin disable
    <3>1. list[n] = old[n]
      BY <2>2
    <3> HIDE DEF list
    <3>2. QED BY <1>1, <3>1
  <2>3. QED BY <2>1, <2>2
<1>3. DOMAIN list = DOMAIN old
  OBVIOUS
<1> HIDE DEF list
<1>4. list \in Seq(EntityType)
  <2>1. list = [n \in DOMAIN old |-> list[n]]
    BY DEF list
  <2>2. list \in [1 .. Len(old) -> EntityType]
    BY <1>1, <1>2, <2>1
  <2>3. QED BY <1>1, <2>2
<1>5. ListsOK([L EXCEPT ![t] = list], N)
  BY <1>2, <1>3, <1>4, Mapped
<1>6. \A i : i \in Ids(list) <=> i \in Ids(old)
  BY <1>2, <1>3, IdsAre
<1>7. QED BY <1>4, <1>5, <1>6 DEF list, WithDisabled

Chosen(c, t, i) == [c EXCEPT !.selected = getEntityIdentifier(t, i)]

\* A canvas whose list of type t has become another, and where e of it is selected.
LEMMA Finished ==
    ASSUME NEW N, NEW d \in CanvasType, ListsOK(d.lists, N), MasksOK(d), NEW t \in Types, NEW i \in Ids(d.lists[t]), i \in Nat
    PROVE  LET r == Chosen(d, t, i)
           IN  CanvasOK(r, N) /\ r.via = d.via /\ r.orphan = d.orphan /\ r.lists = d.lists
<1> DEFINE r == Chosen(d, t, i)
<1>1. /\ r \in CanvasType /\ r.lists = d.lists /\ r.hidden = d.hidden /\ r.via = d.via /\ r.orphan = d.orphan
      /\ Exists(r, r.selected)
  BY Selects DEF Chosen
<1> HIDE DEF r
<1>2. QED BY <1>1 DEF CanvasOK, SelectionOK, MasksOK, r

\* A canvas made of c.
Yields(r, N, c) == CanvasOK(r, N) /\ r.via = c.via /\ r.orphan = c.orphan

LEMMA AddedOK ==
    ASSUME NEW c \in CanvasType, NEW N, ListsOK(c.lists, N), MasksOK(c), NEW t \in Types,
           NEW e, EntityOK(t, e, N), Stranger(e, c.lists), NEW after, NEW delete, e.id \notin delete,
           NEW disable
    PROVE  Yields(Added(c, t, e, after, delete, disable, TRUE), N, c)
<1> DEFINE L == c.lists
           list == L[t]
           at == IF after = None THEN Len(list) + 1 ELSE Position(list, after.id) + 1
           grown == InsertAt(list, at, e)
           disabled == WithDisabled(grown, disable)
           kept == Without(disabled, delete)
           d == [c EXCEPT !.lists[t] = kept]
           f == IF t = "inpaint_mask" THEN resetInpaintMasksHiddenIfEmpty(d) ELSE d
           r == Chosen(f, t, e.id)
<1>1. Added(c, t, e, after, delete, disable, TRUE) = r
  BY DEF Added, WithDisabled, Chosen
<1>2. list \in Seq(EntityType) /\ Len(list) \in Nat /\ e.id \in Nat /\ L \in [Types -> Seq(EntityType)]
  <2>1. e.id \in Nat
    BY DEF EntityOK, EntityType
  <2>2. L \in [Types -> Seq(EntityType)]
    BY DEF ListsOK
  <2>3. QED BY <2>1, <2>2
<1>3. at \in 1 .. Len(list) + 1
  <2>1. Position(list, after.id) \in 0 .. Len(list)
    BY <1>2, PositionIs
  <2>2. QED BY <1>2, <2>1
<1> HIDE DEF at
<1>4. grown \in Seq(EntityType) /\ ListsOK([L EXCEPT ![t] = grown], N) /\ e.id \in Ids(grown)
  BY <1>3, Inserted
<1> HIDE DEF grown
<1> DEFINE L1 == [L EXCEPT ![t] = grown]
<1>5. L1[t] = grown /\ [L1 EXCEPT ![t] = disabled] = [L EXCEPT ![t] = disabled]
  BY <1>2
<1>6. disabled \in Seq(EntityType) /\ ListsOK([L EXCEPT ![t] = disabled], N) /\ e.id \in Ids(disabled)
  <2> HIDE DEF L1, L
  <2>1. ListsOK(L1, N)
    BY <1>4 DEF L1
  <2>2. /\ disabled \in Seq(EntityType) /\ ListsOK([L1 EXCEPT ![t] = disabled], N)
        /\ \A i : i \in Ids(disabled) <=> i \in Ids(grown)
    BY <1>5, <2>1, Disabled
  <2> HIDE DEF disabled
  <2>3. QED BY <1>4, <1>5, <2>2
<1> HIDE DEF disabled
<1> DEFINE L2 == [L EXCEPT ![t] = disabled]
<1>7. L2[t] = disabled /\ [L2 EXCEPT ![t] = kept] = [L EXCEPT ![t] = kept]
  BY <1>2
<1>8. kept \in Seq(EntityType) /\ ListsOK([L EXCEPT ![t] = kept], N) /\ e.id \in Ids(kept)
  <2> HIDE DEF L2, L
  <2>1. ListsOK(L2, N)
    BY <1>6 DEF L2
  <2>2. QED BY <1>6, <1>7, <2>1, Filtered
<1> HIDE DEF kept
<1>9. /\ d \in CanvasType /\ d.lists = [L EXCEPT ![t] = kept] /\ d.lists[t] = kept
      /\ \A u \in Types : u # t => d.lists[u] = L[u]
      /\ d.hidden = c.hidden /\ d.selected = c.selected /\ d.via = c.via /\ d.orphan = c.orphan
  BY <1>8, WithList
<1> HIDE DEF d
<1>10. f \in CanvasType /\ f.lists = d.lists /\ f.via = c.via /\ f.orphan = c.orphan /\ MasksOK(f)
  <2>1. CASE t = "inpaint_mask"
    <3>1. f = resetInpaintMasksHiddenIfEmpty(d)
      BY <2>1
    <3> HIDE DEF f
    <3>2. QED BY <1>9, <3>1, ResetIs DEF MasksOK
  <2>2. CASE t # "inpaint_mask"
    <3>1. f = d
      BY <2>2
    <3> HIDE DEF f
    <3>2. f.lists["inpaint_mask"] = c.lists["inpaint_mask"]
      BY <1>9, <2>2, <3>1, TypeNames
    <3>3. QED BY <1>9, <3>1, <3>2 DEF MasksOK
  <2>3. QED BY <2>1, <2>2
<1> HIDE DEF f
<1>11. CanvasOK(r, N) /\ r.via = c.via /\ r.orphan = c.orphan
  <2>1. ListsOK(f.lists, N) /\ e.id \in Ids(f.lists[t])
    BY <1>8, <1>9, <1>10
  <2>2. QED BY <1>2, <1>10, <2>1, Finished
<1>12. QED BY <1>1, <1>11 DEF Yields

\* One is put at the end.
LEMMA Appended ==
    ASSUME NEW L, NEW N, ListsOK(L, N), NEW t \in Types, NEW e, EntityOK(t, e, N), Stranger(e, L)
    PROVE  LET grown == Append(L[t], e)
           IN  /\ grown \in Seq(EntityType) /\ ListsOK([L EXCEPT ![t] = grown], N)
               /\ e.id \in Ids(grown) /\ grown # <<>>
<1> DEFINE list == L[t]
           K == Len(list)
           grown == Append(list, e)
<1>1. /\ list \in Seq(EntityType) /\ Distinct(list) /\ K \in Nat /\ DOMAIN list = 1 .. K
      /\ e \in EntityType
  BY ListsAre DEF EntityOK
<1>2. /\ grown \in Seq(EntityType) /\ DOMAIN grown = 1 .. K + 1 /\ grown[K + 1] = e
      /\ \A n \in DOMAIN list : grown[n] = list[n]
  <2> HIDE DEF list
  <2>1. QED BY <1>1
<1>3. \A m \in DOMAIN list : list[m].id # e.id
  BY DEF Stranger, IdsOf
<1> HIDE DEF list, K, grown
<1>4. \A n \in DOMAIN grown : n = K + 1 \/ n \in DOMAIN list
  BY <1>1, <1>2
<1>5. K + 1 \in DOMAIN grown
  BY <1>1, <1>2
<1>6. Distinct(grown)
  BY <1>1, <1>2, <1>3, <1>4 DEF Distinct
<1>7. Change(L, N, t, grown, {}, {e})
  BY <1>2, <1>4, <1>6 DEF Change, Stranger, list
<1>8. ListsOK([L EXCEPT ![t] = grown], N)
  BY <1>7, OneChanged
<1>9. e.id \in Ids(grown) /\ grown # <<>>
  BY <1>2, <1>5, IdsAre
<1>10. QED BY <1>2, <1>8, <1>9 DEF grown, list

LEMMA ConvertedOK ==
    ASSUME NEW c \in CanvasType, NEW N, ListsOK(c.lists, N), MasksOK(c), NEW i, NEW s \in Types, i.type = s,
           NEW t \in Types, NEW e, EntityOK(t, e, N), Stranger(e, c.lists), NEW replace \in BOOLEAN
    PROVE  Yields(Converted(c, i, t, e, replace), N, c)
<1> DEFINE L == c.lists
           kept == Without(L[s], {i.id})
           d == IF replace THEN [c EXCEPT !.lists[s] = kept] ELSE c
           f == IF s = "inpaint_mask" /\ replace THEN resetInpaintMasksHiddenIfEmpty(d) ELSE d
           grown == Append(f.lists[t], e)
           g == [f EXCEPT !.lists[t] = grown]
           r == Chosen(g, t, e.id)
<1>1. e.id \in Nat
  BY DEF EntityOK, EntityType
<1>2. Converted(c, i, t, e, replace) = r
  BY DEF Converted, Chosen
<1>3. /\ kept \in Seq(EntityType) /\ ListsOK([L EXCEPT ![s] = kept], N)
      /\ From(kept, L[s])
  BY Filtered
<1> HIDE DEF kept
<1>4. /\ d \in CanvasType /\ ListsOK(d.lists, N) /\ d.via = c.via /\ d.orphan = c.orphan /\ d.hidden = c.hidden
      /\ Stranger(e, d.lists)
      /\ ~(s = "inpaint_mask" /\ replace) => d.lists["inpaint_mask"] = c.lists["inpaint_mask"]
  <2>1. CASE replace
    <3>1. d = [c EXCEPT !.lists[s] = kept]
      BY <2>1
    <3> HIDE DEF d
    <3>2. /\ d \in CanvasType /\ d.lists = [L EXCEPT ![s] = kept] /\ d.lists[s] = kept
          /\ \A u \in Types : u # s => d.lists[u] = L[u]
          /\ d.hidden = c.hidden /\ d.via = c.via /\ d.orphan = c.orphan
      BY <1>3, <3>1, WithList
    <3>3. \A u \in Types : \A n \in DOMAIN d.lists[u] : \E m \in DOMAIN L[u] : d.lists[u][n] = L[u][m]
      BY <1>3, <3>2 DEF From
    <3>4. Stranger(e, d.lists)
      BY <3>3 DEF Stranger
    <3>5. QED BY <1>3, <2>1, <3>2, <3>4, TypeNames
  <2>2. CASE ~replace
    BY <2>2
  <2>3. QED BY <2>1, <2>2
<1> HIDE DEF d
<1>5. f \in CanvasType /\ f.lists = d.lists /\ f.via = c.via /\ f.orphan = c.orphan /\ MasksOK(f)
  <2>1. CASE s = "inpaint_mask" /\ replace
    <3>1. f = resetInpaintMasksHiddenIfEmpty(d)
      BY <2>1
    <3> HIDE DEF f
    <3>2. QED BY <1>4, <3>1, ResetIs DEF MasksOK
  <2>2. CASE ~(s = "inpaint_mask" /\ replace)
    <3>1. f = d
      BY <2>2
    <3> HIDE DEF f
    <3>2. QED BY <1>4, <2>2, <3>1 DEF MasksOK
  <2>3. QED BY <2>1, <2>2
<1> HIDE DEF f
<1>6. /\ grown \in Seq(EntityType) /\ ListsOK([f.lists EXCEPT ![t] = grown], N)
      /\ e.id \in Ids(grown) /\ grown # <<>>
  BY <1>4, <1>5, Appended
<1> HIDE DEF grown
<1>7. /\ g \in CanvasType /\ g.lists = [f.lists EXCEPT ![t] = grown] /\ g.lists[t] = grown
      /\ \A u \in Types : u # t => g.lists[u] = f.lists[u]
      /\ g.hidden = f.hidden /\ g.via = f.via /\ g.orphan = f.orphan
  BY <1>5, <1>6, WithList
<1> HIDE DEF g
<1>8. MasksOK(g)
  <2>1. CASE t = "inpaint_mask"
    BY <1>6, <1>7, <2>1 DEF MasksOK
  <2>2. CASE t # "inpaint_mask"
    BY <1>5, <1>7, <2>2, TypeNames DEF MasksOK
  <2>3. QED BY <2>1, <2>2
<1>9. ListsOK(g.lists, N) /\ e.id \in Ids(g.lists[t]) /\ g.via = c.via /\ g.orphan = c.orphan
  BY <1>5, <1>6, <1>7
<1>10. CanvasOK(r, N) /\ r.via = c.via /\ r.orphan = c.orphan
  <2> DEFINE j == e.id
  <2>1. j \in Ids(g.lists[t]) /\ j \in Nat
    BY <1>1, <1>9
  <2> HIDE DEF j
  <2>2. g \in CanvasType /\ ListsOK(g.lists, N) /\ MasksOK(g)
    BY <1>7, <1>8, <1>9
  <2>3. CanvasOK(Chosen(g, t, j), N) /\ Chosen(g, t, j).via = g.via /\ Chosen(g, t, j).orphan = g.orphan
    BY <2>1, <2>2, Finished
  <2>4. QED BY <1>9, <2>3 DEF j
<1>11. QED BY <1>2, <1>10 DEF Yields

\* A canvas where the entities have other data or another order.
LEMMA KeepsOK ==
    ASSUME NEW c, NEW N, CanvasOK(c, N), NEW d \in CanvasType, NEW M, ListsOK(d.lists, M),
           d.hidden = c.hidden, d.selected = c.selected, d.via = c.via, d.orphan = c.orphan,
           \A t \in Types : Ids(c.lists[t]) \subseteq Ids(d.lists[t]),
           d.lists["inpaint_mask"] = <<>> => c.lists["inpaint_mask"] = <<>>
    PROVE  CanvasOK(d, M)
<1>1. Exists(c, c.selected) => Exists(d, d.selected)
  <2>1. c.selected # None => c.selected.type \in Types
    BY DEF CanvasOK, CanvasType, Identifier
  <2>2. QED BY <2>1 DEF Exists
<1>2. QED BY <1>1 DEF CanvasOK, SelectionOK, MasksOK

LEMMA UpdatedOK ==
    ASSUME NEW c, NEW N \in Nat, CanvasOK(c, N), NEW i \in Identifier, Exists(c, i),
           NEW M \in Nat, N <= M, NEW new, EntityOK(i.type, new, M), new.id = Entity(c, i).id,
           IdsOf(new) \subseteq IdsOf(Entity(c, i)) \cup (N .. M - 1)
    PROVE  Yields(Updated(c, i, new), M, c)
<1> DEFINE L == c.lists
           t == i.type
           list == L[t]
           k == Position(list, i.id)
           other == [list EXCEPT ![k] = new]
           d == [c EXCEPT !.lists[t] = other]
<1>1. t \in Types /\ c \in CanvasType /\ ListsOK(L, N) /\ ListsOK(L, M)
  BY ListsGrow DEF Identifier, CanvasOK
<1>2. /\ list \in Seq(EntityType) /\ Distinct(list) /\ DOMAIN list = 1 .. Len(list) /\ Len(list) \in Nat
  BY <1>1, ListsAre
<1>3. k \in DOMAIN list /\ Entity(c, i) = list[k]
  <2>1. i.id \in Ids(list)
    BY DEF Exists
  <2>2. QED BY <1>2, <2>1, PositionIs DEF Entity
<1>4. Updated(c, i, new) = d
  BY DEF Updated
<1> HIDE DEF list, k
<1>5. new \in EntityType
  BY DEF EntityOK
<1>6. /\ other \in Seq(EntityType) /\ DOMAIN other = DOMAIN list /\ other[k] = new
      /\ \A n \in DOMAIN list : n # k => other[n] = list[n]
      /\ \A n \in DOMAIN list : other[n].id = list[n].id
  <2>1. /\ DOMAIN other = DOMAIN list /\ other[k] = new
        /\ \A n \in DOMAIN list : n # k => other[n] = list[n]
    BY <1>2, <1>3
  <2>2. other \in Seq(EntityType)
    BY <1>2, <1>3, <1>5
  <2> HIDE DEF other
  <2>3. \A n \in DOMAIN list : other[n].id = list[n].id
    BY <1>3, <2>1
  <2>4. QED BY <2>1, <2>2, <2>3
<1> HIDE DEF other
<1>7. Distinct(other)
  BY <1>2, <1>6 DEF Distinct
<1>8. ASSUME NEW u \in Types, NEW m \in DOMAIN L[u], u # t \/ m \notin {k}
      PROVE  IdsOf(L[u][m]) \cap IdsOf(new) = {}
  <2>1. <<u, m>> # <<t, k>>
    BY <1>8
  <2>2. IdsOf(L[u][m]) \cap IdsOf(list[k]) = {}
    BY <1>1, <1>3, <2>1 DEF ListsOK, Apart, list
  <2>3. IdsOf(L[u][m]) \subseteq 1 .. N - 1
    BY <1>1, ListsAre
  <2>4. (1 .. N - 1) \cap (N .. M - 1) = {}
    OBVIOUS
  <2>5. QED BY <1>3, <2>2, <2>3, <2>4
<1>9. \A n \in DOMAIN other : other[n] \in {new} \/ \E m \in DOMAIN list : other[n] = list[m] /\ m \notin {k}
  BY <1>6
<1>10. Change(L, M, t, other, {k}, {new})
  BY <1>6, <1>7, <1>8, <1>9 DEF Change, list
<1>11. ListsOK([L EXCEPT ![t] = other], M)
  BY <1>1, <1>10, OneChanged
<1>12. /\ d \in CanvasType /\ d.lists = [L EXCEPT ![t] = other] /\ d.lists[t] = other
       /\ \A u \in Types : u # t => d.lists[u] = L[u]
       /\ d.hidden = c.hidden /\ d.selected = c.selected /\ d.via = c.via /\ d.orphan = c.orphan
  BY <1>1, <1>6, WithList
<1> HIDE DEF d
<1>13. \A u \in Types : Ids(L[u]) \subseteq Ids(d.lists[u])
  BY <1>6, <1>12, IdsAre DEF list
<1>14. d.lists["inpaint_mask"] = <<>> => c.lists["inpaint_mask"] = <<>>
  <2>1. CASE t = "inpaint_mask"
    <3>1. other = <<>> => list = <<>>
      BY <1>2, <1>6
    <3>2. QED BY <1>12, <2>1, <3>1 DEF list
  <2>2. CASE t # "inpaint_mask"
    BY <1>12, <2>2, TypeNames
  <2>3. QED BY <2>1, <2>2
<1>15. CanvasOK(d, M)
  BY <1>11, <1>12, <1>13, <1>14, KeepsOK, ZenonT(40)
<1>16. QED BY <1>4, <1>12, <1>15 DEF Yields

\* Where the entity at place m of the moved list was.
MovedFrom(m, n, to) ==
    IF m = to THEN n
    ELSE LET r == IF m < to THEN m ELSE m - 1 IN IF r < n THEN r ELSE r + 1

HasMoved(r, list, n, to) ==
    /\ DOMAIN r = DOMAIN list
    /\ \A m \in DOMAIN r : MovedFrom(m, n, to) \in DOMAIN list /\ r[m] = list[MovedFrom(m, n, to)]

LEMMA MovedIs ==
    ASSUME NEW S, NEW list \in Seq(S), NEW n \in DOMAIN list, NEW to \in DOMAIN list
    PROVE  Moved(list, n, to) \in Seq(S) /\ HasMoved(Moved(list, n, to), list, n, to)
<1> DEFINE K == Len(list)
           rest == RemoveAt(list, n)
           x == list[n]
           r == InsertAt(rest, to, x)
<1>1. K \in Nat /\ DOMAIN list = 1 .. K /\ n \in 1 .. K /\ to \in 1 .. K /\ x \in S
  OBVIOUS
<1>2. /\ rest \in Seq(S) /\ Len(rest) = K - 1
      /\ \A m \in DOMAIN rest : rest[m] = IF m < n THEN list[m] ELSE list[m + 1]
  BY RemoveAtIs
<1> HIDE DEF rest
<1>3. DOMAIN rest = 1 .. K - 1 /\ to \in 1 .. Len(rest) + 1
  BY <1>1, <1>2
<1>4. /\ r \in Seq(S) /\ Len(r) = Len(rest) + 1
      /\ \A m \in DOMAIN r : r[m] = IF m < to THEN rest[m] ELSE IF m = to THEN x ELSE rest[m - 1]
  <2> HIDE DEF x
  <2>1. x \in S /\ rest \in Seq(S) /\ to \in 1 .. Len(rest) + 1
    BY <1>1, <1>2, <1>3
  <2> HIDE DEF K
  <2>2. QED BY <2>1, InsertAtIs
<1> HIDE DEF r, K
<1>5. DOMAIN r = 1 .. K
  BY <1>1, <1>2, <1>4
<1>6. ASSUME NEW m \in DOMAIN r
      PROVE  MovedFrom(m, n, to) \in DOMAIN list /\ r[m] = list[MovedFrom(m, n, to)]
  <2>1. m \in 1 .. K
    BY <1>5
  <2>2. CASE m = to
    BY <1>1, <1>4, <2>2 DEF MovedFrom
  <2>3. CASE m < to
    <3>1. m \in 1 .. K - 1 /\ MovedFrom(m, n, to) = IF m < n THEN m ELSE m + 1
      BY <1>1, <2>1, <2>3 DEF MovedFrom
    <3>2. r[m] = rest[m]
      BY <1>4, <2>3
    <3>3. QED BY <1>1, <1>2, <1>3, <3>1, <3>2
  <2>4. CASE m > to
    <3>1. /\ m - 1 \in 1 .. K - 1 /\ (m - 1) + 1 = m
          /\ MovedFrom(m, n, to) = IF m - 1 < n THEN m - 1 ELSE m
      BY <1>1, <2>1, <2>4 DEF MovedFrom
    <3>2. r[m] = rest[m - 1]
      BY <1>1, <1>4, <2>1, <2>4
    <3>3. QED BY <1>1, <1>2, <1>3, <3>1, <3>2
  <2>5. QED BY <1>1, <2>1, <2>2, <2>3, <2>4
<1>7. Moved(list, n, to) = r
  BY DEF Moved, r, rest
<1>8. QED BY <1>1, <1>4, <1>5, <1>6, <1>7 DEF HasMoved

LEMMA MovedOK ==
    ASSUME NEW c, NEW N, CanvasOK(c, N), NEW t \in Types,
           NEW list, list = c.lists[t], NEW n \in DOMAIN list, NEW to \in DOMAIN list
    PROVE  Yields([c EXCEPT !.lists[t] = Moved(list, n, to)], N, c)
<1> DEFINE L == c.lists
           r == Moved(list, n, to)
           d == [c EXCEPT !.lists[t] = r]
           from(m) == MovedFrom(m, n, to)
<1>1. c \in CanvasType /\ ListsOK(L, N)
  BY DEF CanvasOK
<1>2. list \in Seq(EntityType) /\ Distinct(list) /\ DOMAIN list = 1 .. Len(list) /\ Len(list) \in Nat
  BY <1>1, ListsAre
<1>3. /\ r \in Seq(EntityType) /\ DOMAIN r = DOMAIN list
      /\ \A m \in DOMAIN r : from(m) \in DOMAIN list /\ r[m] = list[from(m)]
  <2>1. r \in Seq(EntityType) /\ HasMoved(r, list, n, to)
    BY <1>2, MovedIs
  <2>2. QED BY <2>1 DEF HasMoved
<1> HIDE DEF r
<1>5. \A l, m \in DOMAIN list : from(l) = from(m) => l = m
  BY <1>2 DEF MovedFrom
<1>6. \A k \in DOMAIN list : \E m \in DOMAIN list : from(m) = k
  <2> SUFFICES ASSUME NEW k \in DOMAIN list PROVE \E m \in DOMAIN list : from(m) = k
    OBVIOUS
  <2>1. CASE k = n
    BY <2>1 DEF MovedFrom
  <2>2. CASE k < n
    <3>1. CASE k < to
      BY <1>2, <2>2, <3>1 DEF MovedFrom
    <3>2. CASE ~(k < to)
      <4>1. k + 1 \in DOMAIN list /\ from(k + 1) = k
        BY <1>2, <2>2, <3>2 DEF MovedFrom
      <4>2. QED BY <4>1
    <3>3. QED BY <3>1, <3>2
  <2>3. CASE k > n
    <3>1. CASE k - 1 < to
      <4>1. k - 1 \in DOMAIN list /\ from(k - 1) = k
        BY <1>2, <2>3, <3>1 DEF MovedFrom
      <4>2. QED BY <4>1
    <3>2. CASE ~(k - 1 < to)
      <4>1. from(k) = k
        BY <1>2, <2>3, <3>2 DEF MovedFrom
      <4>2. QED BY <4>1
    <3>3. QED BY <3>1, <3>2
  <2>4. QED BY <1>2, <2>1, <2>2, <2>3
<1> HIDE DEF from
<1>7. Distinct(r)
  <2> SUFFICES ASSUME NEW l \in DOMAIN r, NEW m \in DOMAIN r, r[l].id = r[m].id PROVE l = m
    BY DEF Distinct
  <2>1. from(l) \in DOMAIN list /\ from(m) \in DOMAIN list /\ list[from(l)].id = list[from(m)].id
    BY <1>3
  <2>2. from(l) = from(m)
    BY <1>2, <2>1 DEF Distinct
  <2>3. QED BY <1>3, <1>5, <2>2
<1>8. \A m \in DOMAIN r : \E k \in DOMAIN list : r[m] = list[k]
  BY <1>3
<1>9. ListsOK([L EXCEPT ![t] = r], N)
  <2>1. Change(L, N, t, r, {}, {})
    BY <1>3, <1>7, <1>8 DEF Change
  <2>2. QED BY <1>1, <2>1, OneChanged
<1>10. /\ d \in CanvasType /\ d.lists = [L EXCEPT ![t] = r] /\ d.lists[t] = r
       /\ \A u \in Types : u # t => d.lists[u] = L[u]
       /\ d.hidden = c.hidden /\ d.selected = c.selected /\ d.via = c.via /\ d.orphan = c.orphan
  BY <1>1, <1>3, WithList
<1> HIDE DEF d
<1>11. Ids(list) \subseteq Ids(r)
  <2> SUFFICES ASSUME NEW x \in Ids(list) PROVE x \in Ids(r)
    OBVIOUS
  <2>1. PICK k \in DOMAIN list : list[k].id = x
    BY IdsAre
  <2>2. PICK m \in DOMAIN list : from(m) = k
    BY <1>6
  <2>3. m \in DOMAIN r /\ r[m].id = x
    BY <1>3, <2>1, <2>2
  <2>4. QED BY <2>3, IdsAre
<1>12. \A u \in Types : Ids(L[u]) \subseteq Ids(d.lists[u])
  BY <1>10, <1>11
<1>13. d.lists["inpaint_mask"] = <<>> => c.lists["inpaint_mask"] = <<>>
  <2>1. CASE t = "inpaint_mask"
    <3>1. r = <<>> => list = <<>>
      BY <1>2, <1>3
    <3>2. QED BY <1>10, <2>1, <3>1
  <2>2. CASE t # "inpaint_mask"
    BY <1>10, <2>2, TypeNames
  <2>3. QED BY <2>1, <2>2
<1>14. CanvasOK(d, N)
  BY <1>9, <1>10, <1>12, <1>13, KeepsOK, ZenonT(40)
<1>15. QED BY <1>10, <1>14 DEF d, r, Yields

-------------------------------------------------------------------------------
(* The entities as the panel lists them, and what is selected when one of  *)
(* them is deleted.                                                        *)

LEMMA IdentifierIs ==
    /\ \A t \in Types, i \in Nat : /\ getEntityIdentifier(t, i) \in Identifier
                                   /\ getEntityIdentifier(t, i).type = t /\ getEntityIdentifier(t, i).id = i
    /\ \A i \in Identifier : i.type \in Types /\ i.id \in Nat /\ i # None /\ i = getEntityIdentifier(i.type, i.id)
<1>1. \A i \in Identifier : i # None
  <2> SUFFICES ASSUME NEW i \in Identifier PROVE i # None
    OBVIOUS
  <2>1. i.type # "none"
    BY DEF Identifier, Types
  <2>2. None.type = "none"
    BY DEF None
  <2>3. QED BY <2>1, <2>2
<1>2. QED BY <1>1 DEF getEntityIdentifier, Identifier

\* s names every entity of the lists L whose type is in T, and each once.
Listing(s, L, T) ==
    /\ s \in Seq(Identifier)
    /\ \A j, k \in DOMAIN s : s[j] = s[k] => j = k
    /\ \A k \in DOMAIN s : s[k].type \in T /\ s[k].id \in Ids(L[s[k].type])
    /\ \A t \in T : \A i \in Ids(L[t]) : \E k \in DOMAIN s : s[k].type = t /\ s[k].id = i

Shown(list, t) == [n \in DOMAIN list |-> getEntityIdentifier(t, Reverse(list)[n].id)]

LEMMA ShownLists ==
    ASSUME NEW L, NEW N, ListsOK(L, N), NEW t \in Types
    PROVE  Listing(Shown(L[t], t), L, {t})
<1> DEFINE list == L[t]
           K == Len(list)
           s == Shown(list, t)
<1>1. /\ list \in Seq(EntityType) /\ Distinct(list) /\ K \in Nat /\ DOMAIN list = 1 .. K
      /\ \A n \in DOMAIN list : list[n] \in EntityType
  BY ListsAre
<1>2. \A n \in 1 .. K : K - n + 1 \in 1 .. K /\ Reverse(list)[n] = list[K - n + 1]
  BY <1>1 DEF Reverse
<1>3. DOMAIN s = 1 .. K /\ \A n \in 1 .. K : s[n] = getEntityIdentifier(t, list[K - n + 1].id)
  BY <1>1, <1>2 DEF Shown
<1>4. \A n \in 1 .. K : list[n].id \in Nat
  BY <1>1 DEF EntityType
<1>5. \A n \in 1 .. K : s[n] \in Identifier /\ s[n].type = t /\ s[n].id = list[K - n + 1].id
  <2> SUFFICES ASSUME NEW n \in 1 .. K
               PROVE  s[n] \in Identifier /\ s[n].type = t /\ s[n].id = list[K - n + 1].id
    OBVIOUS
  <2> DEFINE i == list[K - n + 1].id
  <2>1. i \in Nat
    BY <1>2, <1>4
  <2>2. s[n] = getEntityIdentifier(t, i)
    BY <1>3
  <2> HIDE DEF i, s
  <2>3. s[n] \in Identifier /\ s[n].type = t /\ s[n].id = i
    BY <2>1, <2>2, IdentifierIs
  <2>4. QED BY <2>3 DEF i
<1>6. s \in Seq(Identifier)
  <2>1. s = [n \in DOMAIN list |-> s[n]]
    BY DEF Shown
  <2> HIDE DEF s
  <2>2. s \in [1 .. K -> Identifier]
    BY <1>1, <1>5, <2>1
  <2>3. QED BY <1>1, <2>2
<1> HIDE DEF s
<1>7. ASSUME NEW j \in DOMAIN s, NEW k \in DOMAIN s, s[j] = s[k] PROVE j = k
  <2>1. j \in 1 .. K /\ k \in 1 .. K
    BY <1>3
  <2>2. list[K - j + 1].id = list[K - k + 1].id
    BY <1>5, <1>7, <2>1
  <2>3. K - j + 1 \in DOMAIN list /\ K - k + 1 \in DOMAIN list
    BY <1>1, <1>2, <2>1
  <2>4. K - j + 1 = K - k + 1
    BY <1>1, <2>2, <2>3 DEF Distinct
  <2>5. QED BY <1>1, <2>1, <2>4
<1>8. ASSUME NEW k \in DOMAIN s PROVE s[k].type = t /\ s[k].id \in Ids(list)
  <2>1. s[k].type = t /\ s[k].id = list[K - k + 1].id /\ K - k + 1 \in DOMAIN list
    BY <1>1, <1>2, <1>3, <1>5
  <2> HIDE DEF K, list
  <2>2. QED BY <2>1, IdsAre
<1>9. ASSUME NEW i \in Ids(list) PROVE \E k \in DOMAIN s : s[k].type = t /\ s[k].id = i
  <2>1. PICK m \in DOMAIN list : list[m].id = i
    BY IdsAre
  <2>2. K - m + 1 \in 1 .. K /\ K - (K - m + 1) + 1 = m
    BY <1>1
  <2>3. K - m + 1 \in DOMAIN s /\ s[K - m + 1].type = t /\ s[K - m + 1].id = list[K - (K - m + 1) + 1].id
    BY <1>3, <1>5, <2>2
  <2>4. QED BY <2>1, <2>2, <2>3
<1>10. QED BY <1>6, <1>7, <1>8, <1>9 DEF Listing, s

LEMMA ListingsJoin ==
    ASSUME NEW L, NEW T, NEW U, T \cap U = {}, NEW r, Listing(r, L, T), NEW s, Listing(s, L, U)
    PROVE  Listing(r \o s, L, T \cup U)
<1> DEFINE J == Len(r)
           K == Len(s)
           q == r \o s
<1>1. /\ r \in Seq(Identifier) /\ s \in Seq(Identifier) /\ J \in Nat /\ K \in Nat
      /\ DOMAIN r = 1 .. J /\ DOMAIN s = 1 .. K
  BY DEF Listing
<1>2. /\ q \in Seq(Identifier) /\ DOMAIN q = 1 .. J + K
      /\ \A n \in 1 .. J : q[n] = r[n]
      /\ \A n \in 1 .. K : q[J + n] = s[n]
  BY <1>1
<1> HIDE DEF q, J, K
<1>3. ASSUME NEW n \in DOMAIN q
      PROVE  \/ n \in DOMAIN r /\ q[n] = r[n]
             \/ n - J \in DOMAIN s /\ q[n] = s[n - J] /\ n = J + (n - J)
  <2>1. n \in 1 .. J \/ (n - J \in 1 .. K /\ n = J + (n - J))
    BY <1>1, <1>2
  <2>2. QED BY <1>1, <1>2, <2>1
<1>4. \A n \in DOMAIN r : r[n].type \in T /\ r[n].id \in Ids(L[r[n].type])
  BY DEF Listing
<1>5. \A n \in DOMAIN s : s[n].type \in U /\ s[n].id \in Ids(L[s[n].type])
  BY DEF Listing
<1>6. ASSUME NEW j \in DOMAIN q, NEW k \in DOMAIN q, q[j] = q[k] PROVE j = k
  <2>1. CASE j \in DOMAIN r /\ q[j] = r[j] /\ k \in DOMAIN r /\ q[k] = r[k]
    BY <1>6, <2>1 DEF Listing
  <2>2. CASE /\ j - J \in DOMAIN s /\ q[j] = s[j - J] /\ j = J + (j - J)
             /\ k - J \in DOMAIN s /\ q[k] = s[k - J] /\ k = J + (k - J)
    <3>1. j - J = k - J
      BY <1>6, <2>2 DEF Listing
    <3>2. QED BY <2>2, <3>1
  <2>3. CASE j \in DOMAIN r /\ q[j] = r[j] /\ k - J \in DOMAIN s /\ q[k] = s[k - J]
    BY <1>4, <1>5, <1>6, <2>3
  <2>4. CASE j - J \in DOMAIN s /\ q[j] = s[j - J] /\ k \in DOMAIN r /\ q[k] = r[k]
    BY <1>4, <1>5, <1>6, <2>4
  <2>5. QED BY <1>3, <2>1, <2>2, <2>3, <2>4
<1>7. ASSUME NEW k \in DOMAIN q PROVE q[k].type \in T \cup U /\ q[k].id \in Ids(L[q[k].type])
  BY <1>3, <1>4, <1>5
<1>8. ASSUME NEW t \in T \cup U, NEW i \in Ids(L[t]) PROVE \E k \in DOMAIN q : q[k].type = t /\ q[k].id = i
  <2>1. CASE t \in T
    <3>1. PICK k \in DOMAIN r : r[k].type = t /\ r[k].id = i
      BY <2>1 DEF Listing
    <3>2. k \in DOMAIN q /\ q[k] = r[k]
      BY <1>1, <1>2
    <3>3. QED BY <3>1, <3>2
  <2>2. CASE t \in U
    <3>1. PICK k \in DOMAIN s : s[k].type = t /\ s[k].id = i
      BY <2>2 DEF Listing
    <3>2. J + k \in DOMAIN q /\ q[J + k] = s[k]
      BY <1>1, <1>2
    <3>3. QED BY <3>1, <3>2
  <2>3. QED BY <2>1, <2>2
<1>9. QED BY <1>2, <1>6, <1>7, <1>8 DEF Listing, q

LEMMA AllEntitiesAre ==
    ASSUME NEW c, NEW N, ListsOK(c.lists, N)
    PROVE  Listing(selectAllEntities(c), c.lists, Types)
<1> DEFINE L == c.lists
           masks == Shown(L["inpaint_mask"], "inpaint_mask")
           regions == Shown(L["regional_guidance"], "regional_guidance")
           controls == Shown(L["control_layer"], "control_layer")
           rasters == Shown(L["raster_layer"], "raster_layer")
<1>1. selectAllEntities(c) = ((masks \o regions) \o controls) \o rasters
  BY DEF selectAllEntities, Shown
<1>2. Listing(masks, L, {"inpaint_mask"})
  BY ShownLists, TypeNames
<1>3. Listing(regions, L, {"regional_guidance"})
  BY ShownLists, TypeNames
<1>4. Listing(controls, L, {"control_layer"})
  BY ShownLists, TypeNames
<1>5. Listing(rasters, L, {"raster_layer"})
  BY ShownLists, TypeNames
<1> HIDE DEF masks, regions, controls, rasters
<1>6. Listing(masks \o regions, L, {"inpaint_mask"} \cup {"regional_guidance"})
  BY <1>2, <1>3, ListingsJoin
<1>7. Listing((masks \o regions) \o controls, L, ({"inpaint_mask"} \cup {"regional_guidance"}) \cup {"control_layer"})
  BY <1>4, <1>6, ListingsJoin
<1>8. Listing(((masks \o regions) \o controls) \o rasters, L,
              (({"inpaint_mask"} \cup {"regional_guidance"}) \cup {"control_layer"}) \cup {"raster_layer"})
  BY <1>5, <1>7, ListingsJoin
<1>9. (({"inpaint_mask"} \cup {"regional_guidance"}) \cup {"control_layer"}) \cup {"raster_layer"} = Types
  BY DEF Types
<1>10. QED BY <1>1, <1>8, <1>9

LEMMA NextInRing ==
    ASSUME NEW n, NEW k \in Nat, n \in 1 .. k, k > 1
    PROVE  (n % k) + 1 \in 1 .. k /\ (n % k) + 1 # n
<1>1. CASE n = k
  <2>1. n % k = 0
    BY <1>1
  <2>2. QED BY <1>1, <2>1
<1>2. CASE n # k
  <2>1. n \in Nat /\ n < k
    BY <1>2
  <2>2. n % k = n
    BY <2>1
  <2>3. QED BY <2>1, <2>2
<1>3. QED BY <1>1, <1>2

LEMMA DeletedOK ==
    ASSUME NEW c, NEW N, CanvasOK(c, N), NEW i \in Identifier, Exists(c, i)
    PROVE  Yields(Deleted(c, i), N, c)
<1> DEFINE L == c.lists
           all == selectAllEntities(c)
           K == Len(all)
           n == CHOOSE k \in DOMAIN all : all[k] = i
           m == (n % K) + 1
           next == IF K > 1 THEN all[m] ELSE None
           t == i.type
           kept == Without(L[t], {i.id})
           d == [c EXCEPT !.lists[t] = kept]
           f == resetInpaintMasksHiddenIfEmpty(d)
           r == [f EXCEPT !.selected = next]
<1>1. Deleted(c, i) = r
  BY DEF Deleted
<1>2. c \in CanvasType /\ ListsOK(L, N) /\ t \in Types /\ i.id \in Ids(L[t])
  BY DEF CanvasOK, Identifier, Exists
<1>3. Listing(all, L, Types)
  BY <1>2, AllEntitiesAre
<1> HIDE DEF all
<1>4. K \in Nat /\ DOMAIN all = 1 .. K /\ \A k \in DOMAIN all : all[k] \in Identifier
  BY <1>3 DEF Listing
<1>5. n \in DOMAIN all /\ all[n] = i
  <2>1. PICK k \in DOMAIN all : all[k].type = t /\ all[k].id = i.id
    BY <1>2, <1>3 DEF Listing
  <2>2. all[k] = i
    BY <1>4, <2>1, IdentifierIs
  <2>3. QED BY <2>2
<1> HIDE DEF n, K
<1>6. K > 1 => m \in DOMAIN all /\ m # n
  BY <1>4, <1>5, NextInRing
<1> HIDE DEF m
<1>7. next # None => /\ next \in Identifier /\ next.id \in Ids(L[next.type])
                     /\ next.type = t => next.id # i.id
  <2> SUFFICES ASSUME next # None PROVE /\ next \in Identifier /\ next.id \in Ids(L[next.type])
                                        /\ next # i
    BY <1>2, IdentifierIs
  <2>1. K > 1 /\ next = all[m]
    OBVIOUS
  <2> HIDE DEF next
  <2>2. QED BY <1>3, <1>4, <1>5, <1>6, <2>1 DEF Listing
<1> HIDE DEF next, t
<1>8. /\ kept \in Seq(EntityType) /\ ListsOK([L EXCEPT ![t] = kept], N)
      /\ \A x : x \in Ids(kept) <=> x \in Ids(L[t]) /\ x \notin {i.id}
  BY <1>2, Filtered
<1> HIDE DEF kept
<1>9. /\ d \in CanvasType /\ d.lists = [L EXCEPT ![t] = kept] /\ d.lists[t] = kept
      /\ \A u \in Types : u # t => d.lists[u] = L[u]
      /\ d.via = c.via /\ d.orphan = c.orphan
  BY <1>2, <1>8, WithList
<1> HIDE DEF d
<1>10. f \in CanvasType /\ f.lists = d.lists /\ f.via = c.via /\ f.orphan = c.orphan /\ MasksOK(f)
  BY <1>9, ResetIs DEF MasksOK
<1> HIDE DEF f
<1>11. /\ r \in CanvasType /\ r.lists = f.lists /\ r.hidden = f.hidden /\ r.via = f.via /\ r.orphan = f.orphan /\ r.selected = next
  <2>1. next \in Identifier \cup {None}
    BY <1>7
  <2>2. QED BY <1>10, <2>1 DEF CanvasType
<1> HIDE DEF r
<1>12. next # None => Exists(r, next)
  <2> SUFFICES ASSUME next # None PROVE next.id \in Ids(d.lists[next.type])
    BY <1>10, <1>11 DEF Exists
  <2>1. next.type \in Types
    BY <1>7, IdentifierIs
  <2>2. CASE next.type = t
    BY <1>7, <1>8, <1>9, <2>2
  <2>3. CASE next.type # t
    BY <1>7, <1>9, <2>1, <2>3
  <2>4. QED BY <2>2, <2>3
<1>13. CanvasOK(r, N) /\ r.via = c.via /\ r.orphan = c.orphan
  BY <1>8, <1>9, <1>10, <1>11, <1>12 DEF CanvasOK, SelectionOK, MasksOK
<1>14. QED BY <1>1, <1>13 DEF Yields

-------------------------------------------------------------------------------
(* Models, and the entities that refer to them.                            *)

LEMMA NoneIs == None.type = "none" /\ NoAdapter.type = "none"
BY DEF None, NoAdapter

LEMMA ControlAdaptersAre == \A a \in ControlAdapter : a # NoAdapter
<1> SUFFICES ASSUME NEW a \in ControlAdapter PROVE a # NoAdapter
  OBVIOUS
<1>1. a.type # "none"
  BY DEF ControlAdapter
<1>2. QED BY <1>1, NoneIs

LEMMA SeqIs ==
    ASSUME NEW S, NEW s \in Seq(S)
    PROVE  DOMAIN s \subseteq Nat /\ (s # <<>> => DOMAIN s # {}) /\ \A n \in DOMAIN s : s[n] \in S
<1>1. DOMAIN s = 1 .. Len(s) /\ Len(s) \in Nat /\ \A n \in DOMAIN s : s[n] \in S
  OBVIOUS
<1>2. s # <<>> => DOMAIN s # {}
  <2>1. Len(s) = 0 => s = <<>>
    OBVIOUS
  <2>2. Len(s) # 0 => 1 \in DOMAIN s
    BY <1>1
  <2>3. QED BY <2>1, <2>2
<1>3. DOMAIN s \subseteq Nat
  BY <1>1
<1>4. QED BY <1>1, <1>2, <1>3

LEMMA ModelsAre ==
    /\ DOMAIN ControlModels \subseteq Nat /\ DOMAIN ControlModels # {}
    /\ DOMAIN RefModels \subseteq Nat
    /\ \A n \in DOMAIN ControlModels : ControlModels[n] \in ControlModel
    /\ \A n \in DOMAIN RefModels : RefModels[n] \in RefModel
<1>1. ControlModels \in Seq(ControlModel) /\ ControlModels # <<>> /\ RefModels \in Seq(RefModel)
  BY CanvasEntitiesAssumption
<1>2. QED BY <1>1, SeqIs

LEMMA RefModelIsNot == \A m \in RefModel : m # None /\ m.type \in {"ip_adapter", "flux_redux"}
<1> SUFFICES ASSUME NEW m \in RefModel PROVE m # None /\ m.type \in {"ip_adapter", "flux_redux"}
  OBVIOUS
<1>1. m.type \in {"ip_adapter", "flux_redux"}
  BY DEF RefModel
<1>2. QED BY <1>1, NoneIs

LEMMA DefaultAdaptersAre == DefaultAdapters \subseteq ControlAdapter
<1> DEFINE fitting == {n \in DOMAIN ControlModels : base \in {"", ControlModels[n].base}}
           models == IF fitting # {} THEN fitting ELSE DOMAIN ControlModels
           nets == {n \in models : ControlModels[n].type = "controlnet"}
           chosen == IF nets # {} THEN nets ELSE {Min(models)}
           adapter(m) == [type |-> IF m.type = "t2i_adapter" THEN "t2i_adapter" ELSE "controlnet", model |-> m]
<1>1. DefaultAdapters = {adapter(ControlModels[n]) : n \in chosen}
  BY DEF DefaultAdapters
<1>2. models \subseteq DOMAIN ControlModels /\ models # {}
  BY ModelsAre
<1>3. chosen \subseteq DOMAIN ControlModels
  <2>1. Min(models) \in DOMAIN ControlModels
    BY <1>2, ModelsAre, MinIs
  <2>2. QED BY <1>2, <2>1
<1> HIDE DEF chosen
<1>4. \A m \in ControlModel : adapter(m) \in ControlAdapter
  BY DEF ControlAdapter
<1>5. QED BY <1>1, <1>3, <1>4, ModelsAre

LEMMA AdapterForIs ==
    ASSUME NEW a \in ControlAdapter, NEW m \in ControlModel
    PROVE  AdapterFor(a, m) \in ControlAdapter
<1>1. m.type \in {"controlnet", "t2i_adapter", "control_lora"}
  BY DEF ControlModel
<1>2. m # None
  BY <1>1, NoneIs
<1>3. a.type \in {"controlnet", "t2i_adapter", "control_lora", "z_image_control"}
  BY DEF ControlAdapter
<1> DEFINE type == CASE m = None -> a.type
                     [] m # None /\ m.type = "controlnet" ->
                           IF m.base = "z-image" THEN "z_image_control" ELSE "controlnet"
                     [] OTHER -> IF a.type = "z_image_control" THEN a.type ELSE m.type
<1>4. type \in {"controlnet", "t2i_adapter", "control_lora", "z_image_control"}
  BY <1>1, <1>2, <1>3
<1>5. AdapterFor(a, m) = [type |-> type, model |-> m]
  BY DEF AdapterFor
<1> HIDE DEF type
<1>6. QED BY <1>4, <1>5 DEF ControlAdapter

\* Whatever model a reference image is given, its config is of that model's kind.
LEMMA RefForIs ==
    ASSUME NEW config, ConfigOK(config), NEW m \in RefModel \cup {None}
    PROVE  ConfigOK(RefFor(config, m))
<1>1. /\ config \in ConfigType /\ config.type \in {"ip_adapter", "flux_redux"}
      /\ config.clip \in {"ViT-H", "ViT-L", "none"}
  BY DEF ConfigOK, ConfigType
<1>2. m # None => m.type \in {"ip_adapter", "flux_redux"}
  BY RefModelIsNot
<1>3. CASE m = None
  <2>1. RefFor(config, m) = [config EXCEPT !.model = None]
    BY <1>3 DEF RefFor
  <2>2. QED BY <1>1, <2>1 DEF ConfigOK, ConfigType
<1>4. CASE m # None /\ config.type = "ip_adapter" /\ m.type = "flux_redux"
  <2>1. RefFor(config, m) = [config EXCEPT !.type = "flux_redux", !.model = m, !.clip = "none"]
    BY <1>4 DEF RefFor
  <2>2. QED BY <1>1, <1>4, <2>1 DEF ConfigOK, ConfigType
<1>5. CASE m # None /\ config.type = "flux_redux" /\ m.type = "ip_adapter"
  <2>1. RefFor(config, m) = [initialIPAdapter EXCEPT !.model = m]
    BY <1>5 DEF RefFor
  <2>2. QED BY <1>5, <2>1 DEF ConfigOK, ConfigType, initialIPAdapter
<1>6. CASE m # None /\ config.type = "flux_redux" /\ m.type = "flux_redux"
  BY <1>6 DEF RefFor
<1>7. CASE m # None /\ config.type = "ip_adapter" /\ m.type = "ip_adapter"
  <2> DEFINE clip == IF m.base = "flux" THEN "ViT-L" ELSE IF config.clip = "ViT-L" THEN "ViT-H" ELSE config.clip
  <2>1. RefFor(config, m) = [config EXCEPT !.model = m, !.clip = clip]
    BY <1>1, <1>7 DEF RefFor
  <2>2. clip \in {"ViT-H", "ViT-L"}
    BY <1>1, <1>7 DEF ConfigOK
  <2> HIDE DEF clip
  <2>3. QED BY <1>1, <1>7, <2>1, <2>2 DEF ConfigOK, ConfigType
<1>8. QED BY <1>1, <1>2, <1>3, <1>4, <1>5, <1>6, <1>7

LEMMA DefaultRefImageConfigIs ==
    ASSUME installed \subseteq DOMAIN RefModels
    PROVE  ConfigOK(DefaultRefImageConfig)
<1> DEFINE fits == {n \in installed : RefModels[n].type = "ip_adapter" /\ RefModels[n].base = base}
           m == RefModels[Min(fits)]
           clip == IF base = "flux" THEN "ViT-L" ELSE initialIPAdapter.clip
<1>1. CASE fits = {}
  BY <1>1 DEF DefaultRefImageConfig, ConfigOK, ConfigType, initialIPAdapter
<1>2. CASE fits # {}
  <2>1. DefaultRefImageConfig = [initialIPAdapter EXCEPT !.model = m, !.clip = clip]
    BY <1>2 DEF DefaultRefImageConfig, initialIPAdapter
  <2>2. Min(fits) \in fits
    BY <1>2, ModelsAre, MinIs
  <2>3. m \in RefModel /\ m.type = "ip_adapter"
    BY <2>2, ModelsAre
  <2>4. clip \in {"ViT-H", "ViT-L"}
    BY DEF initialIPAdapter
  <2> HIDE DEF m, clip, fits
  <2>5. QED BY <2>1, <2>3, <2>4 DEF ConfigOK, ConfigType, initialIPAdapter
<1>3. QED BY <1>1, <1>2

\* The reference images of an entity of type t with this id.
RefsOK(t, id, refs, N) ==
    /\ refs \in Seq(RefType) /\ Distinct(refs)
    /\ Ids(refs) \subseteq 1 .. N - 1 /\ id \notin Ids(refs)
    /\ refs # <<>> => t = "regional_guidance"
    /\ \A k \in DOMAIN refs : ConfigOK(refs[k].config)

LEMMA EntityFrom ==
    ASSUME NEW t, NEW N, NEW e \in EntityType, e.id \in 1 .. N - 1, RefsOK(t, e.id, e.refs, N),
           t = "control_layer" <=> e.adapter # NoAdapter
    PROVE  EntityOK(t, e, N)
BY DEF EntityOK, RefsOK, IdsOf, Distinct

LEMMA EntityHas ==
    ASSUME NEW t, NEW N, NEW e, EntityOK(t, e, N)
    PROVE  /\ e \in EntityType /\ e.id \in 1 .. N - 1 /\ RefsOK(t, e.id, e.refs, N)
           /\ t = "control_layer" <=> e.adapter # NoAdapter
BY DEF EntityOK, RefsOK, IdsOf, Distinct, EntityType

LEMMA NoRefs == \A t, id, N : RefsOK(t, id, <<>>, N)
BY DEF RefsOK, Distinct, Ids

LEMMA OneRef ==
    ASSUME NEW N \in Nat, NEW id, NEW x \in 1 .. N - 1, x # id, NEW config, ConfigOK(config)
    PROVE  /\ RefsOK("regional_guidance", id, <<[id |-> x, config |-> config]>>, N)
           /\ Ids(<<[id |-> x, config |-> config]>>) = {x}
<1> DEFINE ref == [id |-> x, config |-> config]
           refs == <<ref>>
<1>1. ref \in RefType
  BY DEF RefType, ConfigOK
<1>2. ref.id = x /\ ref.config = config
  OBVIOUS
<1> HIDE DEF ref
<1>3. refs \in Seq(RefType) /\ DOMAIN refs = {1} /\ refs[1] = ref
  BY <1>1
<1> HIDE DEF refs
<1>4. Ids(refs) = {x}
  BY <1>2, <1>3 DEF Ids
<1>5. Distinct(refs)
  BY <1>3 DEF Distinct
<1>6. RefsOK("regional_guidance", id, refs, N)
  BY <1>2, <1>3, <1>4, <1>5 DEF RefsOK
<1>7. QED BY <1>4, <1>6 DEF refs, ref

\* An entity as it is made: with an id, and what it is made of.
Made(e, id, on, drawn, a, refs) ==
    e = [id |-> id, enabled |-> on, drawn |-> drawn, adapter |-> a, refs |-> refs]

LEMMA EntityMade ==
    ASSUME NEW t, NEW N \in Nat, NEW id \in 1 .. N - 1, NEW on \in BOOLEAN, NEW drawn \in BOOLEAN,
           NEW a, a = NoAdapter \/ a \in ControlAdapter, t = "control_layer" <=> a # NoAdapter,
           NEW refs, RefsOK(t, id, refs, N), NEW e, Made(e, id, on, drawn, a, refs)
    PROVE  EntityOK(t, e, N) /\ IdsOf(e) = {id} \cup Ids(refs)
<1>1. e \in EntityType
  BY DEF EntityType, RefsOK, Made
<1>2. e.id = id /\ e.adapter = a /\ e.refs = refs
  BY DEF Made
<1>3. EntityOK(t, e, N)
  BY <1>1, <1>2, EntityFrom
<1>4. QED BY <1>2, <1>3 DEF IdsOf

\* The truth values, as the names of fields' contents.
Yes == TRUE
No == FALSE

LEMMA YesAndNo == Yes \in BOOLEAN /\ No \in BOOLEAN
BY DEF Yes, No

\* The adapter of a new layer.
NewAdapter(t) == IF t = "control_layer" THEN initialControlNet ELSE NoAdapter

LEMMA NewAdapterIs ==
    ASSUME NEW t
    PROVE  /\ NewAdapter(t) = NoAdapter \/ NewAdapter(t) \in ControlAdapter
           /\ t = "control_layer" <=> NewAdapter(t) # NoAdapter
<1>1. initialControlNet \in ControlAdapter
  BY DEF initialControlNet, ControlAdapter
<1>2. QED BY <1>1, ControlAdaptersAre DEF NewAdapter

LEMMA NewEntityHas == \A t, id : Made(NewEntity(t, id), id, Yes, No, NewAdapter(t), <<>>)
BY DEF NewEntity, NewAdapter, Made, Yes, No

LEMMA MadeDrawn ==
    ASSUME NEW b, NEW id, NEW on, NEW d, NEW a, NEW refs, Made(b, id, on, d, a, refs), NEW drawn
    PROVE  Made([b EXCEPT !.drawn = drawn], id, on, drawn, a, refs)
BY DEF Made

LEMMA MadeWithAdapter ==
    ASSUME NEW b, NEW id, NEW on, NEW d, NEW a, NEW refs, Made(b, id, on, d, a, refs), NEW drawn, NEW adapter
    PROVE  Made([b EXCEPT !.drawn = drawn, !.adapter = adapter], id, on, drawn, adapter, refs)
<1> DEFINE x == [b EXCEPT !.drawn = drawn]
<1>1. Made(x, id, on, drawn, a, refs)
  BY MadeDrawn
<1>2. [b EXCEPT !.drawn = drawn, !.adapter = adapter] = [x EXCEPT !.adapter = adapter]
  OBVIOUS
<1> HIDE DEF x
<1>3. Made([x EXCEPT !.adapter = adapter], id, on, drawn, adapter, refs)
  BY <1>1 DEF Made
<1>4. QED BY <1>2, <1>3

LEMMA MadeWithRefs ==
    ASSUME NEW b, NEW id, NEW on, NEW d, NEW a, NEW refs, Made(b, id, on, d, a, refs), NEW more
    PROVE  Made([b EXCEPT !.refs = more], id, on, d, a, more)
BY DEF Made

LEMMA FreshIsStranger ==
    ASSUME NEW L, NEW N \in Nat, ListsOK(L, N), NEW e, IdsOf(e) \cap (1 .. N - 1) = {}
    PROVE  Stranger(e, L)
<1>1. \A u \in Types : \A m \in DOMAIN L[u] : IdsOf(L[u][m]) \subseteq 1 .. N - 1
  BY ListsAre
<1>2. QED BY <1>1 DEF Stranger

\* A new entity is added, or takes the place of another one.
LEMMA AddsNew ==
    ASSUME NEW c, NEW N \in Nat, CanvasOK(c, N), NEW M \in Nat, N <= M, NEW t \in Types,
           NEW e, EntityOK(t, e, M), IdsOf(e) \cap (1 .. N - 1) = {},
           NEW after, NEW delete, delete \subseteq 1 .. N - 1, NEW disable
    PROVE  Yields(Added(c, t, e, after, delete, disable, TRUE), M, c)
<1>1. c \in CanvasType /\ ListsOK(c.lists, N) /\ ListsOK(c.lists, M) /\ MasksOK(c)
  BY ListsGrow DEF CanvasOK
<1>2. Stranger(e, c.lists)
  BY <1>1, FreshIsStranger
<1>3. e.id \notin delete
  BY DEF IdsOf
<1>4. QED BY <1>1, <1>2, <1>3, AddedOK

LEMMA ConvertsTo ==
    ASSUME NEW c, NEW N \in Nat, CanvasOK(c, N), NEW M \in Nat, N <= M, NEW i \in Identifier, NEW t \in Types,
           NEW e, EntityOK(t, e, M), IdsOf(e) \cap (1 .. N - 1) = {}, NEW replace \in BOOLEAN
    PROVE  Yields(Converted(c, i, t, e, replace), M, c)
<1>1. c \in CanvasType /\ ListsOK(c.lists, N) /\ ListsOK(c.lists, M) /\ MasksOK(c)
  BY ListsGrow DEF CanvasOK
<1>2. Stranger(e, c.lists)
  BY <1>1, FreshIsStranger
<1>3. PICK s \in Types : i.type = s
  BY IdentifierIs
<1>4. QED BY <1>1, <1>2, <1>3, ConvertedOK

-------------------------------------------------------------------------------
(* The steps.                                                              *)

\* What most actions do: the canvas becomes one of the ids up to the next.
LEMMA CanvasStepKeeps ==
    ASSUME IInv, NEW n \in Nat, Fresh(n), CanvasOK(canvas', nextId + n), saved = None => canvas'.via = "edits",
           installed' \subseteq installed, merging' \in {merging, None}, saved' = saved
    PROVE  IInv'
<1>1. nextId' = nextId + n /\ nextId' \in Nat \ {0} /\ nextId \in Nat /\ nextId <= nextId'
  BY DEF IInv, Fresh
<1>2. saved # None => CanvasOK(saved', nextId') /\ saved'.via = "edits"
  BY <1>1, CanvasGrows DEF IInv
<1>3. merging' # None => merging'.type \in Types /\ merging'.delete \subseteq 1 .. nextId' - 1
  <2>1. 1 .. nextId - 1 \subseteq 1 .. nextId' - 1
    BY <1>1
  <2>2. merging' # None => merging' = merging /\ merging # None
    OBVIOUS
  <2>3. QED BY <2>1, <2>2 DEF IInv
<1>4. QED BY <1>1, <1>2, <1>3 DEF IInv

LEMMA YieldsKeeps ==
    ASSUME IInv, NEW n \in Nat, Fresh(n), Yields(canvas', nextId + n, canvas),
           installed' \subseteq installed, merging' \in {merging, None}, saved' = saved
    PROVE  IInv'
<1>1. CanvasOK(canvas', nextId + n) /\ (saved = None => canvas'.via = "edits")
  BY DEF Yields, IInv
<1>2. QED BY <1>1, CanvasStepKeeps

LEMMA BecomesKeeps ==
    ASSUME IInv, NEW n \in Nat, Fresh(n), NEW r, Becomes(r), Yields(r, nextId + n, canvas)
    PROVE  IInv'
BY YieldsKeeps DEF Becomes

LEMMA InvGives ==
    ASSUME IInv
    PROVE  /\ nextId \in Nat /\ nextId \in 1 .. nextId /\ CanvasOK(canvas, nextId)
           /\ canvas \in CanvasType /\ ListsOK(canvas.lists, nextId)
           /\ installed \subseteq DOMAIN RefModels
BY DEF IInv, CanvasOK

LEMMA EntitiesAre ==
    ASSUME IInv, NEW i \in Entities(canvas)
    PROVE  /\ i \in Identifier /\ Exists(canvas, i) /\ i.type \in Types
           /\ EntityOK(i.type, Entity(canvas, i), nextId)
<1> DEFINE t == i.type
           list == canvas.lists[t]
<1>1. i \in Identifier /\ Exists(canvas, i) /\ t \in Types /\ i.id \in Ids(list)
  BY InvGives DEF Entities, Identifier, Exists
<1>2. ListsOK(canvas.lists, nextId)
  BY InvGives
<1>3. list \in Seq(EntityType) /\ \A n \in DOMAIN list : EntityOK(t, list[n], nextId)
  <2> HIDE DEF t
  <2>1. QED BY <1>1, <1>2, ListsAre
<1>4. Position(list, i.id) \in DOMAIN list
  <2> HIDE DEF list
  <2>1. QED BY <1>1, <1>3, PositionIs
<1>5. QED BY <1>1, <1>3, <1>4 DEF Entity

\* A new entity that has no reference images.
LEMMA NewEntityIs ==
    ASSUME NEW t \in Types, NEW N \in Nat \ {0}, NEW M \in Nat, N < M,
           NEW on \in BOOLEAN, NEW drawn \in BOOLEAN, NEW a, a = NoAdapter \/ a \in ControlAdapter,
           t = "control_layer" <=> a # NoAdapter, NEW e, Made(e, N, on, drawn, a, <<>>)
    PROVE  EntityOK(t, e, M) /\ IdsOf(e) \cap (1 .. N - 1) = {}
<1>1. N \in 1 .. M - 1 /\ RefsOK(t, N, <<>>, M)
  BY NoRefs
<1>2. EntityOK(t, e, M) /\ IdsOf(e) = {N} \cup Ids(<<>>)
  <2> DEFINE refs == <<>>
  <2>1. RefsOK(t, N, refs, M) /\ Made(e, N, on, drawn, a, refs)
    BY <1>1
  <2> HIDE DEF refs
  <2>2. EntityOK(t, e, M) /\ IdsOf(e) = {N} \cup Ids(refs)
    BY <1>1, <2>1, EntityMade
  <2>3. QED BY <2>2 DEF refs
<1>3. Ids(<<>>) = {}
  BY DEF Ids
<1>4. N \notin 1 .. N - 1
  OBVIOUS
<1>5. QED BY <1>2, <1>3, <1>4

LEMMA AddEntityKeeps == ASSUME IInv, AddEntity PROVE IInv'
<1>1. PICK t \in Types :
        LET after == IF canvas.selected # None /\ canvas.selected.type = t THEN canvas.selected ELSE None
        IN  Becomes(Added(canvas, t, NewEntity(t, nextId), after, {}, {}, TRUE))
  BY DEF AddEntity
<1> DEFINE after == IF canvas.selected # None /\ canvas.selected.type = t THEN canvas.selected ELSE None
           e == NewEntity(t, nextId)
<1>2. Fresh(1) /\ Becomes(Added(canvas, t, e, after, {}, {}, TRUE))
  BY <1>1 DEF AddEntity
<1> HIDE DEF after
<1>3. nextId \in Nat \ {0} /\ nextId + 1 \in Nat /\ nextId < nextId + 1 /\ CanvasOK(canvas, nextId)
  BY DEF IInv
<1>4. EntityOK(t, e, nextId + 1) /\ IdsOf(e) \cap (1 .. nextId - 1) = {}
  <2>1. Made(e, nextId, Yes, No, NewAdapter(t), <<>>)
    BY NewEntityHas
  <2> HIDE DEF e
  <2>2. QED BY <1>3, <2>1, YesAndNo, NewAdapterIs, NewEntityIs
<1> HIDE DEF e
<1>5. Yields(Added(canvas, t, e, after, {}, {}, TRUE), nextId + 1, canvas)
  <2>1. {} \subseteq 1 .. nextId - 1 /\ nextId <= nextId + 1
    BY <1>3
  <2>2. QED BY <1>3, <1>4, <2>1, AddsNew
<1>6. QED BY <1>2, <1>5, BecomesKeeps

LEMMA AddFromImageKeeps == ASSUME IInv, AddFromImage PROVE IInv'
<1>1. PICK adapter \in DefaultAdapters :
        Becomes(Added(canvas, "control_layer",
                      [NewEntity("control_layer", nextId) EXCEPT !.drawn = TRUE, !.adapter = adapter],
                      None, {}, {}, TRUE))
  BY DEF AddFromImage
<1> DEFINE t == "control_layer"
           e == [NewEntity(t, nextId) EXCEPT !.drawn = TRUE, !.adapter = adapter]
<1>2. Fresh(1) /\ Becomes(Added(canvas, t, e, None, {}, {}, TRUE))
  BY <1>1 DEF AddFromImage
<1>3. nextId \in Nat \ {0} /\ nextId + 1 \in Nat /\ nextId < nextId + 1 /\ CanvasOK(canvas, nextId)
  BY DEF IInv
<1>4. EntityOK(t, e, nextId + 1) /\ IdsOf(e) \cap (1 .. nextId - 1) = {}
  <2>1. adapter \in ControlAdapter /\ adapter # NoAdapter /\ t \in Types
    BY DefaultAdaptersAre, ControlAdaptersAre, TypeNames
  <2>2. Made(e, nextId, Yes, Yes, adapter, <<>>)
    <3>1. e = [NewEntity(t, nextId) EXCEPT !.drawn = Yes, !.adapter = adapter]
      BY DEF Yes
    <3> HIDE DEF e
    <3>2. QED BY <3>1, NewEntityHas, MadeWithAdapter
  <2> HIDE DEF e
  <2>3. QED BY <1>3, <2>1, <2>2, YesAndNo, NewEntityIs
<1> HIDE DEF e
<1>5. Yields(Added(canvas, t, e, None, {}, {}, TRUE), nextId + 1, canvas)
  <2>1. {} \subseteq 1 .. nextId - 1 /\ nextId <= nextId + 1 /\ t \in Types
    BY <1>3, TypeNames
  <2> HIDE DEF t
  <2>2. QED BY <1>3, <1>4, <2>1, AddsNew
<1>6. QED BY <1>2, <1>5, BecomesKeeps

\* A new region with a reference image of this id.
LEMMA NewRegionIs ==
    ASSUME IInv, NEW x \in Nat, x > nextId, NEW M \in Nat, M > x, NEW e,
           e = [NewEntity("regional_guidance", nextId) EXCEPT !.refs = <<[id |-> x, config |-> DefaultRefImageConfig]>>]
    PROVE  EntityOK("regional_guidance", e, M) /\ IdsOf(e) = {nextId, x}
<1> DEFINE t == "regional_guidance"
           refs == <<[id |-> x, config |-> DefaultRefImageConfig]>>
<1>1. nextId \in 1 .. M - 1 /\ x \in 1 .. M - 1 /\ x # nextId /\ ConfigOK(DefaultRefImageConfig)
  BY DefaultRefImageConfigIs DEF IInv
<1>2. RefsOK(t, nextId, refs, M) /\ Ids(refs) = {x}
  BY <1>1, OneRef
<1>3. Made(e, nextId, Yes, No, NoAdapter, refs)
  <2>1. NewAdapter(t) = NoAdapter
    BY DEF NewAdapter
  <2> HIDE DEF refs
  <2>2. Made([NewEntity(t, nextId) EXCEPT !.refs = refs], nextId, Yes, No, NewAdapter(t), refs)
    BY NewEntityHas, MadeWithRefs
  <2>3. QED BY <2>1, <2>2 DEF refs
<1> HIDE DEF refs
<1>4. EntityOK(t, e, M) /\ IdsOf(e) = {nextId} \cup Ids(refs)
  <2>1. t = "control_layer" <=> NoAdapter # NoAdapter
    OBVIOUS
  <2> HIDE DEF t
  <2>2. QED BY <1>1, <1>2, <1>3, <2>1, YesAndNo, EntityMade
<1>5. QED BY <1>2, <1>4

LEMMA AddRegionWithRefImageKeeps == ASSUME IInv, AddRegionWithRefImage PROVE IInv'
<1> DEFINE t == "regional_guidance"
           e == [NewEntity(t, nextId) EXCEPT !.refs = <<[id |-> nextId + 1, config |-> DefaultRefImageConfig]>>]
<1>1. Fresh(2) /\ Becomes(Added(canvas, t, e, None, {}, {}, TRUE))
  BY DEF AddRegionWithRefImage
<1>2. nextId \in Nat \ {0} /\ nextId + 1 \in Nat /\ nextId + 2 \in Nat /\ nextId <= nextId + 2
      /\ nextId + 1 > nextId /\ nextId + 2 > nextId + 1 /\ CanvasOK(canvas, nextId)
  BY DEF IInv
<1>3. EntityOK(t, e, nextId + 2) /\ IdsOf(e) = {nextId, nextId + 1}
  BY <1>2, NewRegionIs
<1> HIDE DEF e
<1>4. Yields(Added(canvas, t, e, None, {}, {}, TRUE), nextId + 2, canvas)
  <2>1. {} \subseteq 1 .. nextId - 1 /\ t \in Types /\ IdsOf(e) \cap (1 .. nextId - 1) = {}
    BY <1>2, <1>3, TypeNames
  <2> HIDE DEF t
  <2>2. QED BY <1>2, <1>3, <2>1, AddsNew
<1>5. QED BY <1>1, <1>4, BecomesKeeps

LEMMA ConvertEntityKeeps == ASSUME IInv, ConvertEntity PROVE IInv'
<1>1. PICK i \in Entities(canvas), t \in Types, replace \in BOOLEAN :
       \E adapter \in IF t = "control_layer" THEN DefaultAdapters ELSE {NoAdapter} :
        LET new == [NewEntity(t, nextId) EXCEPT !.drawn = Entity(canvas, i).drawn, !.adapter = adapter]
        IN  Becomes(Converted(canvas, i, t, new, replace))
  BY DEF ConvertEntity
<1>2. PICK adapter \in IF t = "control_layer" THEN DefaultAdapters ELSE {NoAdapter} :
        LET new == [NewEntity(t, nextId) EXCEPT !.drawn = Entity(canvas, i).drawn, !.adapter = adapter]
        IN  Becomes(Converted(canvas, i, t, new, replace))
  BY <1>1
<1> DEFINE e == [NewEntity(t, nextId) EXCEPT !.drawn = Entity(canvas, i).drawn, !.adapter = adapter]
<1>3. Fresh(1) /\ Becomes(Converted(canvas, i, t, e, replace))
  BY <1>2 DEF ConvertEntity
<1>4. nextId \in Nat \ {0} /\ nextId + 1 \in Nat /\ nextId < nextId + 1 /\ nextId <= nextId + 1
      /\ CanvasOK(canvas, nextId) /\ i \in Identifier
  BY EntitiesAre DEF IInv
<1>5. EntityOK(t, e, nextId + 1) /\ IdsOf(e) \cap (1 .. nextId - 1) = {}
  <2>1. /\ adapter = NoAdapter \/ adapter \in ControlAdapter
        /\ t = "control_layer" <=> adapter # NoAdapter
    BY DefaultAdaptersAre, ControlAdaptersAre
  <2> DEFINE drawn == Entity(canvas, i).drawn
  <2>2. drawn \in BOOLEAN
    BY EntitiesAre DEF EntityOK, EntityType
  <2> HIDE DEF drawn
  <2>3. Made(e, nextId, Yes, drawn, adapter, <<>>)
    BY NewEntityHas, MadeWithAdapter DEF drawn
  <2> HIDE DEF e
  <2>4. QED BY <1>4, <2>1, <2>2, <2>3, YesAndNo, NewEntityIs, SMTT(30)
<1> HIDE DEF e
<1>6. Yields(Converted(canvas, i, t, e, replace), nextId + 1, canvas)
  BY <1>4, <1>5, ConvertsTo
<1>7. QED BY <1>3, <1>6, BecomesKeeps

LEMMA entityDeletedKeeps == ASSUME IInv, entityDeleted PROVE IInv'
<1>1. PICK i \in Entities(canvas) : Becomes(Deleted(canvas, i)) /\ Fresh(0)
  BY DEF entityDeleted
<1>2. i \in Identifier /\ Exists(canvas, i) /\ CanvasOK(canvas, nextId) /\ nextId + 0 = nextId
  BY EntitiesAre DEF IInv
<1>3. Yields(Deleted(canvas, i), nextId + 0, canvas)
  BY <1>2, DeletedOK
<1>4. QED BY <1>1, <1>3, BecomesKeeps

\* An entity gets other data, and perhaps new reference images.
LEMMA UpdateKeeps ==
    ASSUME IInv, NEW n \in Nat, Fresh(n), NEW M, M = nextId + n, NEW i \in Entities(canvas),
           NEW e, e = Entity(canvas, i), NEW new, EntityOK(i.type, new, M), new.id = e.id,
           IdsOf(new) \subseteq IdsOf(e) \cup (nextId .. M - 1), Becomes(Updated(canvas, i, new))
    PROVE  IInv'
<1>1. i \in Identifier /\ Exists(canvas, i) /\ CanvasOK(canvas, nextId) /\ nextId \in Nat
      /\ M \in Nat /\ nextId <= M
  BY EntitiesAre DEF IInv
<1>2. Yields(Updated(canvas, i, new), M, canvas)
  BY <1>1, UpdatedOK
<1>3. QED BY <1>2, BecomesKeeps

\* ... and the same reference images.
LEMMA DataKeeps ==
    ASSUME IInv, Fresh(0), NEW i \in Entities(canvas), NEW e, e = Entity(canvas, i),
           NEW new \in EntityType, new.id = e.id, new.refs = e.refs,
           new.adapter = e.adapter \/ (e.adapter # NoAdapter /\ new.adapter # NoAdapter),
           Becomes(Updated(canvas, i, new))
    PROVE  IInv'
<1>1. EntityOK(i.type, e, nextId) /\ nextId = nextId + 0
  BY EntitiesAre DEF IInv
<1>2. EntityOK(i.type, new, nextId)
  BY <1>1, EntityHas, EntityFrom
<1>3. IdsOf(new) = IdsOf(e)
  BY DEF IdsOf
<1>4. QED BY <1>1, <1>2, <1>3, UpdateKeeps

LEMMA EntityDrawnKeeps == ASSUME IInv, EntityDrawn PROVE IInv'
<1>1. Fresh(0) /\ \E i \in Entities(canvas) : Becomes(Updated(canvas, i, [Entity(canvas, i) EXCEPT !.drawn = TRUE]))
  BY DEF EntityDrawn
<1>2. PICK i \in Entities(canvas) : Becomes(Updated(canvas, i, [Entity(canvas, i) EXCEPT !.drawn = TRUE]))
  BY <1>1
<1> DEFINE e == Entity(canvas, i)
           new == [e EXCEPT !.drawn = TRUE]
<1>3. e \in EntityType
  BY EntitiesAre DEF EntityOK
<1>4. Becomes(Updated(canvas, i, new)) /\ e = Entity(canvas, i)
  BY <1>2
<1> HIDE DEF e
<1>5. new \in EntityType /\ new.id = e.id /\ new.refs = e.refs /\ new.adapter = e.adapter
  BY <1>3 DEF EntityType
<1> HIDE DEF new
<1>6. QED BY <1>1, <1>4, <1>5, DataKeeps

LEMMA entityResetKeeps == ASSUME IInv, entityReset PROVE IInv'
<1>1. Fresh(0) /\ \E i \in Entities(canvas) :
        Becomes(Updated(canvas, i, [Entity(canvas, i) EXCEPT !.drawn = FALSE, !.enabled = TRUE]))
  BY DEF entityReset
<1>2. PICK i \in Entities(canvas) :
        Becomes(Updated(canvas, i, [Entity(canvas, i) EXCEPT !.drawn = FALSE, !.enabled = TRUE]))
  BY <1>1
<1> DEFINE e == Entity(canvas, i)
           new == [e EXCEPT !.drawn = FALSE, !.enabled = TRUE]
<1>3. e \in EntityType
  BY EntitiesAre DEF EntityOK
<1>4. Becomes(Updated(canvas, i, new)) /\ e = Entity(canvas, i)
  BY <1>2
<1> HIDE DEF e
<1>5. new \in EntityType /\ new.id = e.id /\ new.refs = e.refs /\ new.adapter = e.adapter
  BY <1>3 DEF EntityType
<1> HIDE DEF new
<1>6. QED BY <1>1, <1>4, <1>5, DataKeeps

LEMMA entityIsEnabledToggledKeeps == ASSUME IInv, entityIsEnabledToggled PROVE IInv'
<1>1. Fresh(0) /\ \E i \in Entities(canvas) :
        Becomes(Updated(canvas, i, [Entity(canvas, i) EXCEPT !.enabled = ~@]))
  BY DEF entityIsEnabledToggled
<1>2. PICK i \in Entities(canvas) : Becomes(Updated(canvas, i, [Entity(canvas, i) EXCEPT !.enabled = ~@]))
  BY <1>1
<1> DEFINE e == Entity(canvas, i)
           on == ~e.enabled
           new == [e EXCEPT !.enabled = on]
<1>3. e \in EntityType
  BY EntitiesAre DEF EntityOK
<1>4. Becomes(Updated(canvas, i, new)) /\ e = Entity(canvas, i)
  BY <1>2
<1>5. on \in BOOLEAN
  OBVIOUS
<1> HIDE DEF e, on
<1>6. new \in EntityType /\ new.id = e.id /\ new.refs = e.refs /\ new.adapter = e.adapter
  BY <1>3, <1>5 DEF EntityType
<1> HIDE DEF new
<1>7. QED BY <1>1, <1>4, <1>6, DataKeeps

LEMMA controlLayerModelChangedKeeps == ASSUME IInv, controlLayerModelChanged PROVE IInv'
<1>1. Fresh(0)
  BY DEF controlLayerModelChanged
<1>2. PICK i \in Entities(canvas), n \in DOMAIN ControlModels :
        /\ i.type = "control_layer"
        /\ Becomes(Updated(canvas, i, [Entity(canvas, i) EXCEPT !.adapter = AdapterFor(@, ControlModels[n])]))
  BY DEF controlLayerModelChanged
<1> DEFINE e == Entity(canvas, i)
           adapter == AdapterFor(e.adapter, ControlModels[n])
           new == [e EXCEPT !.adapter = adapter]
<1>3. e \in EntityType /\ e.adapter # NoAdapter
  BY <1>2, EntitiesAre DEF EntityOK
<1>4. Becomes(Updated(canvas, i, new)) /\ e = Entity(canvas, i)
  BY <1>2
<1> HIDE DEF e
<1>5. adapter \in ControlAdapter /\ adapter # NoAdapter
  <2>1. e.adapter \in ControlAdapter /\ ControlModels[n] \in ControlModel
    BY <1>3, ModelsAre DEF EntityType
  <2>2. QED BY <2>1, AdapterForIs, ControlAdaptersAre
<1> HIDE DEF adapter
<1>6. new \in EntityType /\ new.id = e.id /\ new.refs = e.refs /\ new.adapter = adapter
  BY <1>3, <1>5 DEF EntityType
<1> HIDE DEF new
<1>7. QED BY <1>1, <1>3, <1>4, <1>5, <1>6, DataKeeps

\* Nothing but the selection and what is hidden.
LEMMA entitySelectedKeeps == ASSUME IInv, entitySelected PROVE IInv'
<1>1. PICK i \in Entities(canvas) : Becomes([canvas EXCEPT !.selected = i]) /\ Fresh(0)
  BY DEF entitySelected
<1> DEFINE r == [canvas EXCEPT !.selected = i]
<1>2. /\ i \in Identifier /\ Exists(canvas, i) /\ canvas \in CanvasType /\ CanvasOK(canvas, nextId)
      /\ nextId + 0 = nextId
  BY EntitiesAre, InvGives
<1>3. /\ r \in CanvasType /\ r.lists = canvas.lists /\ r.hidden = canvas.hidden /\ r.via = canvas.via /\ r.orphan = canvas.orphan
      /\ r.selected = i
  BY <1>2 DEF CanvasType
<1>4. Becomes(r) /\ Fresh(0)
  BY <1>1
<1> HIDE DEF r
<1>5. Yields(r, nextId, canvas)
  BY <1>2, <1>3 DEF CanvasOK, SelectionOK, MasksOK, Exists, Yields
<1>6. QED BY <1>2, <1>4, <1>5, BecomesKeeps

LEMMA HiddenIs ==
    ASSUME NEW c, NEW N, CanvasOK(c, N), NEW h \in [Types -> BOOLEAN], NEW d, d = [c EXCEPT !.hidden = h]
    PROVE  /\ Yields(resetInpaintMasksHiddenIfEmpty(d), N, c)
           /\ h["inpaint_mask"] = c.hidden["inpaint_mask"] => Yields(d, N, c)
<1>1. /\ d \in CanvasType /\ d.lists = c.lists /\ d.hidden = h /\ d.via = c.via /\ d.orphan = c.orphan /\ d.selected = c.selected
      /\ c \in CanvasType
  BY DEF CanvasOK, CanvasType
<1>2. SelectionOK(c) /\ ListsOK(c.lists, N) /\ MasksOK(c)
  BY DEF CanvasOK
<1> DEFINE r == resetInpaintMasksHiddenIfEmpty(d)
<1>3. /\ r \in CanvasType /\ r.lists = d.lists /\ r.selected = d.selected /\ r.via = d.via /\ r.orphan = d.orphan
      /\ r.lists["inpaint_mask"] = <<>> => ~r.hidden["inpaint_mask"]
  BY <1>1, ResetIs
<1> HIDE DEF r
<1>4. Yields(r, N, c)
  BY <1>1, <1>2, <1>3 DEF CanvasOK, SelectionOK, MasksOK, Exists, Yields
<1>5. h["inpaint_mask"] = c.hidden["inpaint_mask"] => Yields(d, N, c)
  BY <1>1, <1>2 DEF CanvasOK, SelectionOK, MasksOK, Exists, Yields
<1>6. QED BY <1>4, <1>5 DEF r

LEMMA allEntitiesOfTypeIsHiddenToggledKeeps == ASSUME IInv, allEntitiesOfTypeIsHiddenToggled PROVE IInv'
<1>1. PICK t \in Types :
        LET c == [canvas EXCEPT !.hidden[t] = ~@]
        IN  Becomes(IF t = "inpaint_mask" THEN resetInpaintMasksHiddenIfEmpty(c) ELSE c)
  BY DEF allEntitiesOfTypeIsHiddenToggled
<1> DEFINE on == ~canvas.hidden[t]
           h == [canvas.hidden EXCEPT ![t] = on]
           d == [canvas EXCEPT !.hidden = h]
           r == resetInpaintMasksHiddenIfEmpty(d)
<1>2. Fresh(0) /\ Becomes(IF t = "inpaint_mask" THEN r ELSE d)
  <2>1. d = [canvas EXCEPT !.hidden[t] = ~@]
    OBVIOUS
  <2> HIDE DEF d
  <2>2. QED BY <1>1, <2>1 DEF allEntitiesOfTypeIsHiddenToggled
<1>3. CanvasOK(canvas, nextId) /\ nextId + 0 = nextId /\ canvas.hidden \in [Types -> BOOLEAN]
  BY InvGives DEF CanvasType
<1>4. on \in BOOLEAN
  OBVIOUS
<1> HIDE DEF on
<1>5. h \in [Types -> BOOLEAN] /\ \A u \in Types : u # t => h[u] = canvas.hidden[u]
  BY <1>3, <1>4
<1> HIDE DEF h
<1>6. /\ Yields(r, nextId, canvas)
      /\ h["inpaint_mask"] = canvas.hidden["inpaint_mask"] => Yields(d, nextId, canvas)
  <2>1. d = [canvas EXCEPT !.hidden = h]
    OBVIOUS
  <2> HIDE DEF d
  <2>2. QED BY <1>3, <1>5, <2>1, HiddenIs
<1> HIDE DEF r, d
<1>7. CASE t = "inpaint_mask"
  BY <1>2, <1>3, <1>6, <1>7, BecomesKeeps
<1>8. CASE t # "inpaint_mask"
  BY <1>2, <1>3, <1>5, <1>6, <1>8, TypeNames, BecomesKeeps
<1>9. QED BY <1>7, <1>8

LEMMA allNonRasterLayersIsHiddenToggledKeeps == ASSUME IInv, allNonRasterLayersIsHiddenToggled PROVE IInv'
<1> DEFINE others == Types \ {"raster_layer"}
           hide == \E t \in others : canvas.lists[t] # <<>> /\ ~canvas.hidden[t]
           h == [t \in Types |-> IF t \in others THEN hide ELSE canvas.hidden[t]]
           d == [canvas EXCEPT !.hidden = h]
           r == resetInpaintMasksHiddenIfEmpty(d)
<1>1. Fresh(0) /\ Becomes(r)
  BY DEF allNonRasterLayersIsHiddenToggled
<1>2. CanvasOK(canvas, nextId) /\ nextId + 0 = nextId /\ canvas.hidden \in [Types -> BOOLEAN]
  BY InvGives DEF CanvasType
<1>3. hide \in BOOLEAN
  OBVIOUS
<1> HIDE DEF hide
<1>4. h \in [Types -> BOOLEAN]
  BY <1>2, <1>3
<1> HIDE DEF h
<1>5. Yields(r, nextId, canvas)
  <2>1. d = [canvas EXCEPT !.hidden = h]
    OBVIOUS
  <2> HIDE DEF d
  <2>2. QED BY <1>2, <1>4, <2>1, HiddenIs
<1> HIDE DEF r
<1>6. QED BY <1>1, <1>2, <1>5, BecomesKeeps

LEMMA MoveEntityKeeps == ASSUME IInv, MoveEntity PROVE IInv'
<1>1. PICK i \in Entities(canvas) :
        \E to \in DOMAIN canvas.lists[i.type] \ {Position(canvas.lists[i.type], i.id)} :
            Becomes([canvas EXCEPT !.lists[i.type] = Moved(@, Position(@, i.id), to)])
  BY DEF MoveEntity
<1>2. PICK to \in DOMAIN canvas.lists[i.type] :
            Becomes([canvas EXCEPT !.lists[i.type] = Moved(@, Position(@, i.id), to)])
  BY <1>1
<1> DEFINE t == i.type
           list == canvas.lists[t]
           n == Position(list, i.id)
           r == [canvas EXCEPT !.lists[t] = Moved(list, n, to)]
<1>3. Becomes(r) /\ Fresh(0) /\ list = canvas.lists[t] /\ to \in DOMAIN list
  BY <1>2 DEF MoveEntity
<1>4. CanvasOK(canvas, nextId) /\ nextId + 0 = nextId /\ t \in Types /\ i.id \in Ids(list)
  BY InvGives, EntitiesAre DEF Exists
<1>5. n \in DOMAIN list
  <2>1. list \in Seq(EntityType)
    BY <1>4 DEF CanvasOK, CanvasType
  <2> HIDE DEF list
  <2>2. QED BY <1>4, <2>1, PositionIs
<1>6. Yields(r, nextId, canvas)
  <2> HIDE DEF t, list, n
  <2>1. QED BY <1>3, <1>4, <1>5, MovedOK
<1> HIDE DEF r
<1>7. QED BY <1>3, <1>4, <1>6, BecomesKeeps

\* The reference images of a region.
LEMMA RefsChangeKeeps ==
    ASSUME IInv, NEW n \in Nat, Fresh(n), NEW M, M = nextId + n, NEW i \in Entities(canvas),
           NEW e, e = Entity(canvas, i), NEW refs, RefsOK(i.type, e.id, refs, M),
           Ids(refs) \subseteq Ids(e.refs) \cup (nextId .. M - 1),
           Becomes(Updated(canvas, i, [e EXCEPT !.refs = refs]))
    PROVE  IInv'
<1> DEFINE new == [e EXCEPT !.refs = refs]
<1>1. EntityOK(i.type, e, nextId) /\ e \in EntityType /\ nextId \in Nat /\ 1 .. nextId - 1 \subseteq 1 .. M - 1
  BY EntitiesAre DEF EntityOK, IInv
<1>2. /\ new \in EntityType /\ new.id = e.id /\ new.adapter = e.adapter /\ new.refs = refs
  BY <1>1 DEF EntityType, RefsOK
<1>3. Becomes(Updated(canvas, i, new))
  OBVIOUS
<1> HIDE DEF new
<1>4. EntityOK(i.type, new, M)
  <2>1. e.id \in 1 .. M - 1 /\ (i.type = "control_layer" <=> e.adapter # NoAdapter)
    BY <1>1, EntityHas
  <2>2. QED BY <1>2, <2>1, EntityFrom
<1>5. IdsOf(new) \subseteq IdsOf(e) \cup (nextId .. M - 1)
  BY <1>2 DEF IdsOf
<1>6. QED BY <1>2, <1>3, <1>4, <1>5, UpdateKeeps

\* One more.
NewRef(id) == [id |-> id, config |-> DefaultRefImageConfig]

LEMMA RefAppended ==
    ASSUME NEW t, t = "regional_guidance", NEW id, NEW N \in Nat \ {0}, NEW refs, RefsOK(t, id, refs, N),
           id \in 1 .. N - 1, ConfigOK(DefaultRefImageConfig), NEW more, more = Append(refs, NewRef(N))
    PROVE  RefsOK(t, id, more, N + 1) /\ Ids(more) \subseteq Ids(refs) \cup (N .. (N + 1) - 1)
<1> DEFINE K == Len(refs)
           ref == NewRef(N)
<1>1. refs \in Seq(RefType) /\ K \in Nat /\ DOMAIN refs = 1 .. K
  BY DEF RefsOK
<1>2. ref \in RefType /\ ref.id = N /\ ConfigOK(ref.config)
  BY DEF RefType, ConfigOK, NewRef
<1>3. /\ more \in Seq(RefType) /\ DOMAIN more = 1 .. K + 1 /\ more[K + 1] = ref
      /\ \A k \in 1 .. K : more[k] = refs[k]
  BY <1>1, <1>2
<1> HIDE DEF K
<1>4. \A k \in DOMAIN more : k = K + 1 \/ k \in DOMAIN refs
  BY <1>1, <1>3
<1>5. \A k \in DOMAIN refs : more[k] = refs[k] /\ refs[k].id \in 1 .. N - 1 /\ refs[k].id # N
  BY <1>1, <1>3, IdsAre DEF RefsOK
<1>6. Distinct(more)
  BY <1>2, <1>3, <1>4, <1>5 DEF Distinct, RefsOK
<1>7. ASSUME NEW x \in Ids(more) PROVE x = N \/ x \in Ids(refs)
  <2>1. PICK k \in DOMAIN more : more[k].id = x
    BY <1>7, IdsAre
  <2>2. QED BY <1>2, <1>3, <1>4, <1>5, <2>1, IdsAre
<1>8. Ids(refs) \subseteq 1 .. N - 1 /\ id \notin Ids(refs)
  BY DEF RefsOK
<1>9. Ids(more) \subseteq 1 .. (N + 1) - 1 /\ id \notin Ids(more)
  <2>1. N \in 1 .. (N + 1) - 1 /\ 1 .. N - 1 \subseteq 1 .. (N + 1) - 1 /\ id # N
    OBVIOUS
  <2>2. QED BY <1>7, <1>8, <2>1
<1>10. \A k \in DOMAIN more : ConfigOK(more[k].config)
  BY <1>2, <1>3, <1>4, <1>5 DEF RefsOK
<1>11. N \in N .. (N + 1) - 1
  OBVIOUS
<1>12. QED BY <1>3, <1>6, <1>7, <1>9, <1>10, <1>11 DEF RefsOK

LEMMA rgRefImageAddedKeeps == ASSUME IInv, rgRefImageAdded PROVE IInv'
<1>1. PICK i \in Entities(canvas) :
        /\ i.type = "regional_guidance"
        /\ Becomes(Updated(canvas, i, [Entity(canvas, i) EXCEPT
                        !.refs = Append(@, [id |-> nextId, config |-> DefaultRefImageConfig])]))
  BY DEF rgRefImageAdded
<1> DEFINE e == Entity(canvas, i)
           refs == Append(e.refs, [id |-> nextId, config |-> DefaultRefImageConfig])
<1>2. Fresh(1) /\ Becomes(Updated(canvas, i, [e EXCEPT !.refs = refs])) /\ e = Entity(canvas, i)
  BY <1>1 DEF rgRefImageAdded
<1>3. EntityOK(i.type, e, nextId) /\ nextId \in Nat \ {0}
  BY EntitiesAre DEF IInv
<1> HIDE DEF e
<1>4. e.id \in 1 .. nextId - 1 /\ RefsOK(i.type, e.id, e.refs, nextId)
  BY <1>3, EntityHas
<1>5. ConfigOK(DefaultRefImageConfig)
  BY DefaultRefImageConfigIs DEF IInv
<1> DEFINE old == e.refs
           id == e.id
           t == i.type
<1>6. RefsOK(i.type, e.id, refs, nextId + 1) /\ Ids(refs) \subseteq Ids(e.refs) \cup (nextId .. (nextId + 1) - 1)
  <2>1. /\ refs = Append(old, NewRef(nextId))
        /\ t = "regional_guidance" /\ id \in 1 .. nextId - 1 /\ RefsOK(t, id, old, nextId)
    BY <1>1, <1>4 DEF NewRef
  <2> HIDE DEF old, id, t, refs
  <2>2. RefsOK(t, id, refs, nextId + 1) /\ Ids(refs) \subseteq Ids(old) \cup (nextId .. (nextId + 1) - 1)
    BY <1>3, <1>5, <2>1, RefAppended
  <2>3. QED BY <2>2 DEF old, id, t
<1> HIDE DEF refs
<1>7. QED BY <1>2, <1>6, RefsChangeKeeps

\* One less.
LEMMA RefTaken ==
    ASSUME NEW t, NEW id, NEW N, NEW refs, RefsOK(t, id, refs, N), NEW gone, NEW rest, rest = Without(refs, gone)
    PROVE  RefsOK(t, id, rest, N) /\ Ids(rest) \subseteq Ids(refs)
<1>1. refs \in Seq(RefType) /\ Distinct(refs)
  BY DEF RefsOK
<1>2. rest \in Seq(RefType) /\ Taken(rest, refs, gone, Len(refs))
  BY <1>1, WithoutIs
<1>3. Distinct(rest) /\ \A n \in DOMAIN rest : \E m \in DOMAIN refs : rest[n] = refs[m]
  BY <1>1, <1>2 DEF Taken
<1>4. Ids(rest) \subseteq Ids(refs)
  <2> SUFFICES ASSUME NEW x \in Ids(rest) PROVE x \in Ids(refs)
    OBVIOUS
  <2>1. PICK n \in DOMAIN rest : rest[n].id = x
    BY IdsAre
  <2>2. PICK m \in DOMAIN refs : rest[n] = refs[m]
    BY <1>3
  <2>3. QED BY <2>1, <2>2, IdsAre
<1>5. rest # <<>> => refs # <<>>
  <2> SUFFICES ASSUME rest # <<>> PROVE refs # <<>>
    OBVIOUS
  <2>1. DOMAIN rest # {}
    BY <1>2, SeqIs
  <2>2. DOMAIN refs # {}
    BY <1>3, <2>1
  <2>3. QED BY <2>2
<1>6. \A n \in DOMAIN rest : ConfigOK(rest[n].config)
  BY <1>3 DEF RefsOK
<1>7. QED BY <1>2, <1>3, <1>4, <1>5, <1>6 DEF RefsOK

LEMMA rgRefImageDeletedKeeps == ASSUME IInv, rgRefImageDeleted PROVE IInv'
<1>1. PICK i \in Entities(canvas) : \E r \in Ids(Entity(canvas, i).refs) :
        Becomes(Updated(canvas, i, [Entity(canvas, i) EXCEPT !.refs = Without(@, {r})]))
  BY DEF rgRefImageDeleted
<1>2. PICK r : Becomes(Updated(canvas, i, [Entity(canvas, i) EXCEPT !.refs = Without(@, {r})]))
  BY <1>1
<1> DEFINE e == Entity(canvas, i)
           refs == Without(e.refs, {r})
<1>3. Fresh(0) /\ Becomes(Updated(canvas, i, [e EXCEPT !.refs = refs])) /\ e = Entity(canvas, i)
  BY <1>2 DEF rgRefImageDeleted
<1>4. EntityOK(i.type, e, nextId) /\ nextId = nextId + 0
  BY EntitiesAre DEF IInv
<1> HIDE DEF e
<1>5. RefsOK(i.type, e.id, e.refs, nextId)
  BY <1>4, EntityHas
<1>6. RefsOK(i.type, e.id, refs, nextId) /\ Ids(refs) \subseteq Ids(e.refs)
  BY <1>5, RefTaken
<1> HIDE DEF refs
<1>7. QED BY <1>3, <1>4, <1>6, RefsChangeKeeps

\* The same ones, with other configs.
LEMMA RefsConfigured ==
    ASSUME NEW t, NEW id, NEW N, NEW refs, RefsOK(t, id, refs, N), NEW new, DOMAIN new = DOMAIN refs,
           new = [k \in DOMAIN new |-> new[k]],
           \A k \in DOMAIN refs : new[k].id = refs[k].id /\ new[k] \in RefType /\ ConfigOK(new[k].config)
    PROVE  RefsOK(t, id, new, N) /\ Ids(new) = Ids(refs)
<1>1. refs \in Seq(RefType) /\ Distinct(refs) /\ DOMAIN refs = 1 .. Len(refs) /\ Len(refs) \in Nat
  BY DEF RefsOK
<1>2. new \in Seq(RefType)
  <2>1. new \in [1 .. Len(refs) -> RefType]
    BY <1>1
  <2>2. QED BY <1>1, <2>1
<1>3. Ids(new) = Ids(refs)
  BY DEF Ids
<1>4. Distinct(new)
  BY <1>1 DEF Distinct
<1>5. new # <<>> => refs # <<>>
  <2>1. refs = <<>> => DOMAIN new = {}
    OBVIOUS
  <2>2. QED BY <1>2, <2>1, SeqIs
<1>6. QED BY <1>2, <1>3, <1>4, <1>5 DEF RefsOK

LEMMA RefConfigured ==
    ASSUME NEW ref \in RefType, NEW config, ConfigOK(config)
    PROVE  LET new == [ref EXCEPT !.config = config]
           IN  new \in RefType /\ new.id = ref.id /\ ConfigOK(new.config)
<1>1. config \in ConfigType
  BY DEF ConfigOK
<1>2. QED BY <1>1 DEF RefType

LEMMA rgRefImageModelChangedKeeps == ASSUME IInv, rgRefImageModelChanged PROVE IInv'
<1>1. PICK i \in Entities(canvas), n \in installed : \E k \in DOMAIN Entity(canvas, i).refs :
        Becomes(Updated(canvas, i, [Entity(canvas, i) EXCEPT !.refs[k].config = RefFor(@, RefModels[n])]))
  BY DEF rgRefImageModelChanged
<1>2. PICK k \in DOMAIN Entity(canvas, i).refs :
        Becomes(Updated(canvas, i, [Entity(canvas, i) EXCEPT !.refs[k].config = RefFor(@, RefModels[n])]))
  BY <1>1
<1> DEFINE e == Entity(canvas, i)
           config == RefFor(e.refs[k].config, RefModels[n])
           ref == [e.refs[k] EXCEPT !.config = config]
           refs == [e.refs EXCEPT ![k] = ref]
<1>3. Fresh(0) /\ Becomes(Updated(canvas, i, [e EXCEPT !.refs = refs])) /\ e = Entity(canvas, i)
  <2>1. [e EXCEPT !.refs[k].config = RefFor(@, RefModels[n])] = [e EXCEPT !.refs = refs]
    OBVIOUS
  <2>2. QED BY <1>2, <2>1 DEF rgRefImageModelChanged
<1>4. EntityOK(i.type, e, nextId) /\ nextId = nextId + 0 /\ k \in DOMAIN e.refs
  BY EntitiesAre DEF IInv
<1> HIDE DEF e
<1>5. RefsOK(i.type, e.id, e.refs, nextId)
  BY <1>4, EntityHas
<1>6. \A m \in DOMAIN e.refs : e.refs[m] \in RefType /\ ConfigOK(e.refs[m].config)
  BY <1>5, SeqIs DEF RefsOK
<1>7. RefModels[n] \in RefModel
  BY ModelsAre DEF IInv
<1>8. ref \in RefType /\ ref.id = e.refs[k].id /\ ConfigOK(ref.config)
  <2>1. ConfigOK(config)
    BY <1>4, <1>6, <1>7, RefForIs
  <2> HIDE DEF config
  <2>2. QED BY <1>4, <1>6, <2>1, RefConfigured
<1> HIDE DEF ref
<1>9. RefsOK(i.type, e.id, refs, nextId) /\ Ids(refs) = Ids(e.refs)
  <2>1. DOMAIN refs = DOMAIN e.refs /\ refs = [m \in DOMAIN refs |-> refs[m]]
    OBVIOUS
  <2>2. \A m \in DOMAIN e.refs : refs[m] = IF m = k THEN ref ELSE e.refs[m]
    BY <1>4
  <2> HIDE DEF refs
  <2>3. \A m \in DOMAIN e.refs : refs[m].id = e.refs[m].id /\ refs[m] \in RefType /\ ConfigOK(refs[m].config)
    BY <1>6, <1>8, <2>2
  <2>4. QED BY <1>5, <2>1, <2>3, RefsConfigured
<1> HIDE DEF refs
<1>10. QED BY <1>3, <1>4, <1>9, RefsChangeKeeps

LEMMA entityDuplicatedKeeps == ASSUME IInv, entityDuplicated PROVE IInv'
<1>1. PICK i \in Entities(canvas) :
        LET e == Entity(canvas, i)
            new == [e EXCEPT !.id = nextId,
                             !.refs = [k \in DOMAIN e.refs |-> [e.refs[k] EXCEPT !.id = nextId + k]]]
        IN  /\ Becomes(Added(canvas, i.type, new, i, {}, {}, TRUE))
            /\ Fresh(1 + Len(e.refs))
  BY DEF entityDuplicated
<1> DEFINE e == Entity(canvas, i)
           K == Len(e.refs)
           refs == [k \in DOMAIN e.refs |-> [e.refs[k] EXCEPT !.id = nextId + k]]
           new == [e EXCEPT !.id = nextId, !.refs = refs]
           M == nextId + (1 + K)
<1>2. Fresh(1 + K) /\ Becomes(Added(canvas, i.type, new, i, {}, {}, TRUE))
  BY <1>1
<1>3. EntityOK(i.type, e, nextId) /\ nextId \in Nat \ {0} /\ CanvasOK(canvas, nextId) /\ i.type \in Types
  BY EntitiesAre DEF IInv
<1> HIDE DEF e
<1>4. RefsOK(i.type, e.id, e.refs, nextId) /\ e \in EntityType /\ (i.type = "control_layer" <=> e.adapter # NoAdapter)
  BY <1>3, EntityHas
<1>5. /\ K \in Nat /\ DOMAIN e.refs = 1 .. K /\ DOMAIN refs = 1 .. K
      /\ \A k \in 1 .. K : e.refs[k] \in RefType
  BY <1>4 DEF RefsOK
<1>6. \A k \in 1 .. K : /\ refs[k] \in RefType /\ refs[k].id = nextId + k /\ refs[k].config = e.refs[k].config
  BY <1>3, <1>5, SMTT(30) DEF RefType
<1>7. refs \in Seq(RefType)
  <2>1. refs = [k \in DOMAIN e.refs |-> refs[k]]
    OBVIOUS
  <2> HIDE DEF refs
  <2>2. refs \in [1 .. K -> RefType]
    BY <1>5, <1>6, <2>1
  <2>3. QED BY <1>5, <2>2
<1> HIDE DEF refs, K
<1>8. M \in Nat /\ nextId <= M /\ 1 + K \in Nat /\ nextId \in 1 .. M - 1 /\ nextId \notin 1 .. nextId - 1
      /\ {} \subseteq 1 .. nextId - 1
  BY <1>3, <1>5
<1>9. ASSUME NEW x \in Ids(refs) PROVE x \in 1 .. M - 1 /\ x \notin 1 .. nextId - 1 /\ x # nextId
  <2>1. PICK k \in DOMAIN refs : refs[k].id = x
    BY <1>9, IdsAre
  <2>2. k \in 1 .. K /\ x = nextId + k
    BY <1>5, <1>6, <2>1
  <2>3. QED BY <1>3, <1>5, <2>2
<1> HIDE DEF M
<1>10. RefsOK(i.type, nextId, refs, M)
  <2>1. Distinct(refs)
    <3> SUFFICES ASSUME NEW j \in DOMAIN refs, NEW k \in DOMAIN refs, refs[j].id = refs[k].id PROVE j = k
      BY DEF Distinct
    <3>1. j \in 1 .. K /\ k \in 1 .. K /\ nextId + j = nextId + k
      BY <1>5, <1>6
    <3>2. QED BY <1>3, <1>5, <3>1
  <2>2. refs # <<>> => i.type = "regional_guidance"
    <3>1. e.refs = <<>> => DOMAIN refs = {}
      BY <1>5
    <3>2. refs # <<>> => e.refs # <<>>
      BY <1>7, <3>1, SeqIs
    <3>3. QED BY <1>4, <3>2 DEF RefsOK
  <2>3. \A k \in DOMAIN refs : ConfigOK(refs[k].config)
    BY <1>4, <1>5, <1>6 DEF RefsOK
  <2>4. QED BY <1>7, <1>9, <2>1, <2>2, <2>3 DEF RefsOK
<1>11. new \in EntityType /\ new.id = nextId /\ new.refs = refs /\ new.adapter = e.adapter
  BY <1>3, <1>4, <1>7 DEF EntityType
<1> HIDE DEF new
<1>12. EntityOK(i.type, new, M) /\ IdsOf(new) \cap (1 .. nextId - 1) = {}
  <2>1. EntityOK(i.type, new, M)
    BY <1>4, <1>8, <1>10, <1>11, EntityFrom
  <2>2. QED BY <1>8, <1>9, <1>11, <2>1 DEF IdsOf
<1>13. Yields(Added(canvas, i.type, new, i, {}, {}, TRUE), M, canvas)
  <2> DEFINE t == i.type
  <2>1. t \in Types /\ EntityOK(t, new, M)
    BY <1>3, <1>12
  <2>2. nextId \in Nat /\ M \in Nat /\ nextId <= M
    BY <1>3, <1>8
  <2> HIDE DEF t
  <2>3. Yields(Added(canvas, t, new, i, {}, {}, TRUE), M, canvas)
    BY <1>3, <1>8, <1>12, <2>1, <2>2, AddsNew
  <2>4. QED BY <2>3 DEF t
<1>14. QED BY <1>2, <1>8, <1>13, BecomesKeeps DEF M

-------------------------------------------------------------------------------
(* Merges.  The canvas may change meanwhile: what is left is that the ids to *)
(* delete are old ones, so that the new entity is not among them.            *)

LEMMA mergeByEntityIdentifiersKeeps == ASSUME IInv, mergeByEntityIdentifiers PROVE IInv'
<1>1. UNCHANGED <<canvas, base, installed, saved>> /\ nextId' = nextId
  BY DEF mergeByEntityIdentifiers, Fresh, IInv
<1>2. merging'.type \in Types /\ merging'.delete \subseteq 1 .. nextId - 1
  <2>1. CASE \E t \in Types :
                LET seen == SelectSeq(canvas.lists[t], isVisibleEntity)
                IN  merging' = [type |-> t, top |-> Last(seen).id, delete |-> {}, disable |-> {}]
    BY <2>1
  <2>2. CASE \E i \in Entities(canvas) : \E disable \in BOOLEAN :
                LET pair == {Below(canvas, i), i.id}
                IN  /\ Below(canvas, i) # 0
                    /\ merging' = [type |-> i.type, top |-> i.id,
                                   delete |-> IF disable THEN {} ELSE pair,
                                   disable |-> IF disable THEN pair ELSE {}]
    <3>1. PICK i \in Entities(canvas) : \E disable \in BOOLEAN :
                LET pair == {Below(canvas, i), i.id}
                IN  /\ Below(canvas, i) # 0
                    /\ merging' = [type |-> i.type, top |-> i.id,
                                   delete |-> IF disable THEN {} ELSE pair,
                                   disable |-> IF disable THEN pair ELSE {}]
      BY <2>2
    <3> DEFINE t == i.type
               list == canvas.lists[t]
               n == Position(list, i.id)
    <3>2. t \in Types /\ i.id \in Ids(list) /\ ListsOK(canvas.lists, nextId)
      BY EntitiesAre, InvGives DEF Exists
    <3>3. /\ list \in Seq(EntityType) /\ DOMAIN list = 1 .. Len(list) /\ Len(list) \in Nat
          /\ \A k \in DOMAIN list : list[k].id \in 1 .. nextId - 1
      <4> HIDE DEF t
      <4>1. QED BY <3>2, ListsAre DEF IdsOf
    <3>4. i.id \in 1 .. nextId - 1
      BY <3>2, <3>3, IdsAre
    <3>5. Below(canvas, i) \in 1 .. nextId - 1
      <4>1. Below(canvas, i) = IF n > 1 THEN list[n - 1].id ELSE 0
        BY DEF Below
      <4>2. n \in DOMAIN list
        BY <3>2, <3>3, PositionIs
      <4> HIDE DEF list, n
      <4>3. n > 1 => n - 1 \in DOMAIN list
        BY <3>3, <4>2
      <4>4. QED BY <3>1, <3>3, <4>1, <4>3
    <3>6. merging'.type = t /\ merging'.delete \subseteq {Below(canvas, i), i.id}
      BY <3>1
    <3>7. QED BY <3>2, <3>4, <3>5, <3>6
  <2>3. QED BY <2>1, <2>2 DEF mergeByEntityIdentifiers
<1>3. QED BY <1>1, <1>2 DEF IInv

LEMMA MergeEndsKeeps == ASSUME IInv, MergeEnds PROVE IInv'
<1> DEFINE t == merging.type
           e == [NewEntity(t, nextId) EXCEPT !.drawn = TRUE]
           after == getEntityIdentifier(t, merging.top)
           r == Added(canvas, t, e, after, merging.delete, merging.disable, TRUE)
<1>1. /\ canvas' = r /\ Fresh(1) /\ merging' = None /\ installed' = installed /\ saved' = saved
      /\ merging # None
  BY DEF MergeEnds, Idle
<1>2. nextId \in Nat \ {0} /\ nextId + 1 \in Nat /\ nextId < nextId + 1 /\ nextId <= nextId + 1
      /\ CanvasOK(canvas, nextId) /\ t \in Types /\ merging.delete \subseteq 1 .. nextId - 1
  BY <1>1 DEF IInv
<1> HIDE DEF t, after
<1>3. EntityOK(t, e, nextId + 1) /\ IdsOf(e) \cap (1 .. nextId - 1) = {}
  <2>1. Made(e, nextId, Yes, Yes, NewAdapter(t), <<>>)
    <3>1. e = [NewEntity(t, nextId) EXCEPT !.drawn = Yes]
      BY DEF Yes
    <3>2. QED BY <3>1, NewEntityHas, MadeDrawn
  <2> HIDE DEF e
  <2>2. QED BY <1>2, <2>1, YesAndNo, NewAdapterIs, NewEntityIs
<1> HIDE DEF e
<1>4. Yields(r, nextId + 1, canvas)
  BY <1>2, <1>3, AddsNew
<1>5. QED BY <1>1, <1>4, YieldsKeeps

LEMMA MergeFailsKeeps == ASSUME IInv, MergeFails PROVE IInv'
<1>1. Fresh(0) /\ merging' = None /\ canvas' = canvas /\ installed' = installed /\ saved' = saved
  BY DEF MergeFails
<1>2. nextId' = nextId
  BY <1>1 DEF IInv, Fresh
<1>3. QED BY <1>1, <1>2 DEF IInv

-------------------------------------------------------------------------------
(* Saved canvases.                                                           *)

LEMMA SaveKeeps == ASSUME IInv, Save PROVE IInv'
<1>1. /\ saved' = [canvas EXCEPT !.via = "edits"] /\ saved = None
      /\ canvas' = canvas /\ installed' = installed /\ merging' = merging /\ nextId' = nextId
  BY DEF Save, Fresh, IInv
<1>2. canvas \in CanvasType /\ canvas.via = "edits"
  BY <1>1 DEF IInv, CanvasOK
<1>3. saved' = canvas
  BY <1>1, <1>2 DEF CanvasType
<1>4. QED BY <1>1, <1>2, <1>3 DEF IInv

\* What was saved, with the ids there are.
LEMMA SavedIs ==
    ASSUME IInv, saved # None
    PROVE  /\ nextId + 0 = nextId /\ CanvasOK(saved, nextId) /\ saved \in CanvasType /\ saved.via = "edits"
           /\ CanvasOK(canvas, nextId) /\ canvas \in CanvasType
BY DEF IInv, CanvasOK

LEMMA canvasSnapshotRestoredKeeps == ASSUME IInv, canvasSnapshotRestored PROVE IInv'
<1>1. Fresh(0) /\ saved # None /\ Becomes(saved)
  BY DEF canvasSnapshotRestored
<1>2. CanvasOK(saved, nextId + 0) /\ saved.via = "edits"
  BY <1>1, SavedIs
<1>3. QED BY <1>1, <1>2, CanvasStepKeeps DEF Becomes

LEMMA canvasMetadataRecalledKeeps == ASSUME IInv, canvasMetadataRecalled PROVE IInv'
<1> DEFINE d == [canvas EXCEPT !.lists = saved.lists, !.via = "edits", !.orphan = canvas.selected]
           r == resetInpaintMasksHiddenIfEmpty(d)
<1>1. Fresh(0) /\ saved # None /\ Becomes(r)
  BY DEF canvasMetadataRecalled
<1>2. d \in CanvasType /\ d.lists = saved.lists /\ d.via = "edits" /\ d.orphan = d.selected
  BY <1>1, SavedIs DEF CanvasType
<1> HIDE DEF d
<1>3. r \in CanvasType /\ r.lists = saved.lists /\ r.via = "edits" /\ r.orphan = r.selected /\ MasksOK(r)
  BY <1>2, ResetIs DEF MasksOK
<1> HIDE DEF r
<1>4. CanvasOK(r, nextId + 0)
  BY <1>1, <1>3, SavedIs DEF CanvasOK, SelectionOK
<1>5. QED BY <1>1, <1>3, <1>4, CanvasStepKeeps DEF Becomes

LEMMA canvasProjectRecalledKeeps == ASSUME IInv, canvasProjectRecalled PROVE IInv'
<1> DEFINE r == [canvas EXCEPT !.lists = saved.lists, !.selected = saved.selected,
                               !.via = "project", !.orphan = saved.orphan]
<1>1. Fresh(0) /\ saved # None /\ Becomes(r)
  BY DEF canvasProjectRecalled
<1>2. r \in CanvasType /\ r.lists = saved.lists /\ r.selected = saved.selected /\ r.via = "project"
      /\ r.orphan = saved.orphan
  BY <1>1, SavedIs DEF CanvasType
<1> HIDE DEF r
<1>3. CanvasOK(r, nextId + 0)
  <2>1. ListsOK(r.lists, nextId) /\ MasksOK(r)
    BY <1>1, <1>2, SavedIs DEF CanvasOK, MasksOK
  <2>2. SelectionOK(r)
    <3>1. saved.selected = None \/ Exists(saved, saved.selected) \/ saved.selected = saved.orphan
      BY <1>1, SavedIs DEF CanvasOK, SelectionOK
    <3>2. QED BY <1>2, <3>1 DEF SelectionOK, Exists
  <2>3. QED BY <1>1, <1>2, <2>1, <2>2, SavedIs DEF CanvasOK
<1>4. QED BY <1>1, <1>3, CanvasStepKeeps DEF Becomes

-------------------------------------------------------------------------------
(* The canvas starts anew.                                                   *)

LEMMA EmptyCanvasIs ==
    ASSUME NEW N
    PROVE  CanvasOK(EmptyCanvas, N) /\ EmptyCanvas.via = "edits"
<1> DEFINE lists == [t \in Types |-> <<>>]
           hidden == [t \in Types |-> FALSE]
<1>1. /\ EmptyCanvas.lists = lists /\ EmptyCanvas.hidden = hidden
      /\ EmptyCanvas.selected = None /\ EmptyCanvas.via = "edits"
  BY DEF EmptyCanvas
<1>2. lists \in [Types -> Seq(EntityType)] /\ \A t \in Types : lists[t] = <<>> /\ DOMAIN lists[t] = {}
  OBVIOUS
<1>3. hidden \in [Types -> BOOLEAN] /\ ~hidden["inpaint_mask"]
  BY TypeNames
<1>4. EmptyCanvas = [lists |-> lists, hidden |-> hidden, selected |-> None, via |-> "edits", orphan |-> None]
  BY DEF EmptyCanvas
<1> HIDE DEF lists, hidden
<1>5. EmptyCanvas \in CanvasType
  BY <1>2, <1>3, <1>4 DEF CanvasType
<1>6. ListsOK(EmptyCanvas.lists, N)
  BY <1>1, <1>2 DEF ListsOK, Apart
<1>7. QED BY <1>1, <1>3, <1>5, <1>6 DEF CanvasOK, SelectionOK, MasksOK

LEMMA EmptiedIs == ASSUME IInv PROVE CanvasOK(Emptied, nextId) /\ Emptied.via = "edits"
<1>1. EmptyCanvas \in CanvasType /\ ListsOK(EmptyCanvas.lists, nextId) /\ MasksOK(EmptyCanvas)
      /\ EmptyCanvas.via = "edits" /\ canvas.selected \in Identifier \cup {None}
  BY EmptyCanvasIs, InvGives DEF CanvasOK, CanvasType
<1>2. /\ Emptied \in CanvasType /\ Emptied.lists = EmptyCanvas.lists /\ Emptied.hidden = EmptyCanvas.hidden
      /\ Emptied.selected = Emptied.orphan /\ Emptied.via = EmptyCanvas.via
  <2> DEFINE E == EmptyCanvas
             s == canvas.selected
  <2>1. E \in CanvasType /\ s \in Identifier \cup {None} /\ Emptied = [E EXCEPT !.selected = s, !.orphan = s]
    BY <1>1 DEF Emptied
  <2> HIDE DEF E, s
  <2>2. /\ Emptied \in CanvasType /\ Emptied.lists = E.lists /\ Emptied.hidden = E.hidden
        /\ Emptied.selected = Emptied.orphan /\ Emptied.via = E.via
    BY <2>1 DEF CanvasType
  <2>3. QED BY <2>2 DEF E
<1>3. QED BY <1>1, <1>2 DEF CanvasOK, SelectionOK, MasksOK

LEMMA allEntitiesDeletedKeeps == ASSUME IInv, allEntitiesDeleted PROVE IInv'
<1>1. Becomes(Emptied) /\ Fresh(0) /\ nextId + 0 = nextId
  BY DEF allEntitiesDeleted, IInv
<1>2. QED BY <1>1, EmptiedIs, CanvasStepKeeps DEF Becomes

LEMMA controlLayerRecalledKeeps == ASSUME IInv, controlLayerRecalled PROVE IInv'
<1> DEFINE t == "control_layer"
           adapter(n) == [type |-> "controlnet", model |-> ControlModels[n]]
           entity(n, drawn) == [NewEntity(t, nextId) EXCEPT !.drawn = drawn, !.adapter = adapter(n)]
<1>1. PICK n \in DOMAIN ControlModels, drawn \in BOOLEAN :
        Becomes(Added(canvas, t, entity(n, drawn), None, {}, {}, TRUE))
  BY DEF controlLayerRecalled
<1> DEFINE a == adapter(n)
           e == entity(n, drawn)
<1>2. Fresh(1) /\ Becomes(Added(canvas, t, e, None, {}, {}, TRUE))
  BY <1>1 DEF controlLayerRecalled
<1>3. nextId \in Nat \ {0} /\ nextId + 1 \in Nat /\ nextId < nextId + 1 /\ CanvasOK(canvas, nextId)
  BY DEF IInv
<1>4. EntityOK(t, e, nextId + 1) /\ IdsOf(e) \cap (1 .. nextId - 1) = {}
  <2>1. a \in ControlAdapter /\ a # NoAdapter /\ t \in Types
    BY ModelsAre, ControlAdaptersAre, TypeNames DEF ControlAdapter
  <2>2. Made(e, nextId, Yes, drawn, a, <<>>)
    <3>1. e = [NewEntity(t, nextId) EXCEPT !.drawn = drawn, !.adapter = a]
      OBVIOUS
    <3> HIDE DEF e, a
    <3>2. QED BY <3>1, NewEntityHas, MadeWithAdapter
  <2> HIDE DEF e, a
  <2>3. QED BY <1>3, <2>1, <2>2, YesAndNo, NewEntityIs
<1> HIDE DEF e
<1>5. Yields(Added(canvas, t, e, None, {}, {}, TRUE), nextId + 1, canvas)
  <2>1. {} \subseteq 1 .. nextId - 1 /\ nextId <= nextId + 1 /\ t \in Types
    BY <1>3, TypeNames
  <2> HIDE DEF t
  <2>2. QED BY <1>3, <1>4, <2>1, AddsNew
<1>6. QED BY <1>2, <1>5, BecomesKeeps

\* A mask to paint on, added to a canvas.
LEMMA MaskAdded ==
    ASSUME NEW N \in Nat \ {0}, NEW c, CanvasOK(c, N), NEW mask, mask = NewEntity("inpaint_mask", N)
    PROVE  Yields(Added(c, "inpaint_mask", mask, None, {}, {}, TRUE), N + 1, c)
<1> DEFINE m == "inpaint_mask"
           M == N + 1
<1>1. Made(mask, N, Yes, No, NewAdapter(m), <<>>) /\ m \in Types
  BY NewEntityHas, TypeNames
<1>2. N \in Nat /\ M \in Nat /\ N < M /\ N <= M /\ {} \subseteq 1 .. N - 1
  OBVIOUS
<1> HIDE DEF m, M
<1>3. EntityOK(m, mask, M) /\ IdsOf(mask) \cap (1 .. N - 1) = {}
  <2> DEFINE adapter == NewAdapter(m)
  <2>1. /\ adapter = NoAdapter \/ adapter \in ControlAdapter
        /\ m = "control_layer" <=> adapter # NoAdapter
    BY NewAdapterIs
  <2>2. Made(mask, N, Yes, No, adapter, <<>>)
    BY <1>1
  <2> HIDE DEF adapter
  <2>3. QED BY <1>1, <1>2, <2>1, <2>2, YesAndNo, NewEntityIs, SMTT(30)
<1>4. Yields(Added(c, m, mask, None, {}, {}, TRUE), M, c)
  BY <1>1, <1>2, <1>3, AddsNew
<1>5. QED BY <1>4 DEF m, M

LEMMA resetCanvasLayersKeeps == ASSUME IInv, resetCanvasLayers PROVE IInv'
<1> DEFINE mask == NewEntity("inpaint_mask", nextId)
           r == Added(Emptied, "inpaint_mask", mask, None, {}, {}, TRUE)
<1>1. Becomes(r) /\ Fresh(1)
  BY DEF resetCanvasLayers
<1>2. nextId \in Nat \ {0} /\ CanvasOK(Emptied, nextId) /\ Emptied.via = "edits"
  BY EmptiedIs DEF IInv
<1>3. Yields(r, nextId + 1, Emptied)
  BY <1>2, MaskAdded
<1> HIDE DEF r
<1>4. CanvasOK(r, nextId + 1) /\ r.via = "edits"
  BY <1>2, <1>3 DEF Yields
<1>5. QED BY <1>1, <1>4, CanvasStepKeeps DEF Becomes

\* The layer, or the region, of the image.
FirstEntity(t, withRef) ==
    IF withRef
    THEN [NewEntity(t, nextId) EXCEPT !.refs = <<[id |-> nextId + 1, config |-> DefaultRefImageConfig]>>]
    ELSE [NewEntity(t, nextId) EXCEPT !.drawn = TRUE]

LEMMA FirstOfImage ==
    ASSUME IInv, NEW t \in Types, NEW withRef \in BOOLEAN, withRef => t = "regional_guidance",
           NEW e, e = FirstEntity(t, withRef)
    PROVE  EntityOK(t, e, nextId + 2) /\ IdsOf(e) \cap (1 .. nextId - 1) = {}
<1>1. nextId \in Nat \ {0} /\ nextId + 1 \in Nat /\ nextId + 2 \in Nat /\ nextId < nextId + 2
      /\ nextId + 1 > nextId /\ nextId + 2 > nextId + 1
  BY DEF IInv
<1>2. CASE withRef
  <2>1. EntityOK(t, e, nextId + 2) /\ IdsOf(e) = {nextId, nextId + 1}
    <3>1. t = "regional_guidance"
      BY <1>2
    <3>2. e = [NewEntity("regional_guidance", nextId) EXCEPT
                  !.refs = <<[id |-> nextId + 1, config |-> DefaultRefImageConfig]>>]
      BY <1>2, <3>1 DEF FirstEntity
    <3>3. EntityOK("regional_guidance", e, nextId + 2) /\ IdsOf(e) = {nextId, nextId + 1}
      BY <1>1, <3>2, NewRegionIs
    <3>4. QED BY <3>1, <3>3
  <2>2. nextId \notin 1 .. nextId - 1 /\ nextId + 1 \notin 1 .. nextId - 1
    BY <1>1
  <2>3. QED BY <2>1, <2>2
<1>3. CASE ~withRef
  <2>1. Made(e, nextId, Yes, Yes, NewAdapter(t), <<>>)
    <3>1. e = [NewEntity(t, nextId) EXCEPT !.drawn = Yes]
      BY <1>3 DEF Yes, FirstEntity
    <3>2. QED BY <3>1, NewEntityHas, MadeDrawn
  <2>2. QED BY <1>1, <2>1, YesAndNo, NewAdapterIs, NewEntityIs
<1>4. QED BY <1>2, <1>3

LEMMA newCanvasFromImageKeeps == ASSUME IInv, newCanvasFromImage PROVE IInv'
<1>1. PICK t \in Types, withRef, withMask \in BOOLEAN :
        LET e == IF withRef
                 THEN [NewEntity(t, nextId) EXCEPT !.refs = <<[id |-> nextId + 1, config |-> DefaultRefImageConfig]>>]
                 ELSE [NewEntity(t, nextId) EXCEPT !.drawn = TRUE]
            c == Added(EmptyCanvas, t, e, None, {}, {}, TRUE)
        IN  /\ withRef => t = "regional_guidance"
            /\ Becomes(IF withMask
                       THEN Added(c, "inpaint_mask", NewEntity("inpaint_mask", nextId + 2), None, {}, {}, TRUE)
                       ELSE c)
  BY DEF newCanvasFromImage
<1> DEFINE e == FirstEntity(t, withRef)
           c == Added(EmptyCanvas, t, e, None, {}, {}, TRUE)
           mask == NewEntity("inpaint_mask", nextId + 2)
           both == Added(c, "inpaint_mask", mask, None, {}, {}, TRUE)
           r == IF withMask THEN both ELSE c
<1>2. (withRef => t = "regional_guidance") /\ Becomes(r) /\ Fresh(3)
  BY <1>1 DEF newCanvasFromImage, FirstEntity
<1>3. /\ nextId \in Nat /\ nextId + 2 \in Nat \ {0} /\ nextId + 3 \in Nat
      /\ nextId <= nextId + 2 /\ nextId + 2 < nextId + 3 /\ nextId + 2 <= nextId + 3
      /\ {} \subseteq 1 .. nextId - 1 /\ {} \subseteq 1 .. (nextId + 2) - 1
  BY DEF IInv
<1>4. EntityOK(t, e, nextId + 2) /\ IdsOf(e) \cap (1 .. nextId - 1) = {}
  BY <1>2, FirstOfImage
<1> HIDE DEF e
<1>5. Yields(c, nextId + 2, EmptyCanvas)
  BY <1>3, <1>4, EmptyCanvasIs, AddsNew
<1>6. CanvasOK(c, nextId + 2) /\ c.via = "edits"
  BY <1>5, EmptyCanvasIs DEF Yields
<1> HIDE DEF c
<1>7. Yields(both, nextId + 3, c)
  <2> DEFINE N == nextId + 2
  <2>1. N \in Nat \ {0} /\ CanvasOK(c, N) /\ N + 1 = nextId + 3
    BY <1>3, <1>6
  <2> HIDE DEF N
  <2>2. Yields(Added(c, "inpaint_mask", NewEntity("inpaint_mask", N), None, {}, {}, TRUE), N + 1, c)
    BY <2>1, MaskAdded
  <2>3. QED BY <2>1, <2>2 DEF N
<1> HIDE DEF both
<1>8. CanvasOK(r, nextId + 3) /\ r.via = "edits"
  BY <1>3, <1>6, <1>7, CanvasGrows DEF Yields
<1> HIDE DEF r
<1>9. QED BY <1>2, <1>8, CanvasStepKeeps DEF Becomes

-------------------------------------------------------------------------------
(* Models come and go.                                                       *)

RegionsRefitted(list, models, model) ==
    [n \in DOMAIN list |-> [list[n] EXCEPT !.refs = RefsRefitted(list[n].refs, models, model)]]

\* Where the reference images are refitted, every config still fits its model,
\* and no id changes.
LEMMA RefsRefittedOK ==
    ASSUME NEW t, NEW id, NEW N, NEW refs, RefsOK(t, id, refs, N), NEW models, NEW model \in RefModel \cup {None},
           NEW new, new = RefsRefitted(refs, models, model)
    PROVE  RefsOK(t, id, new, N) /\ Ids(new) = Ids(refs)
<1>1. DOMAIN new = DOMAIN refs /\ new = [k \in DOMAIN new |-> new[k]]
  BY DEF RefsRefitted
<1>2. ASSUME NEW k \in DOMAIN refs
      PROVE  new[k].id = refs[k].id /\ new[k] \in RefType /\ ConfigOK(new[k].config)
  <2> DEFINE old == refs[k].config
             config == IF old.model \in models THEN RefFor(old, model) ELSE old
  <2>1. refs[k] \in RefType /\ ConfigOK(old)
    BY SeqIs DEF RefsOK
  <2>2. ConfigOK(config)
    BY <2>1, RefForIs
  <2>3. new[k] = [refs[k] EXCEPT !.config = config]
    BY DEF RefsRefitted
  <2> HIDE DEF config
  <2>4. QED BY <2>1, <2>2, <2>3, RefConfigured
<1>3. QED BY <1>1, <1>2, RefsConfigured

\* A list that may stand in place of the list of type t.
InPlace(list, L, N, t) ==
    /\ list \in Seq(EntityType) /\ ListsOK([L EXCEPT ![t] = list], N)
    /\ Ids(list) = Ids(L[t])

LEMMA RegionsRefittedOK ==
    ASSUME NEW L, NEW N, ListsOK(L, N), NEW t \in Types, NEW old, old = L[t],
           NEW models, NEW model, model \in RefModel \cup {None}, NEW list, list = RegionsRefitted(old, models, model)
    PROVE  InPlace(list, L, N, t)
<1>1. /\ old \in Seq(EntityType) /\ DOMAIN old = 1 .. Len(old) /\ Len(old) \in Nat
      /\ \A n \in DOMAIN old : EntityOK(t, old[n], N)
  BY ListsAre
<1>2. DOMAIN list = DOMAIN old /\ list = [n \in DOMAIN old |-> list[n]]
  BY DEF RegionsRefitted
<1>3. ASSUME NEW n \in DOMAIN old
      PROVE  /\ list[n] \in EntityType /\ EntityOK(t, list[n], N) /\ list[n].id = old[n].id
             /\ IdsOf(list[n]) = IdsOf(old[n])
  <2> DEFINE e == old[n]
             refs == RefsRefitted(e.refs, models, model)
             new == [e EXCEPT !.refs = refs]
  <2>1. list[n] = new
    BY DEF RegionsRefitted
  <2>2. EntityOK(t, e, N)
    BY <1>1
  <2> HIDE DEF e
  <2>3. /\ e \in EntityType /\ e.id \in 1 .. N - 1 /\ RefsOK(t, e.id, e.refs, N)
        /\ t = "control_layer" <=> e.adapter # NoAdapter
    BY <2>2, EntityHas
  <2> DEFINE before == e.refs
             id == e.id
  <2>4. RefsOK(t, id, refs, N) /\ Ids(refs) = Ids(before)
    <3>1. refs = RefsRefitted(before, models, model) /\ RefsOK(t, id, before, N)
      BY <2>3
    <3> HIDE DEF refs, before, id
    <3>2. QED BY <3>1, RefsRefittedOK
  <2>5. refs \in Seq(RefType)
    BY <2>4 DEF RefsOK
  <2> HIDE DEF refs
  <2>6. new \in EntityType /\ new.id = e.id /\ new.refs = refs /\ new.adapter = e.adapter
    BY <2>3, <2>5 DEF EntityType
  <2> HIDE DEF new
  <2>7. EntityOK(t, new, N)
    BY <2>3, <2>4, <2>6, EntityFrom
  <2>8. IdsOf(new) = IdsOf(e)
    BY <2>4, <2>6 DEF IdsOf
  <2>9. QED BY <2>1, <2>6, <2>7, <2>8 DEF e
<1>4. list \in Seq(EntityType)
  <2>1. list \in [1 .. Len(old) -> EntityType]
    BY <1>1, <1>2, <1>3
  <2>2. QED BY <1>1, <2>1
<1>5. ListsOK([L EXCEPT ![t] = list], N)
  BY <1>2, <1>3, <1>4, Mapped
<1>6. Ids(list) = Ids(old)
  <2>1. \A i : i \in Ids(list) <=> i \in Ids(old)
    BY <1>2, <1>3, IdsAre
  <2>2. QED BY <2>1
<1>7. QED BY <1>4, <1>5, <1>6 DEF InPlace

LEMMA RefittedYields ==
    ASSUME NEW c, NEW N, CanvasOK(c, N), NEW models, NEW model \in RefModel \cup {None}
    PROVE  Yields(Refitted(c, models, model), N, c)
<1> DEFINE t == "regional_guidance"
           old == c.lists[t]
           list == RegionsRefitted(old, models, model)
           d == [c EXCEPT !.lists[t] = list]
<1>1. Refitted(c, models, model) = d
  BY DEF Refitted, RegionsRefitted
<1>2. c \in CanvasType /\ ListsOK(c.lists, N) /\ t \in Types /\ t # "inpaint_mask"
  BY TypeNames DEF CanvasOK
<1> HIDE DEF t, list
<1>3. /\ list \in Seq(EntityType) /\ ListsOK([c.lists EXCEPT ![t] = list], N)
      /\ Ids(list) = Ids(old)
  <2> DEFINE L == c.lists
  <2>1. /\ old = L[t] /\ list = RegionsRefitted(old, models, model) /\ ListsOK(L, N) /\ t \in Types
        /\ model \in RefModel \cup {None}
    BY <1>2 DEF list
  <2> HIDE DEF L, old
  <2>2. InPlace(list, L, N, t)
    BY <2>1, RegionsRefittedOK
  <2>3. QED BY <2>2 DEF L, old, InPlace
<1>4. /\ d \in CanvasType /\ d.lists = [c.lists EXCEPT ![t] = list] /\ d.lists[t] = list
      /\ \A u \in Types : u # t => d.lists[u] = c.lists[u]
      /\ d.hidden = c.hidden /\ d.selected = c.selected /\ d.via = c.via /\ d.orphan = c.orphan
  BY <1>2, <1>3, WithList
<1> HIDE DEF d
<1>5. \A u \in Types : Ids(c.lists[u]) \subseteq Ids(d.lists[u])
  BY <1>3, <1>4
<1>6. d.lists["inpaint_mask"] = c.lists["inpaint_mask"]
  BY <1>2, <1>4, TypeNames
<1>7. CanvasOK(d, N)
  <2>1. d \in CanvasType /\ ListsOK(d.lists, N)
    BY <1>3, <1>4
  <2>2. d.lists["inpaint_mask"] = <<>> => c.lists["inpaint_mask"] = <<>>
    BY <1>6
  <2>3. QED BY <1>4, <1>5, <2>1, <2>2, KeepsOK, ZenonT(40)
<1>8. QED BY <1>1, <1>4, <1>7 DEF Yields

LEMMA modelSelectedKeeps == ASSUME IInv, modelSelected PROVE IInv'
<1> DEFINE first == IF installed = {} THEN None ELSE RefModels[Min(installed)]
<1>1. PICK models : canvas' = Refitted(canvas, models, first)
  BY DEF modelSelected
<1>2. Fresh(0) /\ installed' = installed /\ merging' = merging /\ saved' = saved
  BY DEF modelSelected
<1>3. first \in RefModel \cup {None}
  <2>1. installed \subseteq DOMAIN RefModels /\ installed \in SUBSET Nat
    BY ModelsAre DEF IInv
  <2>2. installed # {} => Min(installed) \in installed
    BY <2>1, MinIs
  <2>3. QED BY <2>1, <2>2, ModelsAre
<1> HIDE DEF first
<1>4. nextId + 0 = nextId /\ CanvasOK(canvas, nextId)
  BY DEF IInv
<1>5. Yields(canvas', nextId + 0, canvas)
  BY <1>1, <1>3, <1>4, RefittedYields
<1>6. QED BY <1>2, <1>5, YieldsKeeps

LEMMA modelsLoadedKeeps == ASSUME IInv, modelsLoaded PROVE IInv'
<1>1. PICK n \in installed : installed' = installed \ {n} /\ canvas' = Refitted(canvas, {RefModels[n]}, None)
  BY DEF modelsLoaded
<1>2. Fresh(0) /\ installed' \subseteq installed /\ merging' = merging /\ saved' = saved
  BY <1>1 DEF modelsLoaded
<1>3. nextId + 0 = nextId /\ CanvasOK(canvas, nextId)
  BY DEF IInv
<1>4. Yields(canvas', nextId + 0, canvas)
  BY <1>1, <1>3, RefittedYields
<1>5. QED BY <1>2, <1>4, YieldsKeeps

-------------------------------------------------------------------------------
(* The theorems.                                                             *)

LEMMA EditKeeps == ASSUME IInv, Edit PROVE IInv'
<1>1. CASE AddEntity
  BY <1>1, AddEntityKeeps
<1>2. CASE AddFromImage
  BY <1>2, AddFromImageKeeps
<1>3. CASE AddRegionWithRefImage
  BY <1>3, AddRegionWithRefImageKeeps
<1>4. CASE ConvertEntity
  BY <1>4, ConvertEntityKeeps
<1>5. CASE entityDuplicated
  BY <1>5, entityDuplicatedKeeps
<1>6. CASE entityDeleted
  BY <1>6, entityDeletedKeeps
<1>7. CASE EntityDrawn
  BY <1>7, EntityDrawnKeeps
<1>8. CASE entityReset
  BY <1>8, entityResetKeeps
<1>9. CASE entityIsEnabledToggled
  BY <1>9, entityIsEnabledToggledKeeps
<1>10. CASE entitySelected
  BY <1>10, entitySelectedKeeps
<1>11. CASE MoveEntity
  BY <1>11, MoveEntityKeeps
<1>12. CASE allEntitiesOfTypeIsHiddenToggled
  BY <1>12, allEntitiesOfTypeIsHiddenToggledKeeps
<1>13. CASE allNonRasterLayersIsHiddenToggled
  BY <1>13, allNonRasterLayersIsHiddenToggledKeeps
<1>14. CASE controlLayerModelChanged
  BY <1>14, controlLayerModelChangedKeeps
<1>15. CASE rgRefImageAdded
  BY <1>15, rgRefImageAddedKeeps
<1>16. CASE rgRefImageDeleted
  BY <1>16, rgRefImageDeletedKeeps
<1>17. CASE rgRefImageModelChanged
  BY <1>17, rgRefImageModelChangedKeeps
<1>18. QED
  BY <1>1, <1>2, <1>3, <1>4, <1>5, <1>6, <1>7, <1>8, <1>9, <1>10, <1>11, <1>12, <1>13,
     <1>14, <1>15, <1>16, <1>17 DEF Edit

LEMMA NextKeeps == ASSUME IInv, Next PROVE IInv'
<1>1. CASE Edit
  BY <1>1, EditKeeps
<1>2. CASE mergeByEntityIdentifiers
  BY <1>2, mergeByEntityIdentifiersKeeps
<1>3. CASE MergeEnds
  BY <1>3, MergeEndsKeeps
<1>4. CASE MergeFails
  BY <1>4, MergeFailsKeeps
<1>5. CASE Save
  BY <1>5, SaveKeeps
<1>6. CASE canvasMetadataRecalled
  BY <1>6, canvasMetadataRecalledKeeps
<1>7. CASE canvasProjectRecalled
  BY <1>7, canvasProjectRecalledKeeps
<1>8. CASE canvasSnapshotRestored
  BY <1>8, canvasSnapshotRestoredKeeps
<1>9. CASE newCanvasFromImage
  BY <1>9, newCanvasFromImageKeeps
<1>10. CASE modelSelected
  BY <1>10, modelSelectedKeeps
<1>11. CASE modelsLoaded
  BY <1>11, modelsLoadedKeeps
<1>12. CASE allEntitiesDeleted
  BY <1>12, allEntitiesDeletedKeeps
<1>13. CASE controlLayerRecalled
  BY <1>13, controlLayerRecalledKeeps
<1>14. CASE resetCanvasLayers
  BY <1>14, resetCanvasLayersKeeps
<1>15. QED
  BY <1>1, <1>2, <1>3, <1>4, <1>5, <1>6, <1>7, <1>8, <1>9, <1>10, <1>11, <1>12, <1>13, <1>14 DEF Next

LEMMA InitIs == Init => IInv
<1> SUFFICES ASSUME Init PROVE IInv
  OBVIOUS
<1>1. /\ canvas = EmptyCanvas /\ installed = DOMAIN RefModels /\ merging = None /\ saved = None
      /\ nextId = 1
  BY DEF Init
<1>2. CanvasOK(canvas, nextId) /\ canvas.via = "edits"
  BY <1>1, EmptyCanvasIs
<1>3. QED BY <1>1, <1>2 DEF IInv

\* The canvas and what was saved of it stay sound: the ids are those given out, no
\* two of a canvas are the same, what is selected and hidden is what its origin
\* allows, and every config fits its model.
THEOREM Invariance == Spec => []IInv
<1>1. IInv /\ [Next]_vars => IInv'
  <2> SUFFICES ASSUME IInv, [Next]_vars PROVE IInv'
    OBVIOUS
  <2>1. CASE Next
    BY <2>1, NextKeeps
  <2>2. CASE UNCHANGED vars
    BY <2>2 DEF vars, IInv
  <2>3. QED BY <2>1, <2>2
<1>2. QED BY <1>1, InitIs, PTL DEF Spec

LEMMA InvariantGivesTypes == IInv => TypeOK
<1> SUFFICES ASSUME IInv PROVE TypeOK
  OBVIOUS
<1>1. /\ canvas \in CanvasType /\ ListsOK(canvas.lists, nextId) /\ installed \subseteq DOMAIN RefModels
  BY DEF IInv, CanvasOK
<1>2. canvas.hidden \in [Types -> BOOLEAN]
  BY <1>1 DEF CanvasType
<1>3. ASSUME NEW t \in Types, NEW n \in DOMAIN canvas.lists[t]
      PROVE  LET e == canvas.lists[t][n]
             IN  /\ e.id \in 1 .. nextId - 1 /\ {e.enabled, e.drawn} \subseteq BOOLEAN
                 /\ AdapterType(e.adapter) /\ (t = "control_layer" <=> e.adapter # NoAdapter)
                 /\ e.refs # <<>> => t = "regional_guidance"
  <2> DEFINE e == canvas.lists[t][n]
  <2>1. EntityOK(t, e, nextId)
    BY <1>1 DEF ListsOK
  <2> HIDE DEF e
  <2>2. e.id \in 1 .. nextId - 1 /\ (e.refs # <<>> => t = "regional_guidance")
    BY <2>1 DEF EntityOK, IdsOf
  <2>3. e.enabled \in BOOLEAN /\ e.drawn \in BOOLEAN /\ e.adapter \in ControlAdapter \cup {NoAdapter}
    BY <2>1 DEF EntityOK, EntityType
  <2>4. AdapterType(e.adapter)
    BY <2>3 DEF AdapterType, ControlAdapter
  <2>5. t = "control_layer" <=> e.adapter # NoAdapter
    BY <2>1 DEF EntityOK
  <2>6. QED BY <2>2, <2>3, <2>4, <2>5 DEF e
<1>4. QED BY <1>1, <1>2, <1>3 DEF TypeOK

LEMMA InvariantGivesEntities == IInv => EntitiesInv
<1> SUFFICES ASSUME IInv PROVE EntitiesInv
  OBVIOUS
<1>1. SelectionExists /\ MasksShownIfEmpty
  BY DEF IInv, CanvasOK, SelectionOK, MasksOK, SelectionExists, MasksShownIfEmpty
<1>2. QED BY <1>1, InvariantGivesTypes DEF EntitiesInv

\* What is selected is on the canvas, or still what was selected when all entities were
\* deleted or replaced by those of an image's metadata; an empty list of masks is not
\* hidden unless a project did that, and only control layers have adapters and only
\* regions reference images; for any number of entities, models and changes.
THEOREM EntitiesSound == Spec => []EntitiesInv
BY Invariance, InvariantGivesEntities, PTL

LEMMA InvariantGivesUnique == IInv => UniqueIds
<1> SUFFICES ASSUME IInv PROVE UniqueIds
  OBVIOUS
<1>1. ListsOK(canvas.lists, nextId)
  BY DEF IInv, CanvasOK
<1>2. Apart(canvas.lists)
  BY <1>1 DEF ListsOK
<1>3. ASSUME NEW t \in Types, NEW n \in DOMAIN canvas.lists[t]
      PROVE  LET e == canvas.lists[t][n]
             IN  /\ e.id \notin Ids(e.refs)
                 /\ \A j, k \in DOMAIN e.refs : e.refs[j].id = e.refs[k].id => j = k
  BY <1>1 DEF ListsOK, EntityOK
<1>4. QED BY <1>2, <1>3 DEF UniqueIds, Apart

\* No two entities or reference images of the canvas share an id, whatever is copied,
\* converted, merged after other changes, or brought back from what was saved.
THEOREM IdsUnique == Spec => []UniqueIds
BY Invariance, InvariantGivesUnique, PTL

LEMMA InvariantGivesRefs == IInv => RefsWellFormed
<1> SUFFICES ASSUME IInv PROVE RefsWellFormed
  OBVIOUS
<1>1. ListsOK(canvas.lists, nextId)
  BY DEF IInv, CanvasOK
<1>2. ASSUME NEW n \in DOMAIN canvas.lists["regional_guidance"],
             NEW k \in DOMAIN canvas.lists["regional_guidance"][n].refs
      PROVE  ConfigOK(canvas.lists["regional_guidance"][n].refs[k].config)
  BY <1>1, TypeNames DEF ListsOK, EntityOK
<1>3. QED BY <1>2 DEF RefsWellFormed, ConfigOK

\* The config of a region's reference image is of the kind of its model and has an
\* encoder exactly if it is an IP adapter, however main models are selected,
\* installed ones removed and saved canvases brought back.
THEOREM RefsFit == Spec => []RefsWellFormed
BY Invariance, InvariantGivesRefs, PTL

===============================================================================
