-------------------------- MODULE PostStoresProofs --------------------------
(***************************************************************************)
(* Both stores of posts answer alike, for any categories, posts, items,    *)
(* ids, times and requests.                                                *)
(***************************************************************************)
EXTENDS PostStores, OrderingProofs, FiniteSetTheorems, TLAPS

LEMMA SameSequence ==
    ASSUME NEW S, NEW s \in Seq(S), NEW t \in Seq(S), NEW n \in Nat,
           Len(s) = n, Len(t) = n, \A k \in 1 .. n : s[k] = t[k]
    PROVE  s = t
  OBVIOUS

(* ORDER BY several columns is a strict order on keys of one length.       *)
LEMMA LexOrder ==
    ASSUME NEW n \in Nat, NEW K, \A s \in K : s \in Seq(Nat) /\ Len(s) = n
    PROVE  /\ \A s \in K : ~LexLess(s, s)
           /\ \A s, t, u \in K : LexLess(s, t) /\ LexLess(t, u) => LexLess(s, u)
           /\ \A s, t \in K : s # t => LexLess(s, t) \/ LexLess(t, s)
<1>1. \A s \in K : s \in Seq(Nat) /\ Len(s) = n /\ \A k \in 1 .. n : s[k] \in Nat
  OBVIOUS
<1>2. \A s \in K : ~LexLess(s, s)
  BY <1>1 DEF LexLess
<1>3. ASSUME NEW s \in K, NEW t \in K, NEW u \in K, LexLess(s, t), LexLess(t, u)
      PROVE  LexLess(s, u)
  <2>1. PICK i \in 1 .. n : s[i] < t[i] /\ \A j \in 1 .. i - 1 : s[j] = t[j]
    BY <1>1, <1>3 DEF LexLess
  <2>2. PICK k \in 1 .. n : t[k] < u[k] /\ \A j \in 1 .. k - 1 : t[j] = u[j]
    BY <1>1, <1>3 DEF LexLess
  <2>3. CASE i < k
    <3>1. s[i] < u[i] /\ \A j \in 1 .. i - 1 : s[j] = u[j]
      BY <1>1, <2>1, <2>2, <2>3
    <3> QED  BY <1>1, <3>1 DEF LexLess
  <2>4. CASE ~(i < k)
    <3>1. s[k] < u[k]
      <4>1. CASE i = k
        BY <1>1, <2>1, <2>2, <4>1
      <4>2. CASE k < i
        <5>1. s[k] = t[k]
          BY <2>1, <2>2, <4>2
        <5> QED  BY <2>2, <5>1
      <4> QED  BY <2>4, <4>1, <4>2
    <3>2. \A j \in 1 .. k - 1 : s[j] = u[j]
      BY <1>1, <2>1, <2>2, <2>4
    <3> QED  BY <1>1, <3>1, <3>2 DEF LexLess
  <2> QED  BY <2>3, <2>4
<1>4. ASSUME NEW s \in K, NEW t \in K, s # t
      PROVE  LexLess(s, t) \/ LexLess(t, s)
  <2> DEFINE D == {k \in 1 .. n : s[k] # t[k]}
  <2>1. ASSUME D = {} PROVE FALSE
    <3>1. \A k \in 1 .. n : s[k] = t[k]
      BY <2>1
    <3>2. s \in Seq(Nat) /\ t \in Seq(Nat) /\ Len(s) = n /\ Len(t) = n
      OBVIOUS
    <3>3. s = t
      BY <3>1, <3>2, SameSequence
    <3> QED  BY <1>4, <3>3
  <2>2. D \subseteq Nat
    OBVIOUS
  <2>3. PICK k \in D : \A j \in D : k <= j
    BY <2>1, <2>2, LeastMember
  <2>4. k \in 1 .. n /\ s[k] # t[k] /\ \A j \in 1 .. k - 1 : s[j] = t[j]
    BY <2>3
  <2>5. s[k] < t[k] \/ t[k] < s[k]
    BY <1>1, <2>4
  <2> QED  BY <1>1, <2>4, <2>5 DEF LexLess
<1> QED
  BY <1>2, <1>3, <1>4

(* Rows with different keys are strictly ordered by them.                  *)
LEMMA KeyedOrder ==
    ASSUME NEW n \in Nat, NEW S, NEW key, NEW R,
           \A x \in S : key[x] \in Seq(Nat) /\ Len(key[x]) = n,
           \A x, y \in S : key[x] = key[y] => x = y,
           \A x, y \in S : <<x, y>> \in R <=> LexLess(key[x], key[y])
    PROVE  StrictOrder(S, R)
<1> DEFINE K == {key[x] : x \in S}
<1>1. \A s \in K : s \in Seq(Nat) /\ Len(s) = n
  OBVIOUS
<1> HIDE DEF K
<1>2. /\ \A s \in K : ~LexLess(s, s)
      /\ \A s, t, u \in K : LexLess(s, t) /\ LexLess(t, u) => LexLess(s, u)
      /\ \A s, t \in K : s # t => LexLess(s, t) \/ LexLess(t, s)
  BY <1>1, LexOrder
<1>3. \A x \in S : key[x] \in K
  BY DEF K
<1> QED
  BY <1>2, <1>3 DEF StrictOrder

LEMMA ThreeKeys ==
    ASSUME NEW s \in Seq(Nat), Len(s) = 3, NEW t \in Seq(Nat), Len(t) = 3
    PROVE  LexLess(s, t) <=> \/ s[1] < t[1]
                             \/ /\ s[1] = t[1]
                                /\ s[2] < t[2] \/ (s[2] = t[2] /\ s[3] < t[3])
  BY DEF LexLess

LEMMA FiveKeys ==
    ASSUME NEW s \in Seq(Nat), Len(s) = 5, NEW t \in Seq(Nat), Len(t) = 5
    PROVE  LexLess(s, t)
             <=> \/ s[1] < t[1]
                 \/ /\ s[1] = t[1]
                    /\ \/ s[2] < t[2]
                       \/ /\ s[2] = t[2]
                          /\ \/ s[3] < t[3]
                             \/ /\ s[3] = t[3]
                                /\ \/ s[4] < t[4]
                                   \/ s[4] = t[4] /\ s[5] < t[5]
  BY DEF LexLess

(* An order that is mapped onto another set.                               *)
LEMMA OrderMapped ==
    ASSUME NEW S, NEW R, StrictOrder(S, R), NEW T, NEW Q, NEW f \in [S -> T],
           \A y \in T : \E x \in S : f[x] = y,
           \A x, y \in S : <<x, y>> \in R <=> <<f[x], f[y]>> \in Q
    PROVE  StrictOrder(T, Q)
<1>1. \A y \in T : <<y, y>> \notin Q
  BY DEF StrictOrder
<1>2. \A x, y, z \in T : <<x, y>> \in Q /\ <<y, z>> \in Q => <<x, z>> \in Q
  BY DEF StrictOrder
<1>3. \A x, y \in T : x # y => <<x, y>> \in Q \/ <<y, x>> \in Q
  BY DEF StrictOrder
<1> QED
  BY <1>1, <1>2, <1>3 DEF StrictOrder

-----------------------------------------------------------------------------
CategoryRow == [id : CategoryIds, slug : CategorySlugs, name : Nat, parent : Nat]

(* The rows of table categories, under its unique slugs, and what the      *)
(* memory store has of them.  A parent is a top-level category.            *)
GoodCategories ==
    /\ catRows \subseteq CategoryRow /\ IsFiniteSet(catRows)
    /\ \A c, d \in catRows : c.id = d.id \/ c.slug = d.slug => c = d
    /\ \A c \in catRows :
           c.parent = 0 \/ \E d \in catRows : d.id = c.parent /\ d.parent = 0
    /\ memCats = {Category(c) : c \in catRows}

Top(c) == IF c.parent = 0 THEN c
          ELSE CHOOSE d \in catRows : d.id = c.parent

LEMMA RowTypes ==
    ASSUME GoodCategories, NEW c \in catRows
    PROVE  /\ c.id \in Nat \ {0} /\ c.name \in Nat /\ c.parent \in Nat
           /\ c.slug # "" /\ c.slug \in CategorySlugs /\ c.id \in CategoryIds
<1>1. c \in CategoryRow
  BY DEF GoodCategories
<1>2. c.id \in Nat \ {0} /\ c.name \in Nat /\ c.parent \in Nat
  <2>1. CategoryIds \subseteq Nat \ {0}
    BY PostStoresAssumption
  <2> QED  BY <1>1, <2>1 DEF CategoryRow
<1>3. c.slug # ""
  <2>1. \A i \in CategoryInputs : i.slug # ""
    BY PostStoresAssumption
  <2>2. c.slug \in CategorySlugs
    BY <1>1 DEF CategoryRow
  <2> QED  BY <2>1, <2>2 DEF CategorySlugs
<1> QED
  BY <1>1, <1>2, <1>3 DEF CategoryRow

(* Reading a row by its id, and the group it is listed in.                 *)
LEMMA RowById ==
    ASSUME GoodCategories, NEW c \in catRows
    PROVE  /\ (CHOOSE d \in catRows : d.id = c.id) = c
           /\ (CHOOSE d \in catRows : d.slug = c.slug) = c
           /\ Slug(c.id) = c.slug /\ CatId(c.slug) = c.id
           /\ FindCategory(c.slug) = {Category(c)}
<1>1. \A d \in catRows : d.id = c.id \/ d.slug = c.slug => d = c
  BY DEF GoodCategories
<1>2. (CHOOSE d \in catRows : d.id = c.id) = c
  BY <1>1
<1>3. (CHOOSE d \in catRows : d.slug = c.slug) = c
  BY <1>1
<1>4. c.id # 0
  BY RowTypes
<1>5. {d \in catRows : d.slug = c.slug} = {c}
  BY <1>1
<1> QED
  BY <1>2, <1>3, <1>4, <1>5 DEF Slug, CatId, FindCategory

LEMMA TopIsARow ==
    ASSUME GoodCategories, NEW c \in catRows
    PROVE  /\ Top(c) \in catRows /\ Top(c).parent = 0
           /\ c.parent # 0 => Top(c).id = c.parent /\ Slug(c.parent) = Top(c).slug
<1>1. CASE c.parent = 0
  BY <1>1 DEF Top
<1>2. CASE c.parent # 0
  <2>1. PICK d \in catRows : d.id = c.parent /\ d.parent = 0
    BY <1>2 DEF GoodCategories
  <2>2. Top(c) = d
    BY <1>2, <2>1, RowById DEF Top
  <2>3. Slug(c.parent) = d.slug
    BY <2>1, RowById
  <2> QED  BY <2>1, <2>2, <2>3
<1> QED
  BY <1>1, <1>2

(* What the memory store has of a row.                                     *)
LEMMA CategoryIs ==
    ASSUME GoodCategories, NEW c \in catRows
    PROVE  /\ Category(c) \in memCats
           /\ Category(c).id = c.id /\ Category(c).slug = c.slug
           /\ Category(c).name = c.name
           /\ Category(c).parent = "" <=> c.parent = 0
           /\ c.parent # 0 => Category(c).parent = Top(c).slug
<1>1. /\ Category(c).id = c.id /\ Category(c).slug = c.slug
      /\ Category(c).name = c.name /\ Category(c).parent = Slug(c.parent)
  BY DEF Category
<1>2. Category(c) \in memCats
  BY DEF GoodCategories
<1>3. CASE c.parent = 0
  BY <1>1, <1>2, <1>3 DEF Slug
<1>4. CASE c.parent # 0
  <2>1. Top(c) \in catRows /\ Slug(c.parent) = Top(c).slug
    BY <1>4, TopIsARow
  <2>2. Top(c).slug # ""
    BY <2>1, RowTypes
  <2> QED  BY <1>1, <1>2, <1>4, <2>1, <2>2
<1> QED
  BY <1>3, <1>4

(* The memory store finds by slug what Postgres joins by id.               *)
LEMMA MemBySlugIs ==
    ASSUME GoodCategories, NEW c \in catRows
    PROVE  MemBySlug(c.slug) = Category(c)
<1>1. \A m \in memCats : m.slug = c.slug => m = Category(c)
  <2> SUFFICES ASSUME NEW m \in memCats, m.slug = c.slug PROVE m = Category(c)
    OBVIOUS
  <2>1. PICK d \in catRows : m = Category(d)
    BY DEF GoodCategories
  <2>2. d.slug = c.slug
    BY <2>1, CategoryIs
  <2> QED  BY <2>1, <2>2 DEF GoodCategories
<1>2. Category(c) \in memCats /\ Category(c).slug = c.slug
  BY CategoryIs
<1> QED
  BY <1>1, <1>2 DEF MemBySlug

-----------------------------------------------------------------------------
(* The list of categories is in one order in both stores.                  *)
LEMMA CategoryOrders ==
    ASSUME GoodCategories, NEW c \in catRows, NEW d \in catRows
    PROVE  /\ PgCategoryKey(c) \in Seq(Nat) /\ Len(PgCategoryKey(c)) = 5
           /\ PgCategoryKey(c) = PgCategoryKey(d) => c = d
           /\ LexLess(PgCategoryKey(c), PgCategoryKey(d))
                <=> MemCategoryLess(Category(c), Category(d))
<1> DEFINE level(x) == IF x.parent = 0 THEN 0 ELSE 1
           group(m) == IF m.parent = "" THEN m ELSE MemBySlug(m.parent)
<1>1. \A x \in catRows :
          PgCategoryKey(x)
            = <<Top(x).name, Top(x).id, level(x), x.name, x.id>>
  BY DEF PgCategoryKey, Top
<1>2. \A x \in catRows : Top(x).name \in Nat /\ Top(x).id \in Nat
                         /\ level(x) \in Nat /\ x.name \in Nat /\ x.id \in Nat
  BY TopIsARow, RowTypes
<1>3. \A x \in catRows : group(Category(x)) = Category(Top(x))
  <2> SUFFICES ASSUME NEW x \in catRows
               PROVE  group(Category(x)) = Category(Top(x))
    OBVIOUS
  <2>1. CASE x.parent = 0
    BY <2>1, CategoryIs DEF Top
  <2>2. CASE x.parent # 0
    <3>1. Category(x).parent # "" /\ Category(x).parent = Top(x).slug
      BY <2>2, CategoryIs
    <3>2. MemBySlug(Top(x).slug) = Category(Top(x))
      BY TopIsARow, MemBySlugIs
    <3> QED  BY <3>1, <3>2
  <2> QED  BY <2>1, <2>2
<1>4. \A x \in catRows : /\ group(Category(x)).name = Top(x).name
                         /\ group(Category(x)).id = Top(x).id
  BY <1>3, TopIsARow, CategoryIs
<1>5. \A x \in catRows : Category(x).parent = "" <=> x.parent = 0
  BY CategoryIs
<1>6. MemCategoryLess(Category(c), Category(d))
        <=> \/ Top(c).name < Top(d).name
            \/ /\ Top(c).name = Top(d).name
               /\ \/ Top(c).id < Top(d).id
                  \/ /\ Top(c).id = Top(d).id
                     /\ \/ c.parent = 0 /\ d.parent # 0
                        \/ /\ (c.parent = 0) = (d.parent = 0)
                           /\ \/ c.name < d.name
                              \/ c.name = d.name /\ c.id < d.id
  <2> DEFINE m == Category(c)
             n == Category(d)
  <2>1. MemCategoryLess(m, n)
          <=> \/ group(m).name < group(n).name
              \/ /\ group(m).name = group(n).name
                 /\ \/ group(m).id < group(n).id
                    \/ /\ group(m).id = group(n).id
                       /\ \/ m.parent = "" /\ n.parent # ""
                          \/ /\ (m.parent = "") = (n.parent = "")
                             /\ \/ m.name < n.name
                                \/ m.name = n.name /\ m.id < n.id
    BY Zenon DEF MemCategoryLess
  <2>2. /\ m.name = c.name /\ m.id = c.id /\ n.name = d.name /\ n.id = d.id
    BY CategoryIs
  <2>3. /\ (m.parent = "") = (c.parent = 0) /\ (n.parent = "") = (d.parent = 0)
    BY <1>5
  <2> HIDE DEF m, n, group
  <2> QED  BY <1>4, <2>1, <2>2, <2>3 DEF m, n
<1>7. LexLess(PgCategoryKey(c), PgCategoryKey(d))
        <=> \/ Top(c).name < Top(d).name
            \/ /\ Top(c).name = Top(d).name
               /\ \/ Top(c).id < Top(d).id
                  \/ /\ Top(c).id = Top(d).id
                     /\ \/ level(c) < level(d)
                        \/ /\ level(c) = level(d)
                           /\ \/ c.name < d.name
                              \/ c.name = d.name /\ c.id < d.id
  <2> DEFINE K(x) == <<Top(x).name, Top(x).id, level(x), x.name, x.id>>
  <2>1. PgCategoryKey(c) = K(c) /\ PgCategoryKey(d) = K(d)
    BY <1>1
  <2>2. /\ Top(c).name \in Nat /\ Top(c).id \in Nat /\ level(c) \in Nat
        /\ c.name \in Nat /\ c.id \in Nat
        /\ Top(d).name \in Nat /\ Top(d).id \in Nat /\ level(d) \in Nat
        /\ d.name \in Nat /\ d.id \in Nat
    BY <1>2
  <2> HIDE DEF level
  <2>3. /\ K(c) \in Seq(Nat) /\ Len(K(c)) = 5
        /\ K(d) \in Seq(Nat) /\ Len(K(d)) = 5
    BY <2>2
  <2>4. \A x \in {c, d} : /\ K(x)[1] = Top(x).name /\ K(x)[2] = Top(x).id
                          /\ K(x)[3] = level(x) /\ K(x)[4] = x.name
                          /\ K(x)[5] = x.id
    OBVIOUS
  <2> HIDE DEF K
  <2>5. LexLess(K(c), K(d))
          <=> \/ Top(c).name < Top(d).name
              \/ /\ Top(c).name = Top(d).name
                 /\ \/ Top(c).id < Top(d).id
                    \/ /\ Top(c).id = Top(d).id
                       /\ \/ level(c) < level(d)
                          \/ /\ level(c) = level(d)
                             /\ \/ c.name < d.name
                                \/ c.name = d.name /\ c.id < d.id
    BY <2>3, <2>4, FiveKeys
  <2> QED  BY <2>1, <2>5
<1>8. /\ level(c) < level(d) <=> c.parent = 0 /\ d.parent # 0
      /\ level(c) = level(d) <=> (c.parent = 0) = (d.parent = 0)
  OBVIOUS
<1>9. PgCategoryKey(c) \in Seq(Nat) /\ Len(PgCategoryKey(c)) = 5
  <2>1. /\ Top(c).name \in Nat /\ Top(c).id \in Nat /\ level(c) \in Nat
        /\ c.name \in Nat /\ c.id \in Nat
    BY <1>2
  <2>2. PgCategoryKey(c)
          = <<Top(c).name, Top(c).id, level(c), c.name, c.id>>
    BY <1>1
  <2> HIDE DEF level
  <2> QED  BY <2>1, <2>2
<1>10. PgCategoryKey(c) = PgCategoryKey(d) => c = d
  <2>1. PgCategoryKey(c) = PgCategoryKey(d) => c.id = d.id
    <3> HIDE DEF level
    <3> QED  BY <1>1
  <2> QED  BY <2>1 DEF GoodCategories
<1> HIDE DEF level, group
<1> QED
  BY <1>6, <1>7, <1>8, <1>9, <1>10

LEMMA CategoryListsAgree ==
    ASSUME GoodCategories
    PROVE  PgListCategories = MemListCategories
<1> DEFINE R == OrderOf(catRows, LAMBDA c, d : LexLess(PgCategoryKey(c),
                                                       PgCategoryKey(d)))
           Q == OrderOf(memCats, MemCategoryLess)
           key == [c \in catRows |-> PgCategoryKey(c)]
           f == [c \in catRows |-> Category(c)]
           rows == InOrderOf(catRows, R)
<1>1. PgListCategories = [k \in DOMAIN rows |-> Category(rows[k])]
  BY DEF PgListCategories, SortedBy
<1>2. MemListCategories = InOrderOf(memCats, Q)
  BY DEF MemListCategories, SortedBy
<1>3. \A c, d \in catRows : <<c, d>> \in R <=> LexLess(key[c], key[d])
  BY DEF OrderOf
<1>4. \A c, d \in catRows : <<c, d>> \in R <=> <<f[c], f[d]>> \in Q
  <2> SUFFICES ASSUME NEW c \in catRows, NEW d \in catRows
               PROVE  <<c, d>> \in R <=> <<f[c], f[d]>> \in Q
    OBVIOUS
  <2>1. Category(c) \in memCats /\ Category(d) \in memCats
    BY CategoryIs
  <2>2. <<f[c], f[d]>> \in Q <=> MemCategoryLess(Category(c), Category(d))
    BY <2>1 DEF OrderOf
  <2> QED  BY <1>3, <2>2, CategoryOrders
<1>5. /\ \A c \in catRows : key[c] \in Seq(Nat) /\ Len(key[c]) = 5
      /\ \A c, d \in catRows : key[c] = key[d] => c = d
  BY CategoryOrders
<1>6. f \in [catRows -> memCats] /\ \A m \in memCats : \E c \in catRows : f[c] = m
  BY DEF GoodCategories
<1>7. \A c \in catRows : f[c] = Category(c)
  OBVIOUS
<1>8. IsFiniteSet(catRows)
  BY DEF GoodCategories
<1> HIDE DEF R, Q, key, f
<1>9. StrictOrder(catRows, R)
  BY <1>3, <1>5, KeyedOrder
<1>10. StrictOrder(memCats, Q)
  BY <1>4, <1>6, <1>9, OrderMapped
<1>11. InOrderOf(memCats, Q) = [k \in 1 .. Cardinality(catRows) |-> f[rows[k]]]
  BY <1>4, <1>6, <1>8, <1>9, <1>10, InOrderMapped
<1>12. /\ DOMAIN rows = 1 .. Cardinality(catRows)
       /\ \A k \in DOMAIN rows : rows[k] \in catRows
  BY <1>8, <1>9, InOrderFacts
<1> HIDE DEF rows
<1> QED
  BY <1>1, <1>2, <1>7, <1>11, <1>12

-----------------------------------------------------------------------------
(* The categories of a post are in one order in both stores.               *)
LinkOrder(A) ==
    OrderOf(A, LAMBDA c, d : LexLess(PgLinkKey(c), PgLinkKey(d)))

LEMMA LinkOrders ==
    ASSUME GoodCategories, NEW c \in catRows, NEW d \in catRows
    PROVE  /\ PgLinkKey(c) \in Seq(Nat) /\ Len(PgLinkKey(c)) = 3
           /\ PgLinkKey(c) = PgLinkKey(d) => c = d
           /\ LexLess(PgLinkKey(c), PgLinkKey(d))
                <=> MemLinkLess(Category(c), Category(d))
           /\ LexLess(PgLinkKey(c), PgLinkKey(d))
                => c.parent = 0 \/ d.parent # 0
<1> DEFINE level(x) == IF x.parent = 0 THEN 0 ELSE 1
           K(x) == <<level(x), x.name, x.id>>
<1>1. PgLinkKey(c) = K(c) /\ PgLinkKey(d) = K(d)
  BY DEF PgLinkKey
<1>2. \A x \in {c, d} : level(x) \in Nat /\ x.name \in Nat /\ x.id \in Nat
  BY RowTypes
<1>3. /\ level(c) < level(d) <=> c.parent = 0 /\ d.parent # 0
      /\ level(c) = level(d) <=> (c.parent = 0) = (d.parent = 0)
  OBVIOUS
<1>4. MemLinkLess(Category(c), Category(d))
        <=> \/ c.parent = 0 /\ d.parent # 0
            \/ /\ (c.parent = 0) = (d.parent = 0)
               /\ c.name < d.name \/ (c.name = d.name /\ c.id < d.id)
  <2> DEFINE m == Category(c)
             n == Category(d)
  <2>1. MemLinkLess(m, n)
          <=> \/ m.parent = "" /\ n.parent # ""
              \/ /\ (m.parent = "") = (n.parent = "")
                 /\ m.name < n.name \/ (m.name = n.name /\ m.id < n.id)
    BY Zenon DEF MemLinkLess
  <2>2. /\ m.name = c.name /\ m.id = c.id /\ n.name = d.name /\ n.id = d.id
    BY CategoryIs
  <2>3. /\ (m.parent = "") = (c.parent = 0) /\ (n.parent = "") = (d.parent = 0)
    BY CategoryIs
  <2> HIDE DEF m, n
  <2> QED  BY <2>1, <2>2, <2>3, Zenon DEF m, n
<1> HIDE DEF level
<1>5. /\ K(c) \in Seq(Nat) /\ Len(K(c)) = 3
      /\ K(d) \in Seq(Nat) /\ Len(K(d)) = 3
  BY <1>2
<1>6. \A x \in {c, d} : K(x)[1] = level(x) /\ K(x)[2] = x.name /\ K(x)[3] = x.id
  OBVIOUS
<1> HIDE DEF K
<1>7. LexLess(K(c), K(d))
        <=> \/ level(c) < level(d)
            \/ /\ level(c) = level(d)
               /\ c.name < d.name \/ (c.name = d.name /\ c.id < d.id)
  BY <1>5, <1>6, ThreeKeys
<1>8. K(c) = K(d) => c = d
  <2>1. K(c) = K(d) => c.id = d.id
    BY <1>6
  <2> QED  BY <2>1 DEF GoodCategories
<1> QED
  BY <1>1, <1>3, <1>4, <1>5, <1>7, <1>8

LEMMA LinkOrderIsStrict ==
    ASSUME GoodCategories, NEW A, A \subseteq catRows
    PROVE  /\ IsFiniteSet(A) /\ StrictOrder(A, LinkOrder(A))
           /\ \A c, d \in A : <<c, d>> \in LinkOrder(A)
                                <=> LexLess(PgLinkKey(c), PgLinkKey(d))
<1> DEFINE R == LinkOrder(A)
           key == [c \in A |-> PgLinkKey(c)]
<1>1. /\ \A c \in A : key[c] \in Seq(Nat) /\ Len(key[c]) = 3
      /\ \A c, d \in A : key[c] = key[d] => c = d
  BY LinkOrders
<1>2. \A c, d \in A : <<c, d>> \in R <=> LexLess(key[c], key[d])
  BY DEF OrderOf, LinkOrder
<1>3. \A c \in A : key[c] = PgLinkKey(c)
  OBVIOUS
<1>4. IsFiniteSet(A)
  BY FS_Subset DEF GoodCategories
<1> HIDE DEF R, key
<1>5. StrictOrder(A, R)
  BY <1>1, <1>2, KeyedOrder
<1> QED
  BY <1>2, <1>3, <1>4, <1>5 DEF R

(* What a join returns: its categories, each once, and what the memory     *)
(* store makes of the same slugs.                                          *)
LEMMA JoinIs ==
    ASSUME GoodCategories, NEW A, A \subseteq catRows
    PROVE  LET rows == InOrderOf(A, LinkOrder(A))
           IN  /\ Joined(A) = [k \in DOMAIN rows |-> Category(rows[k])]
               /\ DOMAIN rows = 1 .. Cardinality(A) /\ Cardinality(A) \in Nat
               /\ \A k \in DOMAIN rows : rows[k] \in A
               /\ \A c \in A : \E k \in DOMAIN rows : rows[k] = c
               /\ \A i, j \in DOMAIN rows :
                      i < j => <<rows[i], rows[j]>> \in LinkOrder(A)
               /\ ByLevel(A) = rows
<1>1. ByLevel(A) = InOrderOf(A, LinkOrder(A))
  BY DEF ByLevel, SortedBy, LinkOrder
<1>2. Joined(A) = [k \in DOMAIN InOrderOf(A, LinkOrder(A)) |->
                       Category(InOrderOf(A, LinkOrder(A))[k])]
  BY <1>1 DEF Joined
<1> QED
  BY <1>1, <1>2, LinkOrderIsStrict, InOrderFacts

LEMMA JoinsAgree ==
    ASSUME GoodCategories, NEW A, A \subseteq catRows
    PROVE  Joined(A) = SortedBy({Category(c) : c \in A}, MemLinkLess)
<1> DEFINE R == LinkOrder(A)
           T == {Category(c) : c \in A}
           Q == OrderOf(T, MemLinkLess)
           f == [c \in A |-> Category(c)]
           rows == InOrderOf(A, R)
<1>1. /\ Joined(A) = [k \in DOMAIN rows |-> Category(rows[k])]
      /\ DOMAIN rows = 1 .. Cardinality(A)
      /\ \A k \in DOMAIN rows : rows[k] \in A
  BY JoinIs
<1>2. /\ IsFiniteSet(A) /\ StrictOrder(A, R)
      /\ \A c, d \in A : <<c, d>> \in R
                           <=> LexLess(PgLinkKey(c), PgLinkKey(d))
  BY LinkOrderIsStrict
<1>3. \A c, d \in A : <<c, d>> \in R <=> <<f[c], f[d]>> \in Q
  <2> SUFFICES ASSUME NEW c \in A, NEW d \in A
               PROVE  <<c, d>> \in R <=> <<f[c], f[d]>> \in Q
    OBVIOUS
  <2>1. <<f[c], f[d]>> \in Q <=> MemLinkLess(Category(c), Category(d))
    BY DEF OrderOf
  <2> QED  BY <1>2, <2>1, LinkOrders
<1>4. f \in [A -> T] /\ \A m \in T : \E c \in A : f[c] = m
  OBVIOUS
<1>5. \A c \in A : f[c] = Category(c)
  OBVIOUS
<1>6. SortedBy(T, MemLinkLess) = InOrderOf(T, Q)
  BY DEF SortedBy
<1> HIDE DEF R, Q, f, T
<1>7. StrictOrder(T, Q)
  BY <1>2, <1>3, <1>4, OrderMapped
<1>8. InOrderOf(T, Q) = [k \in 1 .. Cardinality(A) |-> f[rows[k]]]
  BY <1>2, <1>3, <1>4, <1>7, InOrderMapped
<1> HIDE DEF rows
<1>9. Joined(A) = SortedBy(T, MemLinkLess)
  BY <1>1, <1>5, <1>6, <1>8
<1> QED
  BY <1>9 DEF T

(* A post is linked to a top-level category, and maybe to one of its own.  *)
TwoDeep(A) ==
    \E a \in A : /\ a.parent = 0
                 /\ \/ A = {a}
                    \/ \E b \in A : b.parent = a.id /\ A = {a, b}

LEMMA JoinsAreTwoDeep ==
    ASSUME GoodCategories, NEW A, A \subseteq catRows, TwoDeep(A)
    PROVE  LET linked == Joined(A)
           IN  /\ Len(linked) \in {1, 2} /\ linked[1].parent = ""
               /\ Len(linked) = 2 => linked[2].parent = linked[1].slug
<1> DEFINE R == LinkOrder(A)
           rows == InOrderOf(A, R)
           linked == Joined(A)
<1>1. /\ linked = [k \in DOMAIN rows |-> Category(rows[k])]
      /\ DOMAIN rows = 1 .. Cardinality(A)
      /\ \A k \in DOMAIN rows : rows[k] \in A
      /\ \A i, j \in DOMAIN rows : i < j => <<rows[i], rows[j]>> \in R
  BY JoinIs
<1>2. /\ IsFiniteSet(A) /\ StrictOrder(A, R)
      /\ \A c, d \in A : <<c, d>> \in R
                           <=> LexLess(PgLinkKey(c), PgLinkKey(d))
  BY LinkOrderIsStrict
<1> HIDE DEF R, rows, linked
<1>3. Len(linked) = Cardinality(A)
  <2>1. Cardinality(A) \in Nat
    BY <1>2, FS_CardinalityType
  <2> QED  BY <1>1, <2>1
<1>4. PICK a \in A : /\ a.parent = 0
                     /\ \/ A = {a}
                        \/ \E b \in A : b.parent = a.id /\ A = {a, b}
  BY DEF TwoDeep
<1>5. Category(a).parent = ""
  BY <1>4, CategoryIs
<1>6. CASE A = {a}
  <2>1. Cardinality(A) = 1
    BY <1>6, FS_Singleton
  <2>2. 1 \in DOMAIN rows /\ rows[1] = a
    BY <1>1, <1>6, <2>1
  <2>3. linked[1] = Category(a)
    BY <1>1, <2>2
  <2>4. Len(linked) = 1
    BY <1>3, <2>1
  <2>5. Len(linked) \in {1, 2} /\ Len(linked) # 2
    BY <2>4
  <2> QED  BY <1>5, <2>3, <2>5 DEF linked
<1>7. ASSUME NEW b \in A, b.parent = a.id, A = {a, b}
      PROVE  /\ Len(linked) \in {1, 2} /\ linked[1].parent = ""
             /\ Len(linked) = 2 => linked[2].parent = linked[1].slug
  <2>1. a.id # 0 /\ b.parent # 0
    BY <1>7, RowTypes
  <2>2. a # b
    BY <1>4, <2>1
  <2>3. Cardinality(A) = 2
    <3>1. Cardinality({b}) = 1 /\ IsFiniteSet({b})
      BY FS_Singleton
    <3>2. Cardinality({b} \cup {a}) = 2
      BY <2>2, <3>1, FS_AddElement
    <3>3. A = {b} \cup {a}
      BY <1>7
    <3> QED  BY <3>2, <3>3
  <2>4. 1 \in DOMAIN rows /\ 2 \in DOMAIN rows
    BY <1>1, <2>3
  <2>5. <<rows[1], rows[2]>> \in R /\ rows[1] \in A /\ rows[2] \in A
    BY <1>1, <2>4
  <2>6. <<b, a>> \notin R
    BY <1>2, <1>4, <2>1, LinkOrders
  <2>7. <<a, a>> \notin R /\ <<b, b>> \notin R
    BY <1>2 DEF StrictOrder
  <2>8. rows[1] = a /\ rows[2] = b
    BY <1>7, <2>5, <2>6, <2>7
  <2>9. linked[1] = Category(a) /\ linked[2] = Category(b) /\ Len(linked) = 2
    BY <1>1, <2>3, <2>4, <2>8
  <2>10. Category(b).parent = a.slug /\ Category(a).slug = a.slug
    <3>1. Top(b) = a
      BY <1>7, <2>1, RowById DEF Top
    <3> QED  BY <2>1, <3>1, CategoryIs
  <2> QED  BY <1>5, <2>9, <2>10
<1> QED
  BY <1>4, <1>6, <1>7 DEF linked

-----------------------------------------------------------------------------
Items == {NormalizeItem(raw) : raw \in {i \in ItemInputs : ItemAllowed(i)}}

(* The items of a post, at the positions their author gave them.           *)
ItemLists ==
    {items \in Seq([position : Nat, item : Items]) :
         \A k \in DOMAIN items : items[k].position = k - 1}

LEMMA MembersOf ==
    ASSUME NEW S, NEW s \in Seq(S), NEW k \in DOMAIN s
    PROVE  k \in Nat /\ s[k] \in S
  OBVIOUS

LEMMA ListedItem ==
    ASSUME NEW items \in ItemLists, NEW k \in DOMAIN items
    PROVE  /\ k \in Nat /\ items[k].item \in Items
           /\ items[k] = [position |-> k - 1, item |-> items[k].item]
<1>1. k \in Nat /\ items[k] \in [position : Nat, item : Items]
  BY MembersOf DEF ItemLists
<1>2. items[k].position = k - 1
  BY DEF ItemLists
<1> QED
  BY <1>1, <1>2

ItemsOf(id) == {i \in itemRows : i.post = id}

(* A row of posts and the same post in the memory store.                   *)
Twin(p, m) ==
    /\ m.id = p.id /\ m.slug = p.slug /\ m.title = p.title
    /\ m.created = p.created
    /\ m.categories = Joined(Linked(p))
    /\ m.items \in ItemLists
    /\ ItemsOf(p.id) = {[post |-> p.id, position |-> m.items[k].position,
                         item |-> m.items[k].item] : k \in DOMAIN m.items}

(* The posts of both stores, under the unique indexes and foreign keys.    *)
GoodPosts ==
    /\ IsFiniteSet(postRows)
    /\ \A p \in postRows : p.id \in PostIds /\ p.created \in Times
    /\ \A p, q \in postRows : p.id = q.id \/ p.slug = q.slug => p = q
    /\ \A l \in linkRows :
           \E p \in postRows : \E c \in catRows : l = <<p.id, c.id>>
    /\ \A i \in itemRows : \E p \in postRows : i.post = p.id
    /\ \A p \in postRows : TwoDeep(Linked(p))
    /\ \A p \in postRows : \E m \in memPosts : Twin(p, m)
    /\ \A m \in memPosts : \E p \in postRows : Twin(p, m)
    /\ \A m, n \in memPosts : m.id = n.id => m = n

LEMMA PostTypes ==
    ASSUME GoodPosts, NEW p \in postRows
    PROVE  p.id \in Nat /\ p.created \in Nat
<1>1. PostIds \subseteq Nat /\ Times \subseteq Nat
  BY PostStoresAssumption
<1> QED
  BY <1>1 DEF GoodPosts

(* The order of lists of posts.                                            *)
LEMMA NewestIsStrict ==
    ASSUME GoodPosts, NEW S, S \subseteq postRows
    PROVE  /\ IsFiniteSet(S) /\ StrictOrder(S, OrderOf(S, Newest))
           /\ \A p, q \in S : <<p, q>> \in OrderOf(S, Newest) <=> Newest(p, q)
<1> DEFINE R == OrderOf(S, Newest)
<1>1. \A p, q \in S : <<p, q>> \in R <=> Newest(p, q)
  BY DEF OrderOf
<1>2. IsFiniteSet(S)
  BY FS_Subset DEF GoodPosts
<1> HIDE DEF R
<1>3. \A p \in S : p.id \in Nat /\ p.created \in Nat
  BY PostTypes
<1>4. \A p, q \in S : p.id = q.id => p = q
  BY DEF GoodPosts
<1>5. StrictOrder(S, R)
  <2>1. \A p \in S : <<p, p>> \notin R
    BY <1>1, <1>3 DEF Newest
  <2>2. \A p, q, s \in S : <<p, q>> \in R /\ <<q, s>> \in R => <<p, s>> \in R
    BY <1>1, <1>3 DEF Newest
  <2>3. \A p, q \in S : p # q => <<p, q>> \in R \/ <<q, p>> \in R
    BY <1>1, <1>3, <1>4 DEF Newest
  <2> QED  BY <2>1, <2>2, <2>3 DEF StrictOrder
<1> QED
  BY <1>1, <1>2, <1>5 DEF R

(* The two forms of a filter select the same posts.                        *)
LEMMA FiltersAgree ==
    ASSUME GoodCategories, GoodPosts, NEW p \in postRows, NEW m \in memPosts,
           Twin(p, m), NEW category, NEW title
    PROVE  PgMatches(p, category, title) <=> Matches(m, category, title)
<1> DEFINE A == Linked(p)
           rows == InOrderOf(A, LinkOrder(A))
<1>1. A \subseteq catRows
  BY DEF Linked
<1>2. /\ m.categories = [k \in DOMAIN rows |-> Category(rows[k])]
      /\ \A k \in DOMAIN rows : rows[k] \in A
      /\ \A c \in A : \E k \in DOMAIN rows : rows[k] = c
  BY <1>1, JoinIs DEF Twin
<1>3. \A c \in A : Category(c).slug = c.slug /\ Category(c).parent = Slug(c.parent)
  BY DEF Category
<1>4. \E l \in linkRows : l[1] = p.id
  <2>1. TwoDeep(A)
    BY DEF GoodPosts
  <2>2. PICK a \in A : TRUE
    BY <2>1 DEF TwoDeep
  <2>3. <<p.id, a.id>> \in linkRows
    BY <2>2 DEF Linked
  <2> QED  BY <2>3
<1>5. m.title = p.title
  BY DEF Twin
<1> HIDE DEF rows
<1>6. (\E c \in A : category \in {c.slug, Slug(c.parent)})
        <=> \E k \in DOMAIN m.categories :
                category \in {m.categories[k].slug, m.categories[k].parent}
  <2>1. DOMAIN m.categories = DOMAIN rows
    BY <1>2
  <2>2. \A k \in DOMAIN rows : /\ m.categories[k].slug = rows[k].slug
                               /\ m.categories[k].parent = Slug(rows[k].parent)
    BY <1>2, <1>3
  <2> QED  BY <1>2, <2>1, <2>2
<1> QED
  BY <1>4, <1>5, <1>6 DEF PgMatches, Matches

LEMMA TwinsReadAlike ==
    ASSUME NEW p, NEW m, Twin(p, m)
    PROVE  WithoutItems(m) = PgPost(p)
  BY DEF Twin, WithoutItems, PgPost

LEMMA PostListsAgree ==
    ASSUME GoodCategories, GoodPosts, NEW category, NEW title
    PROVE  PgList(category, title) = MemList(category, title)
<1> DEFINE S == {p \in postRows : PgMatches(p, category, title)}
           T == {m \in memPosts : Matches(m, category, title)}
           R == OrderOf(S, Newest)
           Q == OrderOf(T, Newest)
           f == [p \in S |-> CHOOSE m \in memPosts : m.id = p.id]
           rows == InOrderOf(S, R)
<1>1. /\ PgList(category, title) = [k \in DOMAIN rows |-> PgPost(rows[k])]
      /\ MemList(category, title)
           = [k \in DOMAIN InOrderOf(T, Q) |-> WithoutItems(InOrderOf(T, Q)[k])]
  BY DEF PgList, MemList, SortedBy
<1>2. \A p \in S : f[p] \in memPosts /\ Twin(p, f[p])
  <2> SUFFICES ASSUME NEW p \in S PROVE f[p] \in memPosts /\ Twin(p, f[p])
    OBVIOUS
  <2>1. PICK m \in memPosts : Twin(p, m)
    BY DEF GoodPosts
  <2>2. m.id = p.id /\ \A n \in memPosts : n.id = p.id => n = m
    BY <2>1 DEF Twin, GoodPosts
  <2>3. f[p] = m
    BY <2>2
  <2> QED  BY <2>1, <2>3
<1>3. \A p \in S : f[p] \in T
  BY <1>2, FiltersAgree
<1>4. \A m \in T : \E p \in S : f[p] = m
  <2> SUFFICES ASSUME NEW m \in T PROVE \E p \in S : f[p] = m
    OBVIOUS
  <2>1. PICK p \in postRows : Twin(p, m)
    BY DEF GoodPosts
  <2>2. p \in S
    BY <2>1, FiltersAgree
  <2>3. f[p].id = m.id
    BY <1>2, <2>1, <2>2 DEF Twin
  <2>4. f[p] = m
    BY <1>2, <2>2, <2>3 DEF GoodPosts
  <2> QED  BY <2>2, <2>4
<1>5. f \in [S -> T]
  BY <1>3
<1>6. /\ IsFiniteSet(S) /\ StrictOrder(S, R)
      /\ \A p, q \in S : <<p, q>> \in R <=> Newest(p, q)
  BY NewestIsStrict
<1>7. \A m, n \in T : <<m, n>> \in Q <=> Newest(m, n)
  BY DEF OrderOf
<1>8. \A p \in S : f[p].id = p.id /\ f[p].created = p.created
                   /\ WithoutItems(f[p]) = PgPost(p)
  <2> HIDE DEF f
  <2> SUFFICES ASSUME NEW p \in S
               PROVE  /\ f[p].id = p.id /\ f[p].created = p.created
                      /\ WithoutItems(f[p]) = PgPost(p)
    OBVIOUS
  <2>1. Twin(p, f[p])
    BY <1>2
  <2>2. WithoutItems(f[p]) = PgPost(p)
    BY <2>1, TwinsReadAlike
  <2> QED  BY <2>1, <2>2 DEF Twin
<1> HIDE DEF S, T, R, Q, f
<1>9. \A p, q \in S : <<p, q>> \in R <=> <<f[p], f[q]>> \in Q
  <2> SUFFICES ASSUME NEW p \in S, NEW q \in S
               PROVE  <<p, q>> \in R <=> <<f[p], f[q]>> \in Q
    OBVIOUS
  <2>1. <<p, q>> \in R <=> Newest(p, q)
    BY <1>6
  <2>2. <<f[p], f[q]>> \in Q <=> Newest(f[p], f[q])
    BY <1>3, <1>7
  <2>3. Newest(f[p], f[q]) <=> Newest(p, q)
    BY <1>8 DEF Newest
  <2> QED  BY <2>1, <2>2, <2>3
<1>10. StrictOrder(T, Q)
  BY <1>4, <1>5, <1>6, <1>9, OrderMapped
<1>11. InOrderOf(T, Q) = [k \in 1 .. Cardinality(S) |-> f[rows[k]]]
  BY <1>4, <1>5, <1>6, <1>9, <1>10, InOrderMapped
<1>12. /\ DOMAIN rows = 1 .. Cardinality(S)
       /\ \A k \in DOMAIN rows : rows[k] \in S
  BY <1>6, InOrderFacts
<1> HIDE DEF rows
<1>13. \A k \in DOMAIN rows : WithoutItems(f[rows[k]]) = PgPost(rows[k])
  BY <1>8, <1>12
<1> QED
  BY <1>1, <1>11, <1>12, <1>13

(* The rows of the items of a post, by their positions, are its items.     *)
LEMMA ItemsAgree ==
    ASSUME NEW p, NEW m, Twin(p, m)
    PROVE  FindItems(p) = m.items
<1> DEFINE S == ItemsOf(p.id)
           R == OrderOf(S, LAMBDA i, j : i.position < j.position)
           t == [k \in DOMAIN m.items |->
                    [post |-> p.id, position |-> m.items[k].position,
                     item |-> m.items[k].item]]
<1>1. FindItems(p) = [k \in DOMAIN InOrderOf(S, R) |->
                         [position |-> InOrderOf(S, R)[k].position,
                          item |-> InOrderOf(S, R)[k].item]]
  BY DEF FindItems, InOrder, SortedBy, ItemsOf
<1>2. /\ S = {[post |-> p.id, position |-> m.items[k].position,
               item |-> m.items[k].item] : k \in DOMAIN m.items}
      /\ m.items \in Seq([position : Nat, item : Items])
      /\ \A k \in DOMAIN m.items : m.items[k].position = k - 1
  BY DEF Twin, ItemLists
<1>3. \A i, j \in S : <<i, j>> \in R <=> i.position < j.position
  BY DEF OrderOf
<1>4. PICK n \in Nat : DOMAIN m.items = 1 .. n
  BY <1>2
<1>5. /\ DOMAIN t = 1 .. n
      /\ \A k \in 1 .. n : t[k].position = k - 1
                           /\ t[k].item = m.items[k].item
      /\ \A k \in 1 .. n : t[k] \in S
      /\ \A i \in S : \E k \in 1 .. n : t[k] = i
  BY <1>2, <1>4
<1> HIDE DEF S, R, t
<1>6. t \in Seq(S) /\ Len(t) = n
  <2>1. t \in [1 .. n -> S]
    <3>1. t = [k \in 1 .. n |-> t[k]]
      BY <1>4 DEF t
    <3> QED  BY <1>5, <3>1
  <2> QED  BY <2>1
<1>7. StrictOrder(S, R)
  <2>1. \A i \in S : i.position \in Int
    BY <1>5
  <2>2. \A i, j \in S : i.position = j.position => i = j
    BY <1>5
  <2> QED  BY <1>3, <2>1, <2>2 DEF StrictOrder
<1>8. ASSUME NEW i \in DOMAIN t, NEW j \in DOMAIN t, i < j
      PROVE  <<t[i], t[j]>> \in R
  <2>1. t[i] \in S /\ t[j] \in S
    BY <1>5
  <2>2. t[i].position = i - 1 /\ t[j].position = j - 1 /\ i \in Int /\ j \in Int
    BY <1>5
  <2> QED  BY <1>3, <1>8, <2>1, <2>2
<1>9. InOrderOf(S, R) = t
  <2>1. \A i \in S : \E k \in DOMAIN t : t[k] = i
    BY <1>5
  <2>2. t \in Seq(S)
    BY <1>6
  <2> QED  BY <1>7, <1>8, <2>1, <2>2, InOrderUnique
<1>10. [k \in 1 .. n |-> [position |-> t[k].position, item |-> t[k].item]]
         = m.items
  <2>1. m.items = [k \in 1 .. n |-> m.items[k]]
    BY <1>2, <1>4
  <2>2. ASSUME NEW k \in 1 .. n
        PROVE  m.items[k] = [position |-> t[k].position, item |-> t[k].item]
    <3>1. m.items[k] = [position |-> k - 1, item |-> m.items[k].item]
      BY <1>4, ListedItem DEF Twin
    <3>2. t[k].position = m.items[k].position /\ t[k].item = m.items[k].item
      BY <1>2, <1>4, <1>5
    <3> QED  BY <3>1, <3>2
  <2> QED  BY <2>1, <2>2
<1> QED
  BY <1>1, <1>5, <1>9, <1>10

LEMMA FindsAgree ==
    ASSUME GoodPosts, NEW slug
    PROVE  PgFind(slug) = MemFind(slug)
<1> DEFINE pg(p) == [post |-> PgPost(p), items |-> FindItems(p)]
           mem(m) == [post |-> WithoutItems(m), items |-> m.items]
<1>1. /\ PgFind(slug) = {pg(p) : p \in {q \in postRows : q.slug = slug}}
      /\ MemFind(slug) = {mem(m) : m \in {n \in memPosts : n.slug = slug}}
  BY DEF PgFind, MemFind
<1>2. ASSUME NEW p, NEW m, Twin(p, m)
      PROVE  pg(p) = mem(m) /\ p.slug = m.slug
  BY <1>2, TwinsReadAlike, ItemsAgree DEF Twin
<1> HIDE DEF pg, mem
<1>3. \A p \in postRows : \E m \in memPosts : pg(p) = mem(m) /\ p.slug = m.slug
  BY <1>2 DEF GoodPosts
<1>4. \A m \in memPosts : \E p \in postRows : pg(p) = mem(m) /\ p.slug = m.slug
  BY <1>2 DEF GoodPosts
<1> QED
  BY <1>1, <1>3, <1>4

-----------------------------------------------------------------------------
(* The categories a post is to be linked to, as its request has them.      *)
Chosen(linked) ==
    \E a \in catRows :
        /\ a.parent = 0
        /\ \/ linked = <<a.slug>>
           \/ \E b \in catRows : b.parent = a.id /\ linked = <<a.slug, b.slug>>

(* What a request still holds of what it has read.                         *)
CategoryRequestOK(q) ==
    /\ q.op \in {"parent", "category"} => q.input \in CategoryInputs
    /\ q.op = "category" =>
           \/ q.input.parent = ""
           \/ \E d \in catRows : d.slug = q.input.parent /\ d.parent = 0

PostRequestOK(q) ==
    /\ q.op \in {"choice", "derivative", "create"} =>
           q.input \in PostInputs /\ q.items \in ItemLists
    /\ q.op = "derivative" =>
           \E a \in catRows : a.slug = q.input.category /\ a.parent = 0
    /\ q.op = "create" => Chosen(q.linked)

Gone(post) == \A p \in postRows : p.id # post.id

ReadOK(q) ==
    /\ q.op = "items" => Gone(q.post) \/ FindItems(q.post) = q.sent
    /\ q.op = "read" => q.items = q.sent \/ (q.items = <<>> /\ Gone(q.post))

GoodRequests ==
    /\ request = [r \in StoreRequests |-> request[r]]
    /\ \A r \in StoreRequests : /\ CategoryRequestOK(request[r])
                                /\ PostRequestOK(request[r])
                                /\ ReadOK(request[r])

StoresInv ==
    /\ GoodCategories
    /\ GoodPosts
    /\ GoodRequests
    /\ outcome.pg = outcome.mem

LEMMA StoresInitInv == StoresInit => StoresInv
<1> SUFFICES ASSUME StoresInit PROVE StoresInv
  OBVIOUS
<1>1. IsFiniteSet(catRows) /\ IsFiniteSet(postRows)
  BY FS_EmptySet DEF StoresInit
<1>2. GoodCategories
  BY <1>1 DEF StoresInit, GoodCategories
<1>3. GoodPosts
  BY <1>1 DEF StoresInit, GoodPosts
<1>4. GoodRequests
  BY DEF StoresInit, GoodRequests, CategoryRequestOK, PostRequestOK, ReadOK,
         NoRequest
<1>5. outcome.pg = outcome.mem
  BY DEF StoresInit, Ok
<1> QED
  BY <1>2, <1>3, <1>4, <1>5 DEF StoresInv

(* What is read of the tables of categories stays the same with them.      *)
SlugIn(rows, i) == IF i = 0 THEN "" ELSE (CHOOSE c \in rows : c.id = i).slug

LEMMA SlugIs ==
    ASSUME NEW i
    PROVE  Slug(i) = SlugIn(catRows, i) /\ Slug(i)' = SlugIn(catRows', i)
  BY DEF Slug, SlugIn

LEMMA JoinKept ==
    ASSUME NEW A, \A k \in DOMAIN ByLevel(A) :
                      Category(ByLevel(A)[k])' = Category(ByLevel(A)[k])
    PROVE  Joined(A)' = Joined(A)
  BY DEF Joined

LEMMA CategoriesKept ==
    ASSUME UNCHANGED <<catRows, linkRows>>
    PROVE  /\ \A i : Slug(i)' = Slug(i)
           /\ \A c : Category(c)' = Category(c)
           /\ \A A : Joined(A)' = Joined(A)
           /\ \A p : Linked(p)' = Linked(p)
<1>1. \A i : Slug(i)' = Slug(i)
  BY SlugIs
<1>2. \A c : Category(c)' = Category(c)
  BY <1>1 DEF Category
<1>3. \A A : Joined(A)' = Joined(A)
  BY <1>2, JoinKept
<1>4. \A p : Linked(p)' = Linked(p)
  BY DEF Linked
<1> QED
  BY <1>1, <1>2, <1>3, <1>4

(* A request ends, or goes on to what its answers allow.                   *)
LEMMA RequestMoves ==
    ASSUME StoresInv, NEW r \in StoreRequests, NEW q,
           request' = [request EXCEPT ![r] = q],
           CategoryRequestOK(q), PostRequestOK(q), ReadOK(q),
           UNCHANGED <<catRows, postRows, linkRows, itemRows, memCats,
                       memPosts>>
    PROVE  GoodCategories' /\ GoodPosts' /\ GoodRequests'
<1>1. GoodCategories'
  BY CategoriesKept DEF StoresInv, GoodCategories
<1>2. GoodPosts'
  <2>1. \A p, m : Twin(p, m)' <=> Twin(p, m)
    BY CategoriesKept DEF Twin, ItemsOf
  <2>2. \A p \in postRows : TwoDeep(Linked(p))'
    BY CategoriesKept DEF StoresInv, GoodPosts, TwoDeep
  <2> QED  BY <2>1, <2>2 DEF StoresInv, GoodPosts
<1>3. \A s \in StoreRequests : request'[s] = IF s = r THEN q ELSE request[s]
  BY DEF StoresInv, GoodRequests
<1>4. request' = [s \in StoreRequests |-> request'[s]]
  BY DEF StoresInv, GoodRequests
<1>5. \A s \in StoreRequests : /\ CategoryRequestOK(request'[s])
                               /\ PostRequestOK(request'[s])
                               /\ ReadOK(request'[s])
  BY <1>3 DEF StoresInv, GoodRequests
<1>6. \A x : CategoryRequestOK(x) => CategoryRequestOK(x)'
  BY DEF CategoryRequestOK
<1>7. \A x : PostRequestOK(x) => PostRequestOK(x)'
  BY DEF PostRequestOK, Chosen
<1>8. \A x : ReadOK(x) => ReadOK(x)'
  BY DEF ReadOK, Gone, FindItems
<1>9. GoodRequests'
  BY <1>4, <1>5, <1>6, <1>7, <1>8 DEF GoodRequests
<1> QED
  BY <1>1, <1>2, <1>9

-----------------------------------------------------------------------------
LEMMA FindCategoryIs ==
    ASSUME GoodCategories, NEW slug
    PROVE  \/ FindCategory(slug) = {} /\ \A c \in catRows : c.slug # slug
           \/ \E c \in catRows : /\ c.slug = slug
                                 /\ FindCategory(slug) = {Category(c)}
<1>1. CASE \E c \in catRows : c.slug = slug
  BY <1>1, RowById
<1>2. CASE ~ \E c \in catRows : c.slug = slug
  BY <1>2 DEF FindCategory
<1> QED
  BY <1>1, <1>2

(* A parent that was found to be top-level still is when its derivative is *)
(* inserted, so both stores refuse nothing but a slug that is taken.       *)
LEMMA CategoryAnswers ==
    ASSUME GoodCategories, NEW c,
           \/ c.parent = ""
           \/ \E d \in catRows : d.slug = c.parent /\ d.parent = 0
    PROVE  /\ PgCreateCategory(c) = MemCreateCategory(c)
           /\ PgCreateCategory(c) = "ok" => \A d \in catRows : d.slug # c.slug
<1> DEFINE slugs == {d.slug : d \in memCats}
<1>1. \A s : s \in slugs <=> \E d \in catRows : d.slug = s
  <2>1. \A d \in catRows : Category(d) \in memCats /\ Category(d).slug = d.slug
    BY CategoryIs
  <2>2. \A m \in memCats : \E d \in catRows : m = Category(d)
    BY DEF GoodCategories
  <2>3. ASSUME NEW d \in catRows PROVE d.slug \in slugs
    BY <2>1
  <2>4. ASSUME NEW s \in slugs PROVE \E d \in catRows : d.slug = s
    <3>1. PICK m \in memCats : s = m.slug
      BY <2>4
    <3>2. PICK d \in catRows : m = Category(d)
      BY <2>2
    <3> QED  BY <2>1, <3>1, <3>2
  <2> HIDE DEF slugs
  <2> QED  BY <2>3, <2>4
<1> HIDE DEF slugs
<1>2. \A s : FindCategory(s) = {} <=> s \notin slugs
  BY <1>1, FindCategoryIs
<1>3. \A d \in FindCategory(c.parent) : d.parent = ""
  <2>1. CASE c.parent = ""
    <3>1. \A d \in catRows : d.slug # c.parent
      BY <2>1, RowTypes
    <3> QED  BY <3>1 DEF FindCategory
  <2>2. ASSUME NEW d \in catRows, d.slug = c.parent, d.parent = 0
        PROVE  \A x \in FindCategory(c.parent) : x.parent = ""
    <3>1. FindCategory(c.parent) = {Category(d)}
      BY <2>2, RowById
    <3>2. Category(d).parent = ""
      BY <2>2, CategoryIs
    <3> QED  BY <3>1, <3>2
  <2> QED  BY <2>1, <2>2
<1>4. c.parent # "" => c.parent \in slugs
  BY <1>1
<1>5. MemCreateCategory(c) = IF c.slug \in slugs THEN "conflict" ELSE "ok"
  BY <1>4 DEF MemCreateCategory, slugs
<1>6. PgCreateCategory(c) = IF c.slug \in slugs THEN "conflict" ELSE "ok"
  BY <1>2, <1>3, <1>4 DEF PgCreateCategory
<1> QED
  BY <1>1, <1>5, <1>6

(* The parent a new row refers to.                                         *)
Refers(c, parent) ==
    \/ c.parent = "" /\ parent = 0
    \/ \E d \in catRows : /\ d.slug = c.parent /\ d.parent = 0
                          /\ parent = d.id /\ c.parent # ""

LEMMA CategoryAdded ==
    ASSUME GoodCategories, NEW i \in CategoryIds, NEW c \in CategoryInputs,
           \A d \in catRows : d.id # i /\ d.slug # c.slug,
           NEW parent, Refers(c, parent),
           NEW n, n = [id |-> i, slug |-> c.slug, name |-> c.name,
                       parent |-> parent],
           NEW m, m = [id |-> i, slug |-> c.slug, name |-> c.name,
                       parent |-> c.parent],
           catRows' = catRows \cup {n}, memCats' = memCats \cup {m}
    PROVE  GoodCategories' /\ \A d \in catRows : Category(d)' = Category(d)
<1>1. parent = 0 \/ \E d \in catRows : d.id = parent /\ d.parent = 0
  BY Zenon DEF Refers
<1>2. n \in CategoryRow
  <2>1. c.name \in Nat /\ c.slug \in CategorySlugs
    BY PostStoresAssumption DEF CategorySlugs
  <2>2. parent \in Nat
    <3>1. ASSUME NEW d \in catRows, parent = d.id PROVE parent \in Nat
      BY <3>1, RowTypes
    <3> QED  BY <1>1, <3>1
  <2> QED  BY <2>1, <2>2 DEF CategoryRow
<1>3. IsFiniteSet(catRows')
  BY FS_AddElement DEF GoodCategories
<1>4. \A d, e \in catRows' : d.id = e.id \/ d.slug = e.slug => d = e
  <2>1. \A d, e \in catRows : d.id = e.id \/ d.slug = e.slug => d = e
    BY DEF GoodCategories
  <2>2. n.id = i /\ n.slug = c.slug
    OBVIOUS
  <2> QED  BY <2>1, <2>2
<1>5. n.parent = 0 \/ \E d \in catRows : d.id = n.parent /\ d.parent = 0
  BY <1>1
<1>6. \A d \in catRows' :
          d.parent = 0 \/ \E e \in catRows' : e.id = d.parent /\ e.parent = 0
  BY <1>5 DEF GoodCategories
<1>7. \A d \in catRows : Slug(d.id)' = Slug(d.id)
  <2> SUFFICES ASSUME NEW d \in catRows PROVE Slug(d.id)' = Slug(d.id)
    OBVIOUS
  <2>1. (CHOOSE e \in catRows' : e.id = d.id) = d
    BY <1>4
  <2>2. d.id # 0 /\ Slug(d.id) = d.slug
    BY RowTypes, RowById
  <2>3. SlugIn(catRows', d.id) = d.slug
    BY <2>1, <2>2 DEF SlugIn
  <2> QED  BY <2>2, <2>3, SlugIs
<1>8. Slug(0) = "" /\ Slug(0)' = ""
  BY DEF Slug
<1>9. \A d \in catRows : Category(d)' = Category(d)
  <2> SUFFICES ASSUME NEW d \in catRows PROVE Slug(d.parent)' = Slug(d.parent)
    BY DEF Category
  <2>1. CASE d.parent = 0
    BY <1>8, <2>1
  <2>2. CASE d.parent # 0
    <3>1. PICK e \in catRows : e.id = d.parent
      BY <2>2 DEF GoodCategories
    <3> QED  BY <1>7, <3>1
  <2> QED  BY <2>1, <2>2
<1>10. Category(n)' = m
  <2>1. Slug(parent)' = c.parent
    <3>1. ASSUME c.parent = "", parent = 0 PROVE Slug(parent)' = c.parent
      BY <1>8, <3>1
    <3>2. ASSUME NEW d \in catRows, d.slug = c.parent, parent = d.id
          PROVE  Slug(parent)' = c.parent
      BY <1>7, <3>2, RowById
    <3> QED  BY <3>1, <3>2, Zenon DEF Refers
  <2> QED  BY <2>1 DEF Category
<1>11. memCats' = {Category(d)' : d \in catRows'}
  BY <1>9, <1>10 DEF GoodCategories
<1> QED
  BY <1>2, <1>3, <1>4, <1>6, <1>9, <1>11 DEF GoodCategories

(* The posts are read as before: no row of theirs refers to the new one.   *)
LEMMA PostsKept ==
    ASSUME GoodCategories, GoodPosts, NEW n, \A d \in catRows : d.id # n.id,
           catRows' = catRows \cup {n},
           \A d \in catRows : Category(d)' = Category(d),
           UNCHANGED <<postRows, linkRows, itemRows, memPosts>>
    PROVE  GoodPosts'
<1>1. \A p : Linked(p)' = Linked(p)
  <2> SUFFICES ASSUME NEW p PROVE <<p.id, n.id>> \notin linkRows
    BY DEF Linked
  <2> QED  BY DEF GoodPosts
<1>2. \A p : Joined(Linked(p))' = Joined(Linked(p))
  <2> SUFFICES ASSUME NEW p, NEW A, A = Linked(p) PROVE Joined(A)' = Joined(A)
    BY <1>1 DEF Joined
  <2>1. A \subseteq catRows
    BY DEF Linked
  <2>2. \A k \in DOMAIN ByLevel(A) : ByLevel(A)[k] \in catRows
    BY <2>1, JoinIs
  <2> QED  BY <2>2, JoinKept
<1>3. \A p, m : Twin(p, m)' <=> Twin(p, m)
  BY <1>2 DEF Twin, ItemsOf
<1>4. \A p \in postRows : TwoDeep(Linked(p))'
  BY <1>1 DEF GoodPosts, TwoDeep
<1>5. \A l \in linkRows : \E p \in postRows : \E c \in catRows' : l = <<p.id, c.id>>
  BY DEF GoodPosts
<1> QED
  BY <1>3, <1>4, <1>5 DEF GoodPosts

LEMMA NoRequestOK ==
    CategoryRequestOK(NoRequest) /\ PostRequestOK(NoRequest) /\ ReadOK(NoRequest)
  BY DEF NoRequest, CategoryRequestOK, PostRequestOK, ReadOK

-----------------------------------------------------------------------------
(* One lemma per action.                                                   *)
LEMMA StartCategoryInv ==
    ASSUME StoresInv, NEW r \in StoreRequests, StartCategory(r)
    PROVE  StoresInv'
<1>1. PICK c \in CategoryInputs :
          request' = [request EXCEPT ![r] = CategoryRequest(
                          IF c.parent = "" THEN "category" ELSE "parent", c)]
  BY DEF StartCategory
<1> DEFINE q == CategoryRequest(IF c.parent = "" THEN "category" ELSE "parent", c)
<1>2. CategoryRequestOK(q) /\ PostRequestOK(q) /\ ReadOK(q)
  BY DEF CategoryRequestOK, PostRequestOK, ReadOK, CategoryRequest
<1>3. request' = [request EXCEPT ![r] = q]
  BY <1>1
<1> HIDE DEF q
<1>4. GoodCategories' /\ GoodPosts' /\ GoodRequests'
  BY <1>2, <1>3, RequestMoves DEF StartCategory
<1> QED
  BY <1>4 DEF StartCategory, StoresInv

LEMMA CheckParentInv ==
    ASSUME StoresInv, NEW r \in StoreRequests, CheckParent(r)
    PROVE  StoresInv'
<1> DEFINE c == request[r].input
           q == CategoryRequest("category", c)
<1>1. request[r].op = "parent" /\ c \in CategoryInputs
  BY DEF CheckParent, StoresInv, GoodRequests, CategoryRequestOK
<1>2. CASE ParentAllowed(FindCategory(c.parent))
  <2>1. \E d \in catRows : d.slug = c.parent /\ d.parent = 0
    <3>1. PICK x \in FindCategory(c.parent) : x.parent = ""
      BY <1>2 DEF ParentAllowed
    <3>2. PICK d \in catRows : d.slug = c.parent /\ x = Category(d)
      BY <3>1 DEF FindCategory
    <3>3. d.parent = 0
      BY <3>1, <3>2, CategoryIs DEF StoresInv
    <3> QED  BY <3>2, <3>3
  <2>2. CategoryRequestOK(q) /\ PostRequestOK(q) /\ ReadOK(q)
    BY <1>1, <2>1 DEF CategoryRequestOK, PostRequestOK, ReadOK, CategoryRequest
  <2>3. request' = [request EXCEPT ![r] = q]
    BY <1>2 DEF CheckParent
  <2> HIDE DEF q
  <2>4. GoodCategories' /\ GoodPosts' /\ GoodRequests'
    BY <2>2, <2>3, RequestMoves DEF CheckParent
  <2> QED  BY <2>4 DEF CheckParent, StoresInv
<1>3. CASE ~ParentAllowed(FindCategory(c.parent))
  <2>1. request' = [request EXCEPT ![r] = NoRequest]
    BY <1>3 DEF CheckParent
  <2>2. GoodCategories' /\ GoodPosts' /\ GoodRequests'
    BY <2>1, NoRequestOK, RequestMoves DEF CheckParent
  <2> QED  BY <2>2 DEF CheckParent, StoresInv
<1> QED
  BY <1>2, <1>3

LEMMA InsertCategoryInv ==
    ASSUME StoresInv, NEW r \in StoreRequests, InsertCategory(r)
    PROVE  StoresInv'
<1> DEFINE c == request[r].input
           parent == IF c.parent = "" THEN 0 ELSE CatId(c.parent)
           pg == PgCreateCategory(c)
           mem == MemCreateCategory(c)
<1>1. PICK i \in CategoryIds \ {d.id : d \in catRows} :
          /\ outcome' = [pg |-> pg, mem |-> mem]
          /\ IF pg = "ok"
             THEN catRows' = catRows \cup
                      {[id |-> i, slug |-> c.slug, name |-> c.name,
                        parent |-> parent]}
             ELSE UNCHANGED catRows
          /\ IF mem = "ok"
             THEN memCats' = memCats \cup
                      {[id |-> i, slug |-> c.slug, name |-> c.name,
                        parent |-> c.parent]}
             ELSE UNCHANGED memCats
  BY DEF InsertCategory
<1>2. /\ request' = [request EXCEPT ![r] = NoRequest]
      /\ UNCHANGED <<postRows, linkRows, itemRows, memPosts>>
  BY DEF InsertCategory
<1>3. /\ c \in CategoryInputs
      /\ \/ c.parent = ""
         \/ \E d \in catRows : d.slug = c.parent /\ d.parent = 0
  BY DEF InsertCategory, StoresInv, GoodRequests, CategoryRequestOK
<1>4. pg = mem /\ (pg = "ok" => \A d \in catRows : d.slug # c.slug)
  BY <1>3, CategoryAnswers DEF StoresInv
<1>5. Refers(c, parent)
  <2>1. CASE c.parent = ""
    BY <2>1, Zenon DEF Refers
  <2>2. CASE c.parent # ""
    <3>1. PICK d \in catRows : d.slug = c.parent /\ d.parent = 0
      BY <1>3, <2>2
    <3>2. parent = CatId(d.slug)
      BY <2>2, <3>1
    <3>3. CatId(d.slug) = d.id
      BY RowById DEF StoresInv
    <3> QED  BY <2>2, <3>1, <3>2, <3>3, Zenon DEF Refers
  <2> QED  BY <2>1, <2>2
<1> HIDE DEF c, parent, pg, mem
<1>6. CASE pg # "ok"
  <2>1. GoodCategories' /\ GoodPosts' /\ GoodRequests'
    BY <1>1, <1>2, <1>4, <1>6, NoRequestOK, RequestMoves
  <2> QED  BY <1>1, <1>4, <2>1 DEF StoresInv
<1>7. CASE pg = "ok"
  <2> DEFINE n == [id |-> i, slug |-> c.slug, name |-> c.name,
                   parent |-> parent]
             m == [id |-> i, slug |-> c.slug, name |-> c.name,
                   parent |-> c.parent]
  <2>1. catRows' = catRows \cup {n} /\ memCats' = memCats \cup {m}
    BY <1>1, <1>4, <1>7
  <2>2. \A d \in catRows : d.id # i /\ d.slug # c.slug
    BY <1>4, <1>7
  <2>3. n.id = i
    OBVIOUS
  <2> HIDE DEF n, m
  <2>4. GoodCategories' /\ \A d \in catRows : Category(d)' = Category(d)
    BY <1>3, <1>5, <2>1, <2>2, CategoryAdded DEF StoresInv, n, m
  <2>5. GoodPosts'
    BY <1>2, <2>1, <2>2, <2>3, <2>4, PostsKept DEF StoresInv
  <2>6. \A s \in StoreRequests :
            request'[s] = IF s = r THEN NoRequest ELSE request[s]
    BY <1>2 DEF StoresInv, GoodRequests
  <2>7. request' = [s \in StoreRequests |-> request'[s]]
    BY <1>2 DEF StoresInv, GoodRequests
  <2>8. \A x : CategoryRequestOK(x) => CategoryRequestOK(x)'
    BY <2>1 DEF CategoryRequestOK
  <2>9. \A x : PostRequestOK(x) => PostRequestOK(x)'
    BY <2>1 DEF PostRequestOK, Chosen
  <2>10. \A x : ReadOK(x) => ReadOK(x)'
    BY <1>2 DEF ReadOK, Gone, FindItems
  <2>11. GoodRequests'
    BY <2>6, <2>7, <2>8, <2>9, <2>10, NoRequestOK DEF StoresInv, GoodRequests
  <2> QED  BY <1>1, <1>4, <2>4, <2>5, <2>11 DEF StoresInv
<1> QED
  BY <1>6, <1>7

(* What normalizeItems makes of a list that it lets through.               *)
LEMMA NormalizedItems ==
    ASSUME NEW raw \in Seq(ItemInputs), ItemsAllowed(raw)
    PROVE  NormalizeItems(raw) \in ItemLists
<1>1. PICK n \in Nat : DOMAIN raw = 1 .. n
  OBVIOUS
<1>2. \A k \in 1 .. n : NormalizeItem(raw[k]) \in Items
  BY <1>1 DEF ItemsAllowed, Items
<1>3. NormalizeItems(raw)
        = [k \in 1 .. n |-> [position |-> k - 1,
                             item |-> NormalizeItem(raw[k])]]
  BY <1>1 DEF NormalizeItems
<1> QED
  BY <1>2, <1>3 DEF ItemLists

LEMMA StartPostInv ==
    ASSUME StoresInv, NEW r \in StoreRequests, StartPost(r)
    PROVE  StoresInv'
<1>1. PICK p \in PostInputs :
          /\ ItemsAllowed(p.items)
          /\ request' = [request EXCEPT ![r] =
                 PostRequest("choice", p, NormalizeItems(p.items), <<>>)]
  BY DEF StartPost
<1> DEFINE q == PostRequest("choice", p, NormalizeItems(p.items), <<>>)
<1>2. NormalizeItems(p.items) \in ItemLists
  BY <1>1, NormalizedItems, PostStoresAssumption
<1>3. CategoryRequestOK(q) /\ PostRequestOK(q) /\ ReadOK(q)
  BY <1>2 DEF CategoryRequestOK, PostRequestOK, ReadOK, PostRequest
<1> HIDE DEF q
<1>4. GoodCategories' /\ GoodPosts' /\ GoodRequests'
  BY <1>1, <1>3, RequestMoves DEF StartPost, q
<1> QED
  BY <1>4 DEF StartPost, StoresInv

LEMMA ChooseCategoryInv ==
    ASSUME StoresInv, NEW r \in StoreRequests, ChooseCategory(r)
    PROVE  StoresInv'
<1> DEFINE p == request[r].input
           items == request[r].items
           found == FindCategory(p.category)
           parent == (CHOOSE c \in found : TRUE).parent
           q == IF found = {} THEN NoRequest
                ELSE IF parent # ""
                THEN IF p.derivative \in {"", p.category}
                     THEN PostRequest("create", p, items,
                                      <<parent, p.category>>)
                     ELSE NoRequest
                ELSE IF p.derivative = ""
                THEN PostRequest("create", p, items, <<p.category>>)
                ELSE PostRequest("derivative", p, items, <<>>)
<1>1. request' = [request EXCEPT ![r] = q]
  BY DEF ChooseCategory
<1>2. p \in PostInputs /\ items \in ItemLists
  BY DEF ChooseCategory, StoresInv, GoodRequests, PostRequestOK
<1> HIDE DEF p, items
<1>3. CategoryRequestOK(q) /\ PostRequestOK(q) /\ ReadOK(q)
  <2>1. CASE found = {}
    BY <2>1, NoRequestOK
  <2>2. CASE found # {}
    <3>1. PICK c \in catRows : c.slug = p.category /\ found = {Category(c)}
      BY <2>2, FindCategoryIs DEF StoresInv
    <3>2. parent = Category(c).parent
      BY <3>1
    <3>3. /\ parent = "" => c.parent = 0
          /\ parent # "" => /\ Top(c) \in catRows /\ Top(c).parent = 0
                            /\ Top(c).id = c.parent /\ parent = Top(c).slug
      BY <3>2, CategoryIs, TopIsARow DEF StoresInv
    <3> HIDE DEF parent, found
    <3>4. CASE q = NoRequest
      BY <3>4, NoRequestOK
    <3>5. CASE parent # "" /\ q = PostRequest("create", p, items,
                                              <<parent, p.category>>)
      <4>1. Chosen(<<parent, p.category>>)
        BY <3>1, <3>3, <3>5 DEF Chosen
      <4> HIDE DEF q
      <4> QED
        BY <1>2, <3>5, <4>1 DEF CategoryRequestOK, PostRequestOK, ReadOK,
                                PostRequest
    <3>6. CASE parent = "" /\ q = PostRequest("create", p, items, <<p.category>>)
      <4>1. Chosen(<<p.category>>)
        BY <3>1, <3>3, <3>6 DEF Chosen
      <4> HIDE DEF q
      <4> QED
        BY <1>2, <3>6, <4>1 DEF CategoryRequestOK, PostRequestOK, ReadOK,
                                PostRequest
    <3>7. CASE parent = "" /\ q = PostRequest("derivative", p, items, <<>>)
      <4> HIDE DEF q
      <4> QED
        BY <1>2, <3>1, <3>3, <3>7 DEF CategoryRequestOK, PostRequestOK, ReadOK,
                                      PostRequest
    <3> QED  BY <2>2, <3>4, <3>5, <3>6, <3>7
  <2> QED  BY <2>1, <2>2
<1> HIDE DEF q
<1>4. GoodCategories' /\ GoodPosts' /\ GoodRequests'
  BY <1>1, <1>3, RequestMoves DEF ChooseCategory
<1> QED
  BY <1>4 DEF ChooseCategory, StoresInv

LEMMA ChooseDerivativeInv ==
    ASSUME StoresInv, NEW r \in StoreRequests, ChooseDerivative(r)
    PROVE  StoresInv'
<1> DEFINE p == request[r].input
           items == request[r].items
           q == PostRequest("create", p, items, <<p.category, p.derivative>>)
<1>1. /\ p \in PostInputs /\ items \in ItemLists
      /\ \E a \in catRows : a.slug = p.category /\ a.parent = 0
  BY DEF ChooseDerivative, StoresInv, GoodRequests, PostRequestOK
<1>2. CASE \E c \in FindCategory(p.derivative) : c.parent = p.category
  <2>1. request' = [request EXCEPT ![r] = q]
    BY <1>2 DEF ChooseDerivative
  <2>2. PICK x \in FindCategory(p.derivative) : x.parent = p.category
    BY <1>2
  <2>3. PICK b \in catRows : b.slug = p.derivative /\ x = Category(b)
    BY <2>2 DEF FindCategory
  <2>4. p.category # ""
    BY <1>1, PostStoresAssumption
  <2>5. b.parent # 0 /\ Top(b).slug = p.category
    BY <2>2, <2>3, <2>4, CategoryIs DEF StoresInv
  <2>6. Top(b) \in catRows /\ Top(b).parent = 0 /\ Top(b).id = b.parent
    BY <2>5, TopIsARow DEF StoresInv
  <2>7. Chosen(<<p.category, p.derivative>>)
    BY <2>3, <2>5, <2>6 DEF Chosen
  <2> HIDE DEF p, items
  <2>8. CategoryRequestOK(q) /\ PostRequestOK(q) /\ ReadOK(q)
    BY <1>1, <2>7 DEF CategoryRequestOK, PostRequestOK, ReadOK, PostRequest
  <2> HIDE DEF q
  <2>9. GoodCategories' /\ GoodPosts' /\ GoodRequests'
    BY <2>1, <2>8, RequestMoves DEF ChooseDerivative
  <2> QED  BY <2>9 DEF ChooseDerivative, StoresInv
<1>3. CASE ~ \E c \in FindCategory(p.derivative) : c.parent = p.category
  <2>1. request' = [request EXCEPT ![r] = NoRequest]
    BY <1>3 DEF ChooseDerivative
  <2>2. GoodCategories' /\ GoodPosts' /\ GoodRequests'
    BY <2>1, NoRequestOK, RequestMoves DEF ChooseDerivative
  <2> QED  BY <2>2 DEF ChooseDerivative, StoresInv
<1> QED
  BY <1>2, <1>3

(* The items of a post are those its author sent.                          *)
LEMMA ItemsAreSent ==
    ASSUME GoodPosts, NEW p \in postRows
    PROVE  FindItems(p) = SentItems(p)
<1>1. PICK m \in memPosts : Twin(p, m)
  BY DEF GoodPosts
<1>2. m.id = p.id /\ \A n \in memPosts : n.id = p.id => n = m
  BY <1>1 DEF Twin, GoodPosts
<1>3. SentItems(p) = m.items
  BY <1>2 DEF SentItems
<1> QED
  BY <1>1, <1>3, ItemsAgree

LEMMA StartGetInv ==
    ASSUME StoresInv, NEW r \in StoreRequests, StartGet(r)
    PROVE  StoresInv'
<1>1. PICK p \in postRows :
          request' = [request EXCEPT ![r] =
              [op |-> "items", post |-> PgPost(p), sent |-> SentItems(p)]]
  BY DEF StartGet
<1> DEFINE q == [op |-> "items", post |-> PgPost(p), sent |-> SentItems(p)]
<1>2. FindItems(PgPost(p)) = SentItems(p)
  <2>1. FindItems(PgPost(p)) = FindItems(p)
    BY DEF FindItems, PgPost
  <2> QED  BY <2>1, ItemsAreSent DEF StoresInv
<1>3. CategoryRequestOK(q) /\ PostRequestOK(q) /\ ReadOK(q)
  BY <1>2 DEF CategoryRequestOK, PostRequestOK, ReadOK
<1> HIDE DEF q
<1>4. GoodCategories' /\ GoodPosts' /\ GoodRequests'
  BY <1>1, <1>3, RequestMoves DEF StartGet, q
<1> QED
  BY <1>4 DEF StartGet, StoresInv

(* No rows, no items.                                                      *)
LEMMA NoItems == InOrder({}) = <<>>
<1> DEFINE R == OrderOf({}, LAMBDA i, j : i.position < j.position)
           ordered == InOrderOf({}, R)
<1>1. InOrder({}) = [k \in DOMAIN ordered |->
                        [position |-> ordered[k].position,
                         item |-> ordered[k].item]]
  BY DEF InOrder, SortedBy
<1> HIDE DEF R
<1>2. Cardinality({}) = 0
  BY FS_EmptySet
<1>3. DOMAIN ordered = 1 .. 0
  BY <1>2 DEF InOrderOf
<1> HIDE DEF ordered
<1> QED
  BY <1>1, <1>3

LEMMA GetItemsInv ==
    ASSUME StoresInv, NEW r \in StoreRequests, GetItems(r)
    PROVE  StoresInv'
<1> DEFINE q == [op |-> "read", post |-> request[r].post,
                 sent |-> request[r].sent,
                 items |-> FindItems(request[r].post)]
<1>1. request' = [request EXCEPT ![r] = q]
  BY DEF GetItems
<1>2. \/ Gone(request[r].post)
      \/ FindItems(request[r].post) = request[r].sent
  BY DEF GetItems, StoresInv, GoodRequests, ReadOK
<1>3. ASSUME Gone(request[r].post) PROVE FindItems(request[r].post) = <<>>
  <2>1. {i \in itemRows : i.post = request[r].post.id} = {}
    BY <1>3 DEF Gone, StoresInv, GoodPosts
  <2> QED  BY <2>1, NoItems DEF FindItems
<1>4. CategoryRequestOK(q) /\ PostRequestOK(q) /\ ReadOK(q)
  BY <1>2, <1>3 DEF CategoryRequestOK, PostRequestOK, ReadOK, Gone
<1> HIDE DEF q
<1>5. GoodCategories' /\ GoodPosts' /\ GoodRequests'
  BY <1>1, <1>4, RequestMoves DEF GetItems
<1> QED
  BY <1>5 DEF GetItems, StoresInv

LEMMA EndGetInv ==
    ASSUME StoresInv, NEW r \in StoreRequests, EndGet(r)
    PROVE  StoresInv'
<1>1. GoodCategories' /\ GoodPosts' /\ GoodRequests'
  BY NoRequestOK, RequestMoves DEF EndGet
<1> QED
  BY <1>1 DEF EndGet, StoresInv

-----------------------------------------------------------------------------
(* What normalizeItem lets through satisfies the CHECK constraint.         *)
LEMMA ItemsSatisfyTheCheck ==
    ASSUME NEW i \in Items
    PROVE  KindPayload(i)
<1>1. PICK raw \in ItemInputs : ItemAllowed(raw) /\ i = NormalizeItem(raw)
  BY DEF Items
<1>2. raw \in [ItemFields -> ItemTexts]
  BY <1>1, PostStoresAssumption
<1> DEFINE set == {f \in {"body", "url", "filename", "mime"} : i[f] # "absent"}
<1>3. CASE /\ i = raw /\ raw.kind \in {"markdown", "text"} /\ Filled(raw.body)
           /\ Refuses(raw, {"url", "filename", "mime"})
  <2>1. /\ i.url = "absent" /\ i.filename = "absent" /\ i.mime = "absent"
        /\ i.body # "absent"
    BY <1>3 DEF Filled, Refuses
  <2>2. set = {"body"}
    BY <2>1
  <2> QED  BY <1>3, <2>2 DEF KindPayload
<1>4. CASE /\ i = raw /\ raw.kind = "link" /\ Filled(raw.url)
           /\ Refuses(raw, {"body", "filename", "mime"})
  <2>1. /\ i.body = "absent" /\ i.filename = "absent" /\ i.mime = "absent"
        /\ i.url # "absent"
    BY <1>4 DEF Filled, Refuses
  <2>2. set = {"url"}
    BY <2>1
  <2> QED  BY <1>4, <2>2 DEF KindPayload
<1>5. CASE /\ raw.kind = "file" /\ Filled(raw.body) /\ Filled(raw.filename)
           /\ raw.url = "absent"
           /\ i \in {raw, [raw EXCEPT !.mime = "default"]}
  <2>1. /\ i.kind = raw.kind /\ i.body = raw.body /\ i.url = raw.url
        /\ i.filename = raw.filename
    BY <1>2, <1>5 DEF ItemFields
  <2>2. /\ i.kind = "file" /\ i.url = "absent" /\ i.body # "absent"
        /\ i.filename # "absent"
    BY <1>5, <2>1 DEF Filled
  <2>3. {"body", "filename"} \subseteq set /\ "url" \notin set
    BY <2>2
  <2> QED  BY <2>2, <2>3 DEF KindPayload
<1> QED
  BY <1>1, <1>3, <1>4, <1>5 DEF NormalizeItem, ItemAllowed

(* The categories that a request has chosen are rows still, which the join *)
(* and the memory store find alike.                                        *)
LEMMA ChosenRows ==
    ASSUME GoodCategories, NEW linked, Chosen(linked)
    PROVE  LET A == {c \in catRows : c.slug \in ToSet(linked)}
           IN  /\ TwoDeep(A) /\ Cardinality(A) = Len(linked)
               /\ \A k \in DOMAIN linked : \E c \in A : c.slug = linked[k]
               /\ ToSet(linked) = {c.slug : c \in A}
<1> DEFINE A == {c \in catRows : c.slug \in ToSet(linked)}
<1>1. PICK a \in catRows :
          /\ a.parent = 0
          /\ \/ linked = <<a.slug>>
             \/ \E b \in catRows : b.parent = a.id /\ linked = <<a.slug, b.slug>>
  BY DEF Chosen
<1>2. \A c, d \in catRows : c.slug = d.slug => c = d
  BY DEF GoodCategories
<1>3. CASE linked = <<a.slug>>
  <2>1. ToSet(linked) = {a.slug} /\ Len(linked) = 1 /\ DOMAIN linked = {1}
    BY <1>3 DEF ToSet
  <2>2. A = {a}
    BY <1>2, <2>1
  <2>3. Cardinality({a}) = 1
    BY FS_Singleton
  <2>4. TwoDeep({a})
    BY <1>1 DEF TwoDeep
  <2>5. linked[1] = a.slug
    BY <1>3
  <2> HIDE DEF A
  <2> QED  BY <2>1, <2>2, <2>3, <2>4, <2>5 DEF A
<1>4. ASSUME NEW b \in catRows, b.parent = a.id, linked = <<a.slug, b.slug>>
      PROVE  /\ TwoDeep(A) /\ Cardinality(A) = Len(linked)
             /\ \A k \in DOMAIN linked : \E c \in A : c.slug = linked[k]
             /\ ToSet(linked) = {c.slug : c \in A}
  <2>1. /\ ToSet(linked) = {a.slug, b.slug} /\ Len(linked) = 2
        /\ DOMAIN linked = {1, 2} /\ linked[1] = a.slug /\ linked[2] = b.slug
    BY <1>4 DEF ToSet
  <2>2. A = {a, b}
    BY <1>2, <2>1
  <2>3. b.parent # 0
    BY <1>4, RowTypes
  <2>4. a # b
    BY <1>1, <2>3
  <2>5. Cardinality({a, b}) = 2
    <3>1. Cardinality({b}) = 1 /\ IsFiniteSet({b})
      BY FS_Singleton
    <3>2. Cardinality({b} \cup {a}) = 2
      BY <2>4, <3>1, FS_AddElement
    <3>3. {a, b} = {b} \cup {a}
      OBVIOUS
    <3> QED  BY <3>2, <3>3
  <2>6. TwoDeep({a, b})
    BY <1>1, <1>4 DEF TwoDeep
  <2> HIDE DEF A
  <2> QED  BY <2>1, <2>2, <2>5, <2>6
<1> QED
  BY <1>1, <1>3, <1>4

LEMMA PostAnswers ==
    ASSUME GoodCategories, GoodPosts, NEW linked, Chosen(linked),
           NEW items \in ItemLists, NEW slug
    PROVE  LET A == {c \in catRows : c.slug \in ToSet(linked)}
           IN  /\ MemCategories(linked) = Joined(A)
               /\ {CatId(s) : s \in ToSet(linked)} = {c.id : c \in A}
               /\ PgCreatePost(slug, linked, items) = MemCreatePost(slug, linked)
               /\ PgCreatePost(slug, linked, items) = "ok"
                    => \A p \in postRows : p.slug # slug
<1> DEFINE A == {c \in catRows : c.slug \in ToSet(linked)}
<1>1. /\ Cardinality(A) = Len(linked)
      /\ \A k \in DOMAIN linked : \E c \in A : c.slug = linked[k]
      /\ ToSet(linked) = {c.slug : c \in A}
  BY ChosenRows
<1>2. {c \in memCats : c.slug \in ToSet(linked)} = {Category(c) : c \in A}
  <2>1. \A c \in catRows : Category(c) \in memCats /\ Category(c).slug = c.slug
    BY CategoryIs
  <2>2. \A m \in memCats : \E c \in catRows : m = Category(c)
    BY DEF GoodCategories
  <2> QED  BY <2>1, <2>2
<1>3. MemCategories(linked) = Joined(A)
  <2>1. A \subseteq catRows
    OBVIOUS
  <2> HIDE DEF A
  <2> QED  BY <1>2, <2>1, JoinsAgree DEF MemCategories
<1>4. {CatId(s) : s \in ToSet(linked)} = {c.id : c \in A}
  <2>1. \A c \in A : CatId(c.slug) = c.id
    BY RowById
  <2>2. A \subseteq catRows
    OBVIOUS
  <2> HIDE DEF A
  <2> QED  BY <1>1, <2>1
<1>5. (\E p \in postRows : p.slug = slug) <=> \E p \in memPosts : p.slug = slug
  BY DEF GoodPosts, Twin
<1>6. /\ \A k \in DOMAIN items : KindPayload(items[k].item)
      /\ \A j, k \in DOMAIN items :
             j # k => items[j].position # items[k].position
  <2>1. \A k \in DOMAIN items : items[k].item \in Items /\ k \in Nat
                                /\ items[k].position = k - 1
    BY ListedItem
  <2> QED  BY <2>1, ItemsSatisfyTheCheck
<1>7. PgCreatePost(slug, linked, items)
        = IF \E p \in postRows : p.slug = slug THEN "conflict" ELSE "ok"
  BY <1>1, <1>6 DEF PgCreatePost
<1>8. \A k \in DOMAIN linked : ~ \A c \in memCats : c.slug # linked[k]
  <2> SUFFICES ASSUME NEW k \in DOMAIN linked
               PROVE  \E m \in memCats : m.slug = linked[k]
    OBVIOUS
  <2>1. PICK c \in A : c.slug = linked[k]
    BY <1>1
  <2>2. Category(c) \in memCats /\ Category(c).slug = c.slug
    BY CategoryIs
  <2> QED  BY <2>1, <2>2
<1>9. MemCreatePost(slug, linked)
        = IF \E p \in memPosts : p.slug = slug THEN "conflict" ELSE "ok"
  BY <1>8 DEF MemCreatePost
<1> HIDE DEF A
<1>10. /\ PgCreatePost(slug, linked, items) = MemCreatePost(slug, linked)
       /\ PgCreatePost(slug, linked, items) = "ok"
            => \A p \in postRows : p.slug # slug
  BY <1>5, <1>7, <1>9
<1> QED
  BY <1>3, <1>4, <1>10 DEF A

(* A post is inserted with its links and items, in both stores.            *)
LEMMA PostAdded ==
    ASSUME GoodCategories, GoodPosts, NEW i \in PostIds, NEW t \in Times,
           NEW p, p.id = i, p.created = t,
           \A q \in postRows : q.id # i /\ q.slug # p.slug,
           NEW A, A \subseteq catRows, TwoDeep(A), NEW items \in ItemLists,
           NEW m, m.id = i, m.slug = p.slug, m.title = p.title, m.created = t,
           m.items = items, m.categories = Joined(A),
           postRows' = postRows \cup {p}, memPosts' = memPosts \cup {m},
           linkRows' = linkRows \cup {<<i, c.id>> : c \in A},
           itemRows' = itemRows \cup
               {[post |-> i, position |-> items[k].position,
                 item |-> items[k].item] : k \in DOMAIN items},
           UNCHANGED <<catRows, memCats>>
    PROVE  GoodCategories' /\ GoodPosts'
<1> DEFINE rows == {[post |-> i, position |-> items[k].position,
                     item |-> items[k].item] : k \in DOMAIN items}
<1>1. /\ \A j : Slug(j)' = Slug(j)
      /\ \A c : Category(c)' = Category(c)
      /\ \A B : Joined(B)' = Joined(B)
  <2>1. \A j : Slug(j)' = Slug(j)
    BY SlugIs
  <2>2. \A c : Category(c)' = Category(c)
    BY <2>1 DEF Category
  <2>3. \A B : Joined(B)' = Joined(B)
    BY <2>2, JoinKept
  <2> QED  BY <2>1, <2>2, <2>3
<1>2. GoodCategories'
  BY <1>1 DEF GoodCategories
<1>3. \A l \in linkRows : l[1] # i
  BY DEF GoodPosts
<1>4. \A q \in postRows : Linked(q)' = Linked(q)
  BY DEF Linked
<1>5. Linked(p)' = A
  <2>1. \A c \in catRows : <<i, c.id>> \notin linkRows
    BY <1>3
  <2>2. \A c \in catRows : c \in A <=> <<i, c.id>> \in {<<i, a.id>> : a \in A}
    BY DEF GoodCategories
  <2> QED  BY <2>1, <2>2 DEF Linked
<1>6. \A j \in rows : j.post = i
  OBVIOUS
<1>7. \A j \in itemRows : j.post # i
  BY DEF GoodPosts
<1>8. ItemsOf(i)' = rows
  <2> HIDE DEF rows
  <2>1. itemRows' = itemRows \cup rows
    BY DEF rows
  <2> QED  BY <1>6, <1>7, <2>1 DEF ItemsOf
<1>9. \A q \in postRows : ItemsOf(q.id)' = ItemsOf(q.id)
  <2> HIDE DEF rows
  <2>1. itemRows' = itemRows \cup rows
    BY DEF rows
  <2> QED  BY <1>6, <2>1 DEF ItemsOf
<1>10. \A q \in postRows : \A n : Twin(q, n) => Twin(q, n)'
  BY <1>1, <1>4, <1>9 DEF Twin
<1>11. Twin(p, m)'
  BY <1>1, <1>5, <1>8 DEF Twin
<1> HIDE DEF rows
<1>12. IsFiniteSet(postRows')
  BY FS_AddElement DEF GoodPosts
<1>13. /\ \A q \in postRows' : q.id \in PostIds /\ q.created \in Times
       /\ \A q, s \in postRows' : q.id = s.id \/ q.slug = s.slug => q = s
  BY DEF GoodPosts
<1>14. \A l \in linkRows' :
           \E q \in postRows' : \E c \in catRows' : l = <<q.id, c.id>>
  <2>1. \A l \in linkRows :
            \E q \in postRows' : \E c \in catRows' : l = <<q.id, c.id>>
    BY DEF GoodPosts
  <2>2. \A c \in A : <<i, c.id>> = <<p.id, c.id>>
    OBVIOUS
  <2> QED  BY <2>1, <2>2
<1>15. \A j \in itemRows' : \E q \in postRows' : j.post = q.id
  <2>1. itemRows' = itemRows \cup rows
    BY DEF rows
  <2> QED  BY <1>6, <2>1 DEF GoodPosts
<1>16. \A q \in postRows' : TwoDeep(Linked(q))'
  <2>1. \A B : TwoDeep(B)' <=> TwoDeep(B)
    BY DEF TwoDeep
  <2>2. \A q \in postRows : TwoDeep(Linked(q))
    BY DEF GoodPosts
  <2>3. \A q \in postRows : TwoDeep(Linked(q))'
    BY <1>4, <2>2 DEF TwoDeep
  <2>4. TwoDeep(Linked(p))'
    BY <1>5 DEF TwoDeep
  <2> QED  BY <2>3, <2>4
<1>17. \A q \in postRows' : \E n \in memPosts' : Twin(q, n)'
  BY <1>10, <1>11 DEF GoodPosts
<1>18. \A n \in memPosts' : \E q \in postRows' : Twin(q, n)'
  BY <1>10, <1>11 DEF GoodPosts
<1>19. \A n, o \in memPosts' : n.id = o.id => n = o
  <2>1. \A n \in memPosts : n.id # i
    BY DEF GoodPosts, Twin
  <2> QED  BY <2>1 DEF GoodPosts
<1> QED
  BY <1>2, <1>12, <1>13, <1>14, <1>15, <1>16, <1>17, <1>18, <1>19 DEF GoodPosts

(* An insert changes nothing for a reader: no reader holds the new id.     *)
LEMMA ReadersKept ==
    ASSUME NEW i, NEW rows, \A j \in rows : j.post = i,
           NEW p, p.id = i, NEW q, q.op \in Reading => q.post.id # i, ReadOK(q),
           itemRows' = itemRows \cup rows, postRows' = postRows \cup {p}
    PROVE  ReadOK(q)'
<1> SUFFICES ASSUME q.op \in Reading PROVE ReadOK(q)'
  BY DEF ReadOK, Reading
<1>1. {j \in itemRows' : j.post = q.post.id} = {j \in itemRows : j.post = q.post.id}
  OBVIOUS
<1>2. FindItems(q.post)' = FindItems(q.post)
  BY <1>1 DEF FindItems
<1>3. Gone(q.post) => Gone(q.post)'
  BY DEF Gone
<1> QED
  BY <1>2, <1>3 DEF ReadOK

LEMMA InsertPostInv ==
    ASSUME StoresInv, NEW r \in StoreRequests, InsertPost(r)
    PROVE  StoresInv'
<1> DEFINE q == request[r]
           A == {c \in catRows : c.slug \in ToSet(q.linked)}
           pg == PgCreatePost(q.input.slug, q.linked, q.items)
           mem == MemCreatePost(q.input.slug, q.linked)
           row(i, t) == [id |-> i, slug |-> q.input.slug,
                         title |-> q.input.title, created |-> t]
           post(i, t) == [id |-> i, slug |-> q.input.slug,
                          title |-> q.input.title, created |-> t,
                          items |-> q.items,
                          categories |-> MemCategories(q.linked)]
           links(i) == {<<i, CatId(s)>> : s \in ToSet(q.linked)}
           rows(i) == {[post |-> i, position |-> q.items[k].position,
                         item |-> q.items[k].item]
                       : k \in DOMAIN q.items}
<1>1. PICK i \in FreshPostIds : \E t \in Times :
          /\ outcome' = [pg |-> pg, mem |-> mem]
          /\ IF pg = "ok"
             THEN /\ postRows' = postRows \cup {row(i, t)}
                  /\ linkRows' = linkRows \cup links(i)
                  /\ itemRows' = itemRows \cup rows(i)
             ELSE UNCHANGED <<postRows, linkRows, itemRows>>
          /\ IF mem = "ok" THEN memPosts' = memPosts \cup {post(i, t)}
             ELSE UNCHANGED memPosts
  BY DEF InsertPost
<1>2. PICK t \in Times :
          /\ outcome' = [pg |-> pg, mem |-> mem]
          /\ IF pg = "ok"
             THEN /\ postRows' = postRows \cup {row(i, t)}
                  /\ linkRows' = linkRows \cup links(i)
                  /\ itemRows' = itemRows \cup rows(i)
             ELSE UNCHANGED <<postRows, linkRows, itemRows>>
          /\ IF mem = "ok" THEN memPosts' = memPosts \cup {post(i, t)}
             ELSE UNCHANGED memPosts
  BY <1>1
<1>3. request' = [request EXCEPT ![r] = NoRequest] /\ UNCHANGED <<catRows, memCats>>
  BY DEF InsertPost
<1>4. q.items \in ItemLists /\ Chosen(q.linked)
  BY DEF InsertPost, StoresInv, GoodRequests, PostRequestOK
<1>5. /\ MemCategories(q.linked) = Joined(A)
      /\ {CatId(s) : s \in ToSet(q.linked)} = {c.id : c \in A}
      /\ pg = mem /\ (pg = "ok" => \A p \in postRows : p.slug # q.input.slug)
  <2> DEFINE linked == q.linked
             items == q.items
             slug == q.input.slug
  <2>1. items \in ItemLists /\ Chosen(linked) /\ GoodCategories /\ GoodPosts
    BY <1>4 DEF StoresInv
  <2> HIDE DEF linked, items, slug
  <2>2. LET B == {c \in catRows : c.slug \in ToSet(linked)}
        IN  /\ MemCategories(linked) = Joined(B)
            /\ {CatId(s) : s \in ToSet(linked)} = {c.id : c \in B}
            /\ PgCreatePost(slug, linked, items) = MemCreatePost(slug, linked)
            /\ PgCreatePost(slug, linked, items) = "ok"
                 => \A p \in postRows : p.slug # slug
    BY <2>1, PostAnswers
  <2> QED  BY <2>2, Zenon DEF linked, items, slug
<1>6. TwoDeep(A) /\ A \subseteq catRows
  BY <1>4, ChosenRows DEF StoresInv
<1>7. outcome'.pg = outcome'.mem
  BY <1>2, <1>5
<1>8. CASE pg # "ok"
  <2>1. UNCHANGED <<postRows, linkRows, itemRows, memPosts>>
    BY <1>2, <1>5, <1>8
  <2>2. GoodCategories' /\ GoodPosts' /\ GoodRequests'
    BY <1>3, <2>1, NoRequestOK, RequestMoves
  <2> QED  BY <1>7, <2>2 DEF StoresInv
<1>9. CASE pg = "ok"
  <2>1. links(i) = {<<i, c.id>> : c \in A}
    <3>1. links(i) = {<<i, x>> : x \in {CatId(s) : s \in ToSet(q.linked)}}
      OBVIOUS
    <3>2. {<<i, x>> : x \in {c.id : c \in A}} = {<<i, c.id>> : c \in A}
      OBVIOUS
    <3> HIDE DEF links, A
    <3> QED  BY <1>5, <3>1, <3>2
  <2>2. /\ row(i, t).id = i /\ row(i, t).created = t
        /\ row(i, t).slug = q.input.slug
        /\ post(i, t).id = i /\ post(i, t).slug = row(i, t).slug
        /\ post(i, t).title = row(i, t).title /\ post(i, t).created = t
        /\ post(i, t).items = q.items
        /\ post(i, t).categories = MemCategories(q.linked)
    OBVIOUS
  <2>3. i \in PostIds /\ \A p \in postRows : p.id # i
    BY DEF FreshPostIds
  <2>4. \A j \in rows(i) : j.post = i
    OBVIOUS
  <2>5. \A s \in StoreRequests : request[s].op \in Reading => request[s].post.id # i
    BY DEF FreshPostIds
  <2> DEFINE p == row(i, t)
             m == post(i, t)
  <2>6. /\ postRows' = postRows \cup {p} /\ memPosts' = memPosts \cup {m}
        /\ linkRows' = linkRows \cup {<<i, c.id>> : c \in A}
        /\ itemRows' = itemRows \cup rows(i)
    BY <1>2, <1>5, <1>9, <2>1
  <2>7. /\ p.id = i /\ p.created = t /\ m.id = i /\ m.slug = p.slug
        /\ m.title = p.title /\ m.created = t /\ m.items = q.items
        /\ m.categories = Joined(A)
    BY <1>5, <2>2
  <2>8. \A o \in postRows : o.id # i /\ o.slug # p.slug
    BY <1>5, <1>9, <2>2, <2>3
  <2> HIDE DEF p, m, A
  <2>9. GoodCategories' /\ GoodPosts'
    BY <1>3, <1>4, <1>6, <2>3, <2>6, <2>7, <2>8, PostAdded DEF StoresInv
  <2> HIDE DEF rows, links
  <2>10. \A x : (x.op \in Reading => x.post.id # i) /\ ReadOK(x) => ReadOK(x)'
    BY <2>4, <2>6, <2>7, ReadersKept
  <2>11. \A s \in StoreRequests :
             request'[s] = IF s = r THEN NoRequest ELSE request[s]
    BY <1>3 DEF StoresInv, GoodRequests
  <2>12. request' = [s \in StoreRequests |-> request'[s]]
    BY <1>3 DEF StoresInv, GoodRequests
  <2>13. \A x : CategoryRequestOK(x) => CategoryRequestOK(x)'
    BY <1>3 DEF CategoryRequestOK
  <2>14. \A x : PostRequestOK(x) => PostRequestOK(x)'
    BY <1>3 DEF PostRequestOK, Chosen
  <2>15. NoRequest.op \notin Reading
    BY DEF NoRequest, Reading
  <2>16. \A s \in StoreRequests :
             /\ request'[s].op \in Reading => request'[s].post.id # i
             /\ ReadOK(request'[s])
    BY <2>5, <2>11, <2>15, NoRequestOK DEF StoresInv, GoodRequests
  <2>17. GoodRequests'
    BY <2>10, <2>11, <2>12, <2>13, <2>14, <2>16, NoRequestOK
    DEF StoresInv, GoodRequests
  <2> QED  BY <1>7, <2>9, <2>17 DEF StoresInv
<1> QED
  BY <1>8, <1>9

(* A deleted post is gone from all tables and from the memory store.       *)
LEMMA DeletePostInv ==
    ASSUME StoresInv, NEW slug, DeletePost(slug)
    PROVE  StoresInv'
<1> DEFINE gone == {p.id : p \in {q \in postRows : q.slug = slug}}
           held == {p \in memPosts : p.slug = slug}
<1>1. /\ postRows' = {p \in postRows : p.id \notin gone}
      /\ linkRows' = {l \in linkRows : l[1] \notin gone}
      /\ itemRows' = {i \in itemRows : i.post \notin gone}
      /\ memPosts' = {m \in memPosts : m.slug # slug}
      /\ outcome' = [pg |-> IF gone = {} THEN "notfound" ELSE "ok",
                     mem |-> IF held = {} THEN "notfound" ELSE "ok"]
      /\ UNCHANGED <<catRows, memCats, request>>
  BY DEF DeletePost
<1>2. \A p \in postRows : p.id \in gone <=> p.slug = slug
  BY DEF StoresInv, GoodPosts
<1>3. outcome'.pg = outcome'.mem
  <2>1. gone = {} <=> \A p \in postRows : p.slug # slug
    OBVIOUS
  <2>2. held = {} <=> \A m \in memPosts : m.slug # slug
    OBVIOUS
  <2>3. (\A p \in postRows : p.slug # slug) <=> \A m \in memPosts : m.slug # slug
    BY DEF StoresInv, GoodPosts, Twin
  <2> HIDE DEF gone, held
  <2> QED  BY <1>1, <2>1, <2>2, <2>3
<1> HIDE DEF gone, held
<1>4. /\ \A j : Slug(j)' = Slug(j)
      /\ \A c : Category(c)' = Category(c)
      /\ \A B : Joined(B)' = Joined(B)
  <2>1. \A j : Slug(j)' = Slug(j)
    BY <1>1, SlugIs
  <2>2. \A c : Category(c)' = Category(c)
    BY <2>1 DEF Category
  <2>3. \A B : Joined(B)' = Joined(B)
    BY <2>2, JoinKept
  <2> QED  BY <2>1, <2>2, <2>3
<1>5. GoodCategories'
  BY <1>1, <1>4 DEF StoresInv, GoodCategories
<1>6. \A p \in postRows' : Linked(p)' = Linked(p) /\ ItemsOf(p.id)' = ItemsOf(p.id)
  <2> SUFFICES ASSUME NEW p, p \in postRows'
               PROVE  Linked(p)' = Linked(p) /\ ItemsOf(p.id)' = ItemsOf(p.id)
    OBVIOUS
  <2>1. p.id \notin gone
    BY <1>1
  <2>2. \A c : <<p.id, c.id>> \in linkRows' <=> <<p.id, c.id>> \in linkRows
    BY <1>1, <2>1
  <2>3. {i \in itemRows' : i.post = p.id} = {i \in itemRows : i.post = p.id}
    BY <1>1, <2>1
  <2> QED  BY <1>1, <2>2, <2>3 DEF Linked, ItemsOf
<1>7. \A p \in postRows' : \A m : Twin(p, m) => Twin(p, m)'
  BY <1>4, <1>6 DEF Twin
<1>8. GoodPosts'
  <2>1. GoodPosts /\ postRows' \subseteq postRows
    BY <1>1 DEF StoresInv
  <2>2. IsFiniteSet(postRows')
    BY <2>1, FS_Subset DEF GoodPosts
  <2>3. /\ \A p \in postRows' : p.id \in PostIds /\ p.created \in Times
        /\ \A p, q \in postRows' : p.id = q.id \/ p.slug = q.slug => p = q
    BY <2>1 DEF GoodPosts
  <2>4. ASSUME NEW l \in linkRows'
        PROVE  \E p \in postRows' : \E c \in catRows' : l = <<p.id, c.id>>
    <3>1. l \in linkRows /\ l[1] \notin gone
      BY <1>1, <2>4
    <3>2. PICK p \in postRows : \E c \in catRows : l = <<p.id, c.id>>
      BY <2>1, <3>1 DEF GoodPosts
    <3>3. p.id \notin gone
      BY <3>1, <3>2
    <3> QED  BY <1>1, <3>2, <3>3
  <2>5. ASSUME NEW i \in itemRows'
        PROVE  \E p \in postRows' : i.post = p.id
    <3>1. i \in itemRows /\ i.post \notin gone
      BY <1>1, <2>5
    <3>2. PICK p \in postRows : i.post = p.id
      BY <2>1, <3>1 DEF GoodPosts
    <3> QED  BY <1>1, <3>1, <3>2
  <2>6. \A p \in postRows' : TwoDeep(Linked(p))'
    BY <1>6, <2>1 DEF GoodPosts, TwoDeep
  <2>7. \A p \in postRows' : p.slug # slug
    BY <1>1, <1>2
  <2>8. ASSUME NEW p, p \in postRows' PROVE \E m \in memPosts' : Twin(p, m)'
    <3>1. PICK m \in memPosts : Twin(p, m)
      BY <2>1, <2>8 DEF GoodPosts
    <3>2. m.slug # slug
      BY <2>7, <2>8, <3>1 DEF Twin
    <3> QED  BY <1>1, <1>7, <2>8, <3>1, <3>2
  <2>9. ASSUME NEW m, m \in memPosts' PROVE \E p \in postRows' : Twin(p, m)'
    <3>1. m \in memPosts /\ m.slug # slug
      BY <1>1, <2>9
    <3>2. PICK p \in postRows : Twin(p, m)
      BY <2>1, <3>1 DEF GoodPosts
    <3>3. p.slug # slug
      BY <3>1, <3>2 DEF Twin
    <3>4. p \in postRows'
      BY <1>1, <1>2, <3>3
    <3> QED  BY <1>7, <3>2, <3>4
  <2>10. \A m, n \in memPosts' : m.id = n.id => m = n
    BY <1>1, <2>1 DEF GoodPosts
  <2> QED
    BY <2>2, <2>3, <2>4, <2>5, <2>6, <2>8, <2>9, <2>10 DEF GoodPosts
<1>9. ASSUME NEW q, ReadOK(q) PROVE ReadOK(q)'
  <2>1. Gone(q.post) => Gone(q.post)'
    BY <1>1 DEF Gone
  <2>2. CASE q.post.id \in gone
    <3>1. Gone(q.post)'
      BY <1>1, <2>2 DEF Gone
    <3> QED  BY <1>9, <3>1 DEF ReadOK
  <2>3. CASE q.post.id \notin gone
    <3>1. {j \in itemRows' : j.post = q.post.id}
            = {j \in itemRows : j.post = q.post.id}
      BY <1>1, <2>3
    <3>2. FindItems(q.post)' = FindItems(q.post)
      BY <3>1 DEF FindItems
    <3> QED  BY <1>9, <2>1, <3>2 DEF ReadOK
  <2> QED  BY <2>2, <2>3
<1>10. \A x : CategoryRequestOK(x) => CategoryRequestOK(x)'
  BY <1>1 DEF CategoryRequestOK
<1>11. \A x : PostRequestOK(x) => PostRequestOK(x)'
  BY <1>1 DEF PostRequestOK, Chosen
<1>12. GoodRequests'
  BY <1>1, <1>9, <1>10, <1>11 DEF StoresInv, GoodRequests
<1> QED
  BY <1>3, <1>5, <1>8, <1>12 DEF StoresInv

LEMMA StoresStepInv == StoresInv /\ [StoresNext]_storesVars => StoresInv'
<1> SUFFICES ASSUME StoresInv, [StoresNext]_storesVars PROVE StoresInv'
  OBVIOUS
<1>1. ASSUME NEW r \in StoreRequests,
             \/ StartCategory(r) \/ CheckParent(r) \/ InsertCategory(r)
             \/ StartPost(r) \/ ChooseCategory(r) \/ ChooseDerivative(r)
             \/ InsertPost(r)
             \/ StartGet(r) \/ GetItems(r) \/ EndGet(r)
      PROVE  StoresInv'
  BY <1>1, StartCategoryInv, CheckParentInv, InsertCategoryInv, StartPostInv,
     ChooseCategoryInv, ChooseDerivativeInv, InsertPostInv, StartGetInv,
     GetItemsInv, EndGetInv
<1>2. ASSUME NEW p \in PostInputs, DeletePost(p.slug) PROVE StoresInv'
  BY <1>2, DeletePostInv
<1>3. CASE UNCHANGED storesVars
  <2>1. UNCHANGED <<catRows, postRows, linkRows, itemRows, memCats, memPosts,
                    request, outcome>>
    BY <1>3 DEF storesVars
  <2>2. \A j : Slug(j)' = Slug(j)
    BY <2>1, SlugIs
  <2>3. \A c : Category(c)' = Category(c)
    BY <2>2 DEF Category
  <2>4. \A A : Joined(A)' = Joined(A)
    BY <2>3, JoinKept
  <2>5. \A p : Linked(p)' = Linked(p) /\ ItemsOf(p)' = ItemsOf(p)
    BY <2>1 DEF Linked, ItemsOf
  <2>6. GoodCategories'
    BY <2>1, <2>3 DEF StoresInv, GoodCategories
  <2>7. \A p, m : Twin(p, m)' <=> Twin(p, m)
    BY <2>4, <2>5 DEF Twin
  <2>8. \A p \in postRows : TwoDeep(Linked(p))'
    BY <2>5 DEF StoresInv, GoodPosts, TwoDeep
  <2>9. GoodPosts'
    BY <2>1, <2>7, <2>8 DEF StoresInv, GoodPosts
  <2>10. GoodRequests'
    BY <2>1 DEF StoresInv, GoodRequests, CategoryRequestOK, PostRequestOK,
                ReadOK, Chosen, Gone, FindItems
  <2> QED  BY <2>1, <2>6, <2>9, <2>10 DEF StoresInv
<1> QED
  BY <1>1, <1>2, <1>3 DEF StoresNext

LEMMA StoresInvariant == StoresSpec => []StoresInv
<1> QED
  BY StoresInitInv, StoresStepInv, PTL DEF StoresSpec

(* "It mirrors the Postgres store: same conflicts, same read shapes, same  *)
(* order" (store_memory.go:15): every write was answered the same by       *)
(* either store, and so is every list, filter and lookup.                  *)
THEOREM StoresAnswerAlike == StoresSpec => []SameAnswers
<1>1. StoresInv => SameAnswers
  BY CategoryListsAgree, PostListsAgree, FindsAgree DEF StoresInv, SameAnswers
<1> QED
  BY <1>1, StoresInvariant, PTL

(* Get answers a post with all the items its author sent, at their         *)
(* positions and however many they are, or, when it was deleted between    *)
(* the two queries of findBySlug, with none: never some of them, nor those *)
(* of another post under its slug (store_postgres.go:320).                 *)
THEOREM ReadsWholeOrDeleted == StoresSpec => []ReadsAreWholeOrDeleted
<1>1. StoresInv => ReadsAreWholeOrDeleted
  BY DEF StoresInv, GoodRequests, ReadOK, Gone, ReadsAreWholeOrDeleted
<1> QED
  BY <1>1, StoresInvariant, PTL

(* "The tree never grows past two levels" in either store, whatever        *)
(* requests interleave, and every post is read with a top-level category   *)
(* and at most one derivative, which is its own (CreateCategory,           *)
(* service.go:70; resolveCategoryChoice, service.go:197; scanPosts).       *)
THEOREM TreeIsTwoDeep == StoresSpec => []CategoriesTwoDeep
<1>1. ASSUME StoresInv PROVE CategoriesTwoDeep
  <2>1. ASSUME NEW m \in memCats, m.parent # ""
        PROVE  MemBySlug(m.parent).parent = ""
    <3>1. PICK c \in catRows : m = Category(c)
      BY <1>1 DEF StoresInv, GoodCategories
    <3>2. c.parent # 0 /\ m.parent = Top(c).slug
      BY <1>1, <2>1, <3>1, CategoryIs DEF StoresInv
    <3>3. Top(c) \in catRows /\ Top(c).parent = 0
      BY <1>1, TopIsARow DEF StoresInv
    <3>4. MemBySlug(Top(c).slug) = Category(Top(c)) /\ Category(Top(c)).parent = ""
      BY <1>1, <3>3, MemBySlugIs, CategoryIs DEF StoresInv
    <3> QED  BY <3>2, <3>4
  <2>2. ASSUME NEW c \in catRows, NEW d \in catRows, c.parent = d.id
        PROVE  d.parent = 0
    <3>1. c.parent # 0
      BY <1>1, <2>2, RowTypes DEF StoresInv
    <3>2. PICK e \in catRows : e.id = c.parent /\ e.parent = 0
      BY <1>1, <3>1 DEF StoresInv, GoodCategories
    <3>3. e = d
      BY <1>1, <2>2, <3>2 DEF StoresInv, GoodCategories
    <3> QED  BY <3>2, <3>3
  <2>3. ASSUME NEW p \in postRows
        PROVE  LET linked == PgPost(p).categories
               IN  /\ Len(linked) \in {1, 2} /\ linked[1].parent = ""
                   /\ Len(linked) = 2 => linked[2].parent = linked[1].slug
    <3>1. PgPost(p).categories = Joined(Linked(p))
      BY DEF PgPost
    <3>2. TwoDeep(Linked(p)) /\ Linked(p) \subseteq catRows
      BY <1>1 DEF StoresInv, GoodPosts, Linked
    <3> QED  BY <1>1, <3>1, <3>2, JoinsAreTwoDeep DEF StoresInv
  <2> QED  BY <2>1, <2>2, <2>3 DEF CategoriesTwoDeep
<1> QED
  BY <1>1, StoresInvariant, PTL
=============================================================================
