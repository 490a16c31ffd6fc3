------------------------- MODULE Containers_proofs --------------------------
(***************************************************************************)
(* Results about the containers among the components of Components: the    *)
(* cache, the pool, SmartContainer and the hash table, for every value of  *)
(* their parameters, each with an inductive invariant about its own        *)
(* variables.                                                              *)
(***************************************************************************)
EXTENDS Components_proofs

----------------------------------------------------------------------------
(* LRUCache: both the list and the order of use push one entry in front    *)
(* and lose at most one other, at place x; the rest keeps its order.       *)
OldPlace(y, x) == IF y <= x THEN y - 1 ELSE y
Promoted(s, t, n, x, e) == Len(t) = n /\ t[1] = e /\ \A y \in 2..n : t[y] = s[OldPlace(y, x)]

OthersKept(l, n, x) ==
  /\ \A y \in 2..n : OldPlace(y, x) \in 1..l /\ OldPlace(y, x) # x
  /\ \A y, z \in 2..n : OldPlace(y, x) = OldPlace(z, x) => y = z
  /\ \A z \in 1..l : z # x => \E y \in 2..n : OldPlace(y, x) = z
LEMMA OldPlaces ==
  ASSUME NEW l \in Nat, NEW n \in {l, l + 1}, NEW x \in 1..n, n = l + 1 => x = n
  PROVE  OthersKept(l, n, x)
  <1>1. ASSUME NEW z \in 1..l, z # x
        PROVE  \E y \in 2..n : OldPlace(y, x) = z
    <2>1. CASE z < x
      <3>1. z + 1 \in 2..n /\ z + 1 <= x /\ z + 1 - 1 = z
        BY <1>1, <2>1
      <3>2. OldPlace(z + 1, x) = z
        BY <3>1 DEF OldPlace
      <3> QED BY <3>1, <3>2
    <2>2. CASE z > x
      <3>1. z \in 2..n /\ ~(z <= x)
        BY <1>1, <2>2
      <3>2. OldPlace(z, x) = z
        BY <3>1 DEF OldPlace
      <3> QED BY <3>1, <3>2
    <2> QED BY <1>1, <2>1, <2>2
  <1>2. \A y \in 2..n : OldPlace(y, x) \in 1..l /\ OldPlace(y, x) # x
    BY DEF OldPlace
  <1>3. \A y, z \in 2..n : OldPlace(y, x) = OldPlace(z, x) => y = z
    BY DEF OldPlace
  <1> QED BY <1>1, <1>2, <1>3 DEF OthersKept

LEMMA InFront ==
  ASSUME NEW S, NEW s \in Seq(S), NEW e \in S, NEW t, t = <<e>> \o s
  PROVE  t \in Seq(S) /\ Promoted(s, t, Len(s) + 1, Len(s) + 1, e)
  <1>1. PICK l : l = Len(s)
    OBVIOUS
  <1>2. l \in Nat /\ <<e>> \in Seq(S) /\ Len(<<e>>) = 1 /\ <<e>>[1] = e
    BY <1>1, LenProperties
  <1>3. /\ t \in Seq(S) /\ Len(t) = 1 + l
        /\ \A y \in 1..1 + l : t[y] = IF y <= 1 THEN <<e>>[y] ELSE s[y - 1]
    BY <1>1, <1>2, ConcatProperties
  <1>4. t[1] = e
    BY <1>2, <1>3
  <1>5. \A y \in 2..l + 1 : t[y] = s[y - 1] /\ OldPlace(y, l + 1) = y - 1
    BY <1>2, <1>3 DEF OldPlace
  <1>6. Len(t) = l + 1
    BY <1>2, <1>3
  <1> QED BY <1>1, <1>3, <1>4, <1>5, <1>6 DEF Promoted

LEMMA Joined ==
  ASSUME NEW S, NEW f \in Seq(S), NEW g \in Seq(S)
  PROVE  /\ f \o g \in Seq(S) /\ Len(f \o g) = Len(f) + Len(g)
         /\ \A y \in 1..Len(f) : (f \o g)[y] = f[y]
         /\ \A y \in 1..Len(g) : (f \o g)[Len(f) + y] = g[y]
  <1>1. PICK a, b, r : a = Len(f) /\ b = Len(g) /\ r = f \o g
    OBVIOUS
  <1>2. a \in Nat /\ b \in Nat
    BY <1>1, LenProperties
  <1>3. r \in Seq(S) /\ Len(r) = a + b /\ \A y \in 1..a + b : r[y] = IF y <= a THEN f[y] ELSE g[y - a]
    BY <1>1, ConcatProperties
  <1>4. \A y \in 1..a : y \in 1..a + b /\ y <= a
    BY <1>2
  <1>6. ASSUME NEW y \in 1..b
        PROVE  r[a + y] = g[y]
    <2>1. PICK z : z = a + y
      OBVIOUS
    <2>2. z \in 1..a + b /\ ~(z <= a) /\ z - a = y
      BY <1>2, <1>6, <2>1
    <2>3. r[z] = g[z - a]
      BY <1>3, <2>2
    <2> QED BY <2>1, <2>2, <2>3
  <1> QED BY <1>1, <1>3, <1>4, <1>6

LEMMA TakenOut ==
  ASSUME NEW S, NEW s \in Seq(S), NEW x \in 1..Len(s), NEW r, r = Cache!RemoveAt(s, x)
  PROVE  r \in Seq(S) /\ Len(r) = Len(s) - 1
         /\ \A y \in 1..Len(s) - 1 : r[y] = IF y < x THEN s[y] ELSE s[y + 1]
  <1>1. PICK l, u, v, w : l = Len(s) /\ u = x - 1 /\ v = x + 1 /\ w = l - x
    OBVIOUS
  <1>2. l \in Nat /\ x \in 1..l /\ u \in Nat /\ v \in Nat /\ w \in Nat /\ \A y \in 1..l : s[y] \in S
    BY <1>1, LenProperties, ElementOfSeq
  <1>3. PICK f, g : f = SubSeq(s, 1, u) /\ g = SubSeq(s, v, l)
    OBVIOUS
  <1>4. f \in Seq(S) /\ Len(f) = u /\ \A y \in 1..u : f[y] = s[y]
    <2>1. u \in Int /\ 1 \in Int /\ \A y \in 1..u : s[y] \in S
      BY <1>1, <1>2
    <2>2. /\ f \in Seq(S) /\ Len(f) = IF 1 <= u THEN u - 1 + 1 ELSE 0
          /\ \A y \in 1..u - 1 + 1 : f[y] = s[1 + y - 1]
      BY <1>3, <2>1, SubSeqProperties
    <2>3. \A y \in 1..u : y \in 1..u - 1 + 1 /\ 1 + y - 1 = y
      BY <1>2
    <2> QED BY <1>2, <2>2, <2>3
  <1>5. g \in Seq(S) /\ Len(g) = w /\ \A y \in 1..w : g[y] = s[x + y]
    <2>1. v \in Int /\ l \in Int /\ \A y \in v..l : s[y] \in S
      BY <1>1, <1>2
    <2>2. /\ g \in Seq(S) /\ Len(g) = IF v <= l THEN l - v + 1 ELSE 0
          /\ \A y \in 1..l - v + 1 : g[y] = s[v + y - 1]
      BY <1>3, <2>1, SubSeqProperties
    <2>3. \A y \in 1..w : y \in 1..l - v + 1 /\ v + y - 1 = x + y
      BY <1>1, <1>2
    <2>4. \A y \in 1..w : g[y] = s[v + y - 1]
      BY <2>2, <2>3
    <2>5. Len(g) = w
      BY <1>1, <1>2, <2>2
    <2> QED BY <2>2, <2>3, <2>4, <2>5
  <1>6. /\ r \in Seq(S) /\ Len(r) = Len(f) + Len(g)
        /\ \A y \in 1..Len(f) : r[y] = f[y]
        /\ \A y \in 1..Len(g) : r[Len(f) + y] = g[y]
    <2>1. r = f \o g
      BY <1>1, <1>3 DEF Cache!RemoveAt
    <2>2. f \in Seq(S) /\ g \in Seq(S)
      BY <1>4, <1>5
    <2> QED BY <2>1, <2>2, Joined
  <1>7. /\ \A y \in 1..u : r[y] = f[y]
        /\ \A y \in 1..w : r[u + y] = g[y]
    BY <1>4, <1>5, <1>6
  <1>8. ASSUME NEW y \in 1..l - 1
        PROVE  r[y] = IF y < x THEN s[y] ELSE s[y + 1]
    <2>1. CASE y < x
      <3>1. y \in 1..u
        BY <1>1, <1>2, <1>8, <2>1
      <3> QED BY <1>4, <1>7, <2>1, <3>1
    <2>2. CASE ~(y < x)
      <3>1. y - u \in 1..w /\ u + (y - u) = y /\ x + (y - u) = y + 1
        BY <1>1, <1>2, <1>8, <2>2
      <3>2. r[u + (y - u)] = g[y - u] /\ g[y - u] = s[x + (y - u)]
        BY <1>5, <1>7, <3>1
      <3> QED BY <2>2, <3>1, <3>2
    <2> QED BY <2>1, <2>2
  <1>9. Len(r) = l - 1
    <2>1. u + w = l - 1
      BY <1>1, <1>2
    <2> QED BY <1>4, <1>5, <1>6, <2>1
  <1> QED BY <1>1, <1>6, <1>8, <1>9

LEMMA MovesToFront ==
  ASSUME NEW S, NEW s \in Seq(S), NEW x \in 1..Len(s), NEW e \in S, NEW t,
         t = <<e>> \o Cache!RemoveAt(s, x)
  PROVE  t \in Seq(S) /\ Promoted(s, t, Len(s), x, e)
  <1>1. PICK l, r : l = Len(s) /\ r = Cache!RemoveAt(s, x)
    OBVIOUS
  <1>2. /\ l \in Nat /\ r \in Seq(S) /\ Len(r) = l - 1
        /\ \A y \in 1..l - 1 : r[y] = IF y < x THEN s[y] ELSE s[y + 1]
    <2>1. l \in Nat
      BY <1>1, LenProperties
    <2> QED BY <1>1, <2>1, TakenOut
  <1>3. t \in Seq(S) /\ Promoted(r, t, l - 1 + 1, l - 1 + 1, e)
    BY <1>1, <1>2, InFront
  <1>4. Len(t) = l /\ t[1] = e /\ \A y \in 2..l : t[y] = r[y - 1]
    <2>1. l - 1 + 1 = l /\ \A y \in 2..l : OldPlace(y, l) = y - 1
      BY <1>2 DEF OldPlace
    <2> QED BY <1>3, <2>1 DEF Promoted
  <1>5. \A y \in 2..l : t[y] = s[OldPlace(y, x)]
    <2>1. SUFFICES ASSUME NEW y \in 2..l PROVE t[y] = s[OldPlace(y, x)]
      OBVIOUS
    <2>2. y - 1 \in 1..l - 1 /\ y - 1 + 1 = y /\ (y - 1 < x <=> y <= x)
      BY <1>1, <1>2, <2>1
    <2>3. r[y - 1] = IF y <= x THEN s[y - 1] ELSE s[y]
      BY <1>2, <2>2
    <2> QED BY <1>4, <2>1, <2>3 DEF OldPlace
  <1> QED BY <1>1, <1>3, <1>4, <1>5 DEF Promoted

LEMMA AllButLast ==
  ASSUME NEW S, NEW s \in Seq(S), s # <<>>, NEW r, r = Cache!Front(s)
  PROVE  /\ r \in Seq(S) /\ Len(r) = Len(s) - 1
         /\ \A y \in 1..Len(s) - 1 : r[y] = s[y]
  <1>1. PICK l, u : l = Len(s) /\ u = l - 1
    OBVIOUS
  <1>2. l \in Nat \ {0} /\ u \in Nat /\ \A y \in 1..l : s[y] \in S
    BY <1>1, LenProperties, ElementOfSeq, EmptySeq
  <1>3. u \in Int /\ 1 \in Int /\ \A y \in 1..u : s[y] \in S
    BY <1>1, <1>2
  <1>4. r = SubSeq(s, 1, u)
    BY <1>1 DEF Cache!Front
  <1>5. /\ r \in Seq(S) /\ Len(r) = IF 1 <= u THEN u - 1 + 1 ELSE 0
        /\ \A y \in 1..u - 1 + 1 : r[y] = s[1 + y - 1]
    BY <1>3, <1>4, SubSeqProperties
  <1>6. \A y \in 1..u : y \in 1..u - 1 + 1 /\ 1 + y - 1 = y
    BY <1>2
  <1> QED BY <1>1, <1>2, <1>5, <1>6

(* As many places as there are entries cannot all be taken by fewer.       *)
LEMMA PlaceLeft ==
  ASSUME NEW c \in Nat, NEW n \in Nat, n < c, NEW f \in [1..n -> 1..c]
  PROVE  \E z \in 1..c : \A y \in 1..n : f[y] # z
  <1> SUFFICES ASSUME \A z \in 1..c : \E y \in 1..n : f[y] = z PROVE FALSE
    OBVIOUS
  <1> DEFINE w(z) == CHOOSE y \in 1..n : f[y] = z
             g == [z \in 1..c |-> w(z)]
             T == {w(z) : z \in 1..c}
  <1>1. \A z \in 1..c : w(z) \in 1..n /\ f[w(z)] = z
    OBVIOUS
  <1>2. g \in [1..c -> T] /\ \A y \in T : \E z \in 1..c : g[z] = y
    OBVIOUS
  <1>3. \A y, z \in 1..c : g[y] = g[z] => y = z
    BY <1>1
  <1>4. T \subseteq 1..n
    BY <1>1
  <1> HIDE DEF g, T, w
  <1>5. g \in Surjection(1..c, T) /\ g \in Injection(1..c, T)
    BY <1>2, <1>3 DEF Surjection, Injection, IsInjective
  <1>6. \A z \in Nat : IsFiniteSet(1..z) /\ Cardinality(1..z) = z
    <2>1. SUFFICES ASSUME NEW z \in Nat PROVE IsFiniteSet(1..z) /\ Cardinality(1..z) = z
      OBVIOUS
    <2>2. z \in Int /\ 1 \in Int
      OBVIOUS
    <2>3. IsFiniteSet(1..z) /\ Cardinality(1..z) = IF 1 > z THEN 0 ELSE z - 1 + 1
      BY <2>2, FS_Interval
    <2> QED BY <2>3
  <1>7. IsFiniteSet(1..c) /\ Cardinality(1..c) = c /\ IsFiniteSet(1..n) /\ Cardinality(1..n) = n
    BY <1>6
  <1>8. Cardinality(T) = c
    BY <1>5, <1>7, FS_Surjection
  <1>9. Cardinality(T) <= n
    <2>1. T \in SUBSET (1..n)
      BY <1>4
    <2>2. Cardinality(T) <= Cardinality(1..n)
      BY <1>7, <2>1, FS_Subset
    <2> QED BY <1>7, <2>2
  <1> QED BY <1>8, <1>9

(* Every node of the list has the key and value of the entry at its place  *)
(* in the order of use, and the map leads to it.                           *)
CacheNodes == [node : 1..cap_, key : Keys, value : Vals]
Uses == [key : Keys, value : Vals]
SameEntries(l, r) ==
  /\ Len(l) <= cap_ /\ Len(l) <= Len(r) /\ (Len(l) < cap_ => Len(r) = Len(l))
  /\ \A y \in 1..Len(l) : l[y].key = r[y].key /\ l[y].value = r[y].value
OwnKeys(r) == \A y, z \in 1..Len(r) : r[y].key = r[z].key => y = z
OwnNodes(l) == \A y, z \in 1..Len(l) : l[y].node = l[z].node => y = z
Leads(m, l) ==
  /\ DOMAIN m = {l[y].key : y \in 1..Len(l)}
  /\ \A y \in 1..Len(l) : m[l[y].key] = l[y].node
CacheInv ==
  /\ list_ \in Seq(CacheNodes) /\ recent \in Seq(Uses)
  /\ SameEntries(list_, recent) /\ OwnKeys(recent) /\ OwnNodes(list_) /\ Leads(map_, list_)

LEMMA CacheInit == Init => CacheInv
  <1> SUFFICES ASSUME Init PROVE CacheInv
    OBVIOUS
  <1>1. list_ = <<>> /\ recent = <<>> /\ map_ = [x \in {} |-> 0]
    BY DEF Init, Cache!Init
  <1>2. Len(list_) = 0 /\ Len(recent) = 0 /\ list_ \in Seq(CacheNodes) /\ recent \in Seq(Uses)
    BY <1>1
  <1>3. Leads(map_, list_)
    BY <1>1, <1>2 DEF Leads
  <1> QED BY <1>2, <1>3, SizesAssumption DEF CacheInv, SameEntries, OwnKeys, OwnNodes

(* An entry is pushed in front of the list, and one with the same key in   *)
(* front of the order of use.                                              *)
Lost(s, n, x) == Len(s) \in Nat /\ n \in {Len(s), Len(s) + 1} /\ x \in 1..n /\ (n = Len(s) + 1 => x = n)
InStep(n, x, m, z) == n <= cap_ /\ (n < cap_ => m = n) /\ n <= m /\ (n = x \/ x = z) /\ x <= z
OnlyKey(r, f, z) == \A y \in 1..Len(r) : r[y].key = f.key => y = z
OnlyNode(l, e, x) == \A y \in 1..Len(l) : l[y].node = e.node => y = x
LEMMA EntriesMove ==
  ASSUME NEW l, NEW r, SameEntries(l, r), OwnKeys(r), OwnNodes(l),
         NEW n, NEW x, Lost(l, n, x), NEW m, NEW z, Lost(r, m, z), InStep(n, x, m, z),
         NEW ll, NEW rr, NEW e, NEW f, Promoted(l, ll, n, x, e), Promoted(r, rr, m, z, f),
         e.key = f.key, e.value = f.value, OnlyKey(r, f, z), OnlyNode(l, e, x)
  PROVE  SameEntries(ll, rr) /\ OwnKeys(rr) /\ OwnNodes(ll)
  <1>1. PICK a, b : a = Len(l) /\ b = Len(r)
    OBVIOUS
  <1>2. /\ a \in Nat /\ b \in Nat /\ n \in {a, a + 1} /\ m \in {b, b + 1} /\ n \in Nat /\ m \in Nat
        /\ n = a + 1 => x = n
        /\ m = b + 1 => z = m
        /\ n <= cap_ /\ (n < cap_ => m = n) /\ n <= m /\ (n = x \/ x = z) /\ x <= z
        /\ x \in 1..n /\ z \in 1..m
    BY <1>1 DEF Lost, InStep
  <1>3. /\ \A y \in 2..n : OldPlace(y, x) \in 1..a /\ OldPlace(y, x) # x
        /\ \A y, v \in 2..n : OldPlace(y, x) = OldPlace(v, x) => y = v
    <2>1. OthersKept(a, n, x)
      BY <1>2, OldPlaces
    <2> QED BY <2>1 DEF OthersKept
  <1>4. /\ \A y \in 2..m : OldPlace(y, z) \in 1..b /\ OldPlace(y, z) # z
        /\ \A y, v \in 2..m : OldPlace(y, z) = OldPlace(v, z) => y = v
    <2>1. OthersKept(b, m, z)
      BY <1>2, OldPlaces
    <2> QED BY <2>1 DEF OthersKept
  <1>5. /\ Len(ll) = n /\ ll[1] = e /\ \A y \in 2..n : ll[y] = l[OldPlace(y, x)]
    BY DEF Promoted
  <1>6. /\ Len(rr) = m /\ rr[1] = f /\ \A y \in 2..m : rr[y] = r[OldPlace(y, z)]
    BY DEF Promoted
  <1>7. SameEntries(ll, rr)
    <2>1. ASSUME NEW y \in 1..n
          PROVE  ll[y].key = rr[y].key /\ ll[y].value = rr[y].value
      <3>1. CASE y = 1
        BY <1>5, <1>6, <3>1
      <3>2. CASE y # 1
        <4>1. y \in 2..n /\ y \in 2..m
          BY <1>2, <2>1, <3>2
        <4>2. OldPlace(y, x) = OldPlace(y, z)
          BY <1>2, <4>1 DEF OldPlace
        <4>3. ll[y] = l[OldPlace(y, x)] /\ rr[y] = r[OldPlace(y, x)] /\ OldPlace(y, x) \in 1..a
          BY <1>3, <1>5, <1>6, <4>1, <4>2
        <4> QED BY <1>1, <4>3 DEF SameEntries
      <3> QED BY <3>1, <3>2
    <2> QED BY <1>2, <1>5, <1>6, <2>1 DEF SameEntries
  <1>8. OwnKeys(rr)
    <2>1. ASSUME NEW y \in 2..m PROVE rr[y].key # f.key
      BY <1>1, <1>4, <1>6, <2>1 DEF OnlyKey
    <2>2. ASSUME NEW y \in 2..m, NEW v \in 2..m, rr[y].key = rr[v].key PROVE y = v
      <3>1. OldPlace(y, z) = OldPlace(v, z)
        BY <1>1, <1>4, <1>6, <2>2 DEF OwnKeys
      <3> QED BY <1>4, <2>2, <3>1
    <2>3. \A y \in 1..m : y = 1 \/ y \in 2..m
      BY <1>2
    <2> QED BY <1>6, <2>1, <2>2, <2>3 DEF OwnKeys
  <1>9. OwnNodes(ll)
    <2>1. ASSUME NEW y \in 2..n PROVE ll[y].node # e.node
      BY <1>1, <1>3, <1>5, <2>1 DEF OnlyNode
    <2>2. ASSUME NEW y \in 2..n, NEW v \in 2..n, ll[y].node = ll[v].node PROVE y = v
      <3>1. OldPlace(y, x) = OldPlace(v, x)
        BY <1>1, <1>3, <1>5, <2>2 DEF OwnNodes
      <3> QED BY <1>3, <2>2, <3>1
    <2>3. \A y \in 1..n : y = 1 \/ y \in 2..n
      BY <1>2
    <2> QED BY <1>5, <2>1, <2>2, <2>3 DEF OwnNodes
  <1> QED BY <1>7, <1>8, <1>9

(* The map leads to the new first node and to the ones that stay.          *)
LeadsBut(m, l, x, e) ==
  /\ DOMAIN m = {l[y].key : y \in 1..Len(l) \ {x}} \cup {e.key} /\ m[e.key] = e.node
  /\ \A y \in 1..Len(l) \ {x} : m[l[y].key] = l[y].node
LEMMA MapFollows ==
  ASSUME NEW l, NEW n, NEW x, Lost(l, n, x), NEW ll, NEW e, Promoted(l, ll, n, x, e),
         NEW m, LeadsBut(m, l, x, e)
  PROVE  Leads(m, ll)
  <1>1. PICK a : a = Len(l)
    OBVIOUS
  <1>2. a \in Nat /\ n \in {a, a + 1} /\ n \in Nat /\ x \in 1..n /\ (n = a + 1 => x = n)
    BY <1>1 DEF Lost
  <1>3. /\ \A y \in 2..n : OldPlace(y, x) \in 1..a /\ OldPlace(y, x) # x
        /\ \A z \in 1..a : z # x => \E y \in 2..n : OldPlace(y, x) = z
    <2>1. OthersKept(a, n, x)
      BY <1>2, OldPlaces
    <2> QED BY <2>1 DEF OthersKept
  <1>4. /\ Len(ll) = n /\ ll[1] = e /\ \A y \in 2..n : ll[y] = l[OldPlace(y, x)]
    BY DEF Promoted
  <1>5. 1 \in 1..n /\ \A y \in 2..n : y \in 1..n
    BY <1>2
  <1>6. \A y \in 1..n : y = 1 \/ y \in 2..n
    BY <1>2
  <1>7. DOMAIN m \subseteq {ll[y].key : y \in 1..n}
    <2>0. /\ DOMAIN m = {l[y].key : y \in 1..a \ {x}} \cup {e.key}
          /\ e.key \in {ll[y].key : y \in 1..n}
      BY <1>1, <1>4, <1>5 DEF LeadsBut
    <2>1. SUFFICES ASSUME NEW z \in 1..a, z # x PROVE \E y \in 1..n : ll[y].key = l[z].key
      BY <2>0
    <2>2. PICK y \in 2..n : OldPlace(y, x) = z
      BY <1>3, <2>1
    <2> QED BY <1>4, <1>5, <2>2
  <1>8. {ll[y].key : y \in 1..n} \subseteq DOMAIN m
    <2>1. SUFFICES ASSUME NEW y \in 2..n PROVE ll[y].key \in DOMAIN m
      BY <1>4, <1>6 DEF LeadsBut
    <2> QED BY <1>1, <1>3, <1>4, <2>1 DEF LeadsBut
  <1>9. \A y \in 1..n : m[ll[y].key] = ll[y].node
    <2>1. SUFFICES ASSUME NEW y \in 2..n PROVE m[ll[y].key] = ll[y].node
      BY <1>4, <1>6 DEF LeadsBut
    <2>2. PICK z : z = OldPlace(y, x)
      OBVIOUS
    <2>3. z \in 1..Len(l) \ {x} /\ ll[y] = l[z]
      BY <1>1, <1>3, <1>4, <2>1, <2>2
    <2>4. m[l[z].key] = l[z].node
      BY <2>3 DEF LeadsBut
    <2> QED BY <2>3, <2>4
  <1> QED BY <1>4, <1>7, <1>8, <1>9 DEF Leads

(* What becomes of the order of use, and where the key was in it.          *)
UsedFrom(key, v, m, z) ==
  /\ recent' \in Seq(Uses) /\ Promoted(recent, recent', m, z, [key |-> key, value |-> v])
  /\ \A y \in 1..Len(recent) : recent[y].key = key => m = Len(recent) /\ y = z
  /\ m = Len(recent) => recent[z].key = key
LEMMA UseIsPromotion ==
  ASSUME CacheInv, NEW key \in Keys, NEW v \in Vals, Cache!Used(key, v)
  PROVE  \E m \in {Len(recent), Len(recent) + 1} : \E z \in 1..m :
           (m = Len(recent) + 1 => z = m) /\ UsedFrom(key, v, m, z)
  <1>1. PICK f, l : f = [key |-> key, value |-> v] /\ l = Len(recent)
    OBVIOUS
  <1>2. recent \in Seq(Uses) /\ f \in Uses /\ DOMAIN recent = 1..l /\ l \in Nat /\ OwnKeys(recent)
    BY <1>1, LenProperties DEF CacheInv, Uses
  <1>3. CASE \E y \in 1..l : recent[y].key = key
    <2>1. PICK z : z = CHOOSE y \in DOMAIN recent : recent[y].key = key
      OBVIOUS
    <2>2. z \in 1..l /\ recent[z].key = key /\ \A y \in 1..l : recent[y].key = key => y = z
      BY <1>1, <1>2, <1>3, <2>1 DEF OwnKeys
    <2>3. recent' = <<f>> \o Cache!RemoveAt(recent, z)
      BY <1>1, <1>2, <1>3, <2>1 DEF Cache!Used, Cache!Without
    <2>4. recent' \in Seq(Uses) /\ Promoted(recent, recent', l, z, f)
      <3>1. z \in 1..Len(recent) /\ recent \in Seq(Uses) /\ f \in Uses /\ l = Len(recent)
        BY <1>1, <1>2, <2>2
      <3> QED BY <2>3, <3>1, MovesToFront
    <2>5. UsedFrom(key, v, l, z)
      BY <1>1, <2>2, <2>4 DEF UsedFrom
    <2>6. l # l + 1
      BY <1>2
    <2> QED BY <1>1, <2>2, <2>5, <2>6
  <1>4. CASE ~\E y \in 1..l : recent[y].key = key
    <2>1. recent' = <<f>> \o recent
      BY <1>1, <1>2, <1>4 DEF Cache!Used, Cache!Without
    <2>2. recent' \in Seq(Uses) /\ Promoted(recent, recent', l + 1, l + 1, f)
      <3>1. recent \in Seq(Uses) /\ f \in Uses /\ l = Len(recent)
        BY <1>1, <1>2
      <3> QED BY <2>1, <3>1, InFront
    <2>3. l # l + 1 /\ l + 1 \in 1..l + 1
      BY <1>2
    <2>4. UsedFrom(key, v, l + 1, l + 1)
      BY <1>1, <1>4, <2>2, <2>3 DEF UsedFrom
    <2> QED BY <1>1, <2>3, <2>4
  <1> QED BY <1>3, <1>4

(* get, and put of a key that is there: u is the list with the new value.  *)
LEMMA HitMoves ==
  ASSUME CacheInv, NEW p \in 1..Len(list_), NEW v \in Vals, NEW e \in CacheNodes,
         e.node = list_[p].node, e.key = list_[p].key, e.value = v,
         NEW u \in Seq(CacheNodes), Len(u) = Len(list_), \A y \in 1..Len(list_) : y # p => u[y] = list_[y],
         list_' = <<e>> \o Cache!RemoveAt(u, p), Cache!Used(e.key, v), map_' = map_
  PROVE  CacheInv'
  <1>1. PICK l, r, key : l = Len(list_) /\ r = Len(recent) /\ key = e.key
    OBVIOUS
  <1>2. l \in Nat /\ r \in Nat /\ l <= r /\ l <= cap_ /\ cap_ \in Nat /\ key \in Keys
        /\ (l < cap_ => r = l)
    BY <1>1, LenProperties, SizesAssumption DEF CacheInv, SameEntries, CacheNodes
  <1>3. list_' \in Seq(CacheNodes) /\ Promoted(u, list_', l, p, e)
    BY <1>1, MovesToFront
  <1>4. OthersKept(l, l, p)
    <2>1. p \in 1..l /\ l # l + 1
      BY <1>1, <1>2
    <2> QED BY <1>2, <2>1, OldPlaces
  <1>5. Promoted(list_, list_', l, p, e)
    BY <1>1, <1>3, <1>4 DEF Promoted, OthersKept
  <1>6. PICK m \in {r, r + 1} : \E z \in 1..m : (m = r + 1 => z = m) /\ UsedFrom(key, v, m, z)
    BY <1>1, <1>2, UseIsPromotion
  <1>7. PICK z \in 1..m : (m = r + 1 => z = m) /\ UsedFrom(key, v, m, z)
    BY <1>6
  <1>8. recent[p].key = key /\ p \in 1..r
    <2>1. list_[p].key = recent[p].key
      BY DEF CacheInv, SameEntries
    <2>2. p \in 1..l
      BY <1>1
    <2> QED BY <1>1, <1>2, <2>1, <2>2
  <1>9. m = r /\ z = p
    BY <1>1, <1>7, <1>8 DEF UsedFrom
  <1>10. PICK f : f = [key |-> key, value |-> v]
    OBVIOUS
  <1>11. Promoted(recent, recent', r, p, f) /\ recent' \in Seq(Uses) /\ OnlyKey(recent, f, p)
    BY <1>1, <1>7, <1>9, <1>10 DEF UsedFrom, OnlyKey
  <1>12. e.key = f.key /\ e.value = f.value /\ OnlyNode(list_, e, p)
    BY <1>1, <1>10 DEF CacheInv, OwnNodes, OnlyNode
  <1>13. Lost(list_, l, p) /\ Lost(recent, r, p) /\ InStep(l, p, r, p)
    <2>1. p \in 1..l /\ p <= p /\ l # l + 1 /\ r # r + 1
      BY <1>1, <1>2
    <2> QED BY <1>1, <1>2, <1>8, <2>1 DEF Lost, InStep
  <1>14. SameEntries(list_', recent') /\ OwnKeys(recent') /\ OwnNodes(list_')
    <2>1. SameEntries(list_, recent) /\ OwnKeys(recent) /\ OwnNodes(list_)
      BY DEF CacheInv
    <2> QED BY <1>5, <1>11, <1>12, <1>13, <2>1, EntriesMove
  <1>15. Leads(map_', list_')
    <2>1. DOMAIN map_ = {list_[y].key : y \in 1..l} /\ \A y \in 1..l : map_[list_[y].key] = list_[y].node
      BY <1>1 DEF CacheInv, Leads
    <2>2. {list_[y].key : y \in 1..l} = {list_[y].key : y \in 1..l \ {p}} \cup {e.key}
      BY <1>1
    <2>3. LeadsBut(map_', list_, p, e)
      BY <1>1, <2>1, <2>2 DEF LeadsBut
    <2> QED BY <1>5, <1>13, <2>3, MapFollows
  <1> QED BY <1>3, <1>11, <1>14, <1>15 DEF CacheInv

LEMMA NodeOfKey ==
  ASSUME CacheInv, NEW key, key \in DOMAIN map_, NEW p, p = Cache!Position(map_[key])
  PROVE  p \in 1..Len(list_) /\ list_[p].key = key /\ list_[p] \in CacheNodes
  <1>1. DOMAIN list_ = 1..Len(list_)
    BY LenProperties DEF CacheInv
  <1>2. PICK y \in 1..Len(list_) : list_[y].key = key
    BY DEF CacheInv, Leads
  <1>3. map_[key] = list_[y].node
    BY <1>2 DEF CacheInv, Leads
  <1>4. p \in DOMAIN list_ /\ list_[p].node = list_[y].node
    BY <1>1, <1>2, <1>3 DEF Cache!Position
  <1>5. p = y
    BY <1>1, <1>2, <1>4 DEF CacheInv, OwnNodes
  <1>6. list_[p] \in CacheNodes
    BY <1>2, <1>5, ElementOfSeq DEF CacheInv
  <1> QED BY <1>2, <1>5, <1>6

LEMMA GetHits ==
  ASSUME CacheInv, NEW key \in Keys, Cache!get(key)
  PROVE  CacheInv'
  <1>1. PICK p, e : p = Cache!Position(map_[key]) /\ e = list_[p]
    OBVIOUS
  <1>2. key \in DOMAIN map_ /\ map_' = map_
    BY DEF Cache!get
  <1>3. p \in 1..Len(list_) /\ e.key = key /\ e \in CacheNodes
    BY <1>1, <1>2, NodeOfKey
  <1>4. list_' = <<e>> \o Cache!RemoveAt(list_, p) /\ Cache!Used(e.key, e.value)
    BY <1>1, <1>3 DEF Cache!get, Cache!ToFront
  <1>5. e.value \in Vals /\ list_ \in Seq(CacheNodes)
    BY <1>3 DEF CacheInv, CacheNodes
  <1> QED BY <1>1, <1>2, <1>3, <1>4, <1>5, HitMoves

LEMMA PutHits ==
  ASSUME CacheInv, NEW key \in Keys, NEW v \in Vals, Cache!put(key, v), key \in DOMAIN map_
  PROVE  CacheInv'
  <1>1. PICK p, u : p = Cache!Position(map_[key]) /\ u = [list_ EXCEPT ![p].value = v]
    OBVIOUS
  <1>2. /\ map_' = map_ /\ Cache!Used(key, v) /\ list_' = <<u[p]>> \o Cache!RemoveAt(u, p)
    BY <1>1 DEF Cache!put, Cache!ToFront
  <1>3. p \in 1..Len(list_) /\ list_[p].key = key /\ list_[p] \in CacheNodes
    BY <1>1, NodeOfKey
  <1>4. PICK e : e = [list_[p] EXCEPT !.value = v]
    OBVIOUS
  <1>5. e \in CacheNodes /\ e.node = list_[p].node /\ e.key = key /\ e.value = v
    BY <1>3, <1>4 DEF CacheNodes
  <1>6. list_ \in Seq(CacheNodes) /\ u = [list_ EXCEPT ![p] = e]
    BY <1>1, <1>3, <1>4 DEF CacheInv
  <1>7. /\ u \in Seq(CacheNodes) /\ Len(u) = Len(list_)
        /\ \A y \in 1..Len(list_) : u[y] = IF y = p THEN e ELSE list_[y]
    BY <1>3, <1>5, <1>6, ExceptSeq
  <1>8. u[p] = e
    BY <1>3, <1>7
  <1>9. list_' = <<e>> \o Cache!RemoveAt(u, p) /\ Cache!Used(e.key, v)
    BY <1>2, <1>5, <1>8
  <1> QED BY <1>2, <1>3, <1>5, <1>7, <1>9, HitMoves

(* put of a key that is not there: in a full cache the last node is used   *)
(* again and its key leaves the map, otherwise there is a node left.       *)
LEMMA MissMoves ==
  ASSUME CacheInv, NEW key \in Keys, NEW v \in Vals, Cache!Used(key, v), key \notin DOMAIN map_,
         NEW n, NEW x, NEW e \in CacheNodes, e.key = key, e.value = v,
         Lost(list_, n, x), n = x, n <= cap_, n < cap_ => n = Len(list_) + 1, OnlyNode(list_, e, x),
         list_' \in Seq(CacheNodes), Promoted(list_, list_', n, x, e), LeadsBut(map_', list_, x, e)
  PROVE  CacheInv'
  <1>1. PICK l, r, f : l = Len(list_) /\ r = Len(recent) /\ f = [key |-> key, value |-> v]
    OBVIOUS
  <1>2. /\ l \in Nat /\ r \in Nat /\ l <= r /\ l <= cap_ /\ cap_ \in Nat /\ (l < cap_ => r = l)
        /\ \A y \in 1..l : list_[y].key = recent[y].key
    BY <1>1, LenProperties, SizesAssumption DEF CacheInv, SameEntries
  <1>3. n \in {l, l + 1} /\ x \in 1..n
    BY <1>1 DEF Lost
  <1>4. PICK m \in {r, r + 1} : \E z \in 1..m : (m = r + 1 => z = m) /\ UsedFrom(key, v, m, z)
    BY <1>1, <1>2, UseIsPromotion
  <1>5. PICK z \in 1..m : (m = r + 1 => z = m) /\ UsedFrom(key, v, m, z)
    BY <1>4
  <1>6. z \notin 1..l
    <2>1. SUFFICES ASSUME z \in 1..l PROVE FALSE
      OBVIOUS
    <2>2. z \in 1..r /\ z # r + 1
      BY <1>2, <2>1
    <2>3. recent[z].key = key
      BY <1>1, <1>5, <2>2 DEF UsedFrom
    <2>4. list_[z].key = key
      BY <1>2, <2>1, <2>3
    <2> QED BY <1>1, <2>1, <2>4 DEF CacheInv, Leads
  <1>7. InStep(n, x, m, z)
    <2>1. CASE n < cap_
      <3>1. n = l + 1 /\ r = l
        BY <1>1, <1>2, <2>1
      <3>2. m = r + 1 /\ z = m
        BY <1>2, <1>4, <1>5, <1>6, <3>1
      <3> QED BY <1>2, <3>1, <3>2 DEF InStep
    <2>2. CASE n = cap_
      <3>1. n <= m
        <4>1. CASE n = l
          BY <1>2, <1>4, <4>1
        <4>2. CASE n = l + 1
          <5>1. l < cap_ /\ r = l
            BY <1>2, <2>2, <4>2
          <5>2. m = r + 1
            BY <1>2, <1>4, <1>5, <1>6, <5>1
          <5> QED BY <1>2, <4>2, <5>1, <5>2
        <4> QED BY <1>3, <4>1, <4>2
      <3>2. x <= z
        BY <1>2, <1>3, <1>4, <1>5, <1>6
      <3> QED BY <1>2, <2>2, <3>1, <3>2 DEF InStep
    <2> QED BY <1>2, <1>3, <2>1, <2>2
  <1>8. Lost(recent, m, z)
    BY <1>1, <1>2, <1>5 DEF Lost
  <1>9. Promoted(recent, recent', m, z, f) /\ recent' \in Seq(Uses) /\ OnlyKey(recent, f, z)
    BY <1>1, <1>5 DEF UsedFrom, OnlyKey
  <1>10. e.key = f.key /\ e.value = f.value
    BY <1>1
  <1>11. SameEntries(list_', recent') /\ OwnKeys(recent') /\ OwnNodes(list_')
    <2>1. SameEntries(list_, recent) /\ OwnKeys(recent) /\ OwnNodes(list_)
      BY DEF CacheInv
    <2> QED BY <1>7, <1>8, <1>9, <1>10, <2>1, EntriesMove
  <1>12. Leads(map_', list_')
    BY MapFollows
  <1> QED BY <1>9, <1>11, <1>12 DEF CacheInv

LEMMA PutMisses ==
  ASSUME CacheInv, NEW key \in Keys, NEW v \in Vals, Cache!put(key, v), key \notin DOMAIN map_
  PROVE  CacheInv'
  <1>1. PICK l : l = Len(list_)
    OBVIOUS
  <1>2. /\ l \in Nat /\ l <= cap_ /\ cap_ \in Nat \ {0} /\ list_ \in Seq(CacheNodes) /\ DOMAIN list_ = 1..l
        /\ \A y \in 1..l : list_[y] \in CacheNodes
    BY <1>1, LenProperties, ElementOfSeq, SizesAssumption DEF CacheInv, SameEntries
  <1>3. Cache!Used(key, v)
    BY DEF Cache!put
  <1>4. PICK node, gone, rest :
          /\ node = (IF l >= cap_ THEN list_[l].node ELSE Cache!Fresh)
          /\ gone = (IF l >= cap_ THEN {list_[l].key} ELSE {})
          /\ rest = (IF l >= cap_ THEN Cache!Front(list_) ELSE list_)
    OBVIOUS
  <1>5. PICK e :
          /\ e = [node |-> node, key |-> key, value |-> v]
          /\ list_' = <<e>> \o rest
          /\ map_' = [y \in (DOMAIN map_ \ gone) \cup {key} |-> IF y = key THEN node ELSE map_[y]]
    BY <1>1, <1>4 DEF Cache!put, Cache!Last
  <1>6. e.node = node /\ e.key = key /\ e.value = v
    BY <1>5
  <1>7. DOMAIN map_ = {list_[y].key : y \in 1..l} /\ \A y \in 1..l : map_[list_[y].key] = list_[y].node
    BY <1>1 DEF CacheInv, Leads
  <1>8. CASE l >= cap_
    <2>1. l = cap_ /\ l \in 1..l /\ list_ # <<>>
      <3>1. l = cap_ /\ l \in 1..l /\ l # 0
        BY <1>2, <1>8
      <3> QED BY <1>1, <3>1
    <2>2. node = list_[l].node /\ gone = {list_[l].key} /\ list_' = <<e>> \o Cache!Front(list_)
      BY <1>4, <1>5, <1>8
    <2>3. e \in CacheNodes
      BY <1>2, <1>5, <2>1, <2>2 DEF CacheNodes
    <2>4. list_' \in Seq(CacheNodes) /\ Promoted(list_, list_', l, l, e)
      <3>1. PICK s : s = Cache!Front(list_)
        OBVIOUS
      <3>2. s \in Seq(CacheNodes) /\ Len(s) = l - 1 /\ \A y \in 1..l - 1 : s[y] = list_[y]
        BY <1>1, <1>2, <2>1, <3>1, AllButLast
      <3>3. list_' \in Seq(CacheNodes) /\ Promoted(s, list_', l - 1 + 1, l - 1 + 1, e)
        BY <2>2, <2>3, <3>1, <3>2, InFront
      <3>4. l - 1 + 1 = l /\ \A y \in 2..l : OldPlace(y, l) \in 1..l - 1
        BY <1>2 DEF OldPlace
      <3> QED BY <3>2, <3>3, <3>4 DEF Promoted
    <2>5. OnlyNode(list_, e, l)
      BY <1>1, <1>6, <2>1, <2>2 DEF CacheInv, OwnNodes, OnlyNode
    <2>6. \A y \in 1..l \ {l} : list_[y].key # list_[l].key /\ list_[y].key # key
      <3>1. SUFFICES ASSUME NEW y \in 1..l, y # l PROVE list_[y].key # list_[l].key /\ list_[y].key # key
        OBVIOUS
      <3>2. list_[y].key = recent[y].key /\ list_[l].key = recent[l].key /\ l <= Len(recent)
        BY <1>1, <2>1, <3>1 DEF CacheInv, SameEntries
      <3>3. Len(recent) \in Nat
        BY LenProperties DEF CacheInv
      <3>4. y \in 1..Len(recent) /\ l \in 1..Len(recent)
        BY <1>2, <2>1, <3>1, <3>2, <3>3
      <3>5. recent[y].key # recent[l].key
        BY <3>1, <3>4 DEF CacheInv, OwnKeys
      <3> QED BY <1>7, <3>1, <3>2, <3>5
    <2>7. LeadsBut(map_', list_, l, e)
      <3>1. DOMAIN map_' = {list_[y].key : y \in 1..l \ {l}} \cup {key}
        <4>1. DOMAIN map_ \ gone = {list_[y].key : y \in 1..l \ {l}}
          BY <1>7, <2>2, <2>6
        <4> QED BY <1>5, <4>1
      <3>2. map_'[key] = node
        BY <1>5, <3>1
      <3>3. \A y \in 1..l \ {l} : map_'[list_[y].key] = list_[y].node
        BY <1>5, <1>7, <2>6, <3>1
      <3> QED BY <1>1, <1>6, <3>1, <3>2, <3>3 DEF LeadsBut
    <2>8. Lost(list_, l, l) /\ l <= cap_ /\ (l < cap_ => l = Len(list_) + 1)
      BY <1>1, <1>2, <2>1 DEF Lost
    <2> QED BY <1>3, <1>6, <2>3, <2>4, <2>5, <2>7, <2>8, MissMoves
  <1>9. CASE ~(l >= cap_)
    <2>1. node = Cache!Fresh /\ gone = {} /\ list_' = <<e>> \o list_
      BY <1>4, <1>5, <1>9
    <2>2. node \in 1..cap_ /\ \A y \in 1..l : list_[y].node # node
      <3>1. PICK g : g = [y \in 1..l |-> list_[y].node]
        OBVIOUS
      <3>2. \E z \in 1..cap_ : \A y \in 1..l : g[y] # z
        <4>1. cap_ \in Nat /\ l \in Nat /\ l < cap_
          BY <1>2, <1>9
        <4>2. g \in [1..l -> 1..cap_]
          BY <1>2, <3>1 DEF CacheNodes
        <4> QED BY <4>1, <4>2, PlaceLeft
      <3>3. \E z \in Cache!Nodes : \A y \in DOMAIN list_ : list_[y].node # z
        BY <1>2, <3>1, <3>2 DEF Cache!Nodes
      <3> QED BY <1>2, <2>1, <3>3 DEF Cache!Fresh, Cache!Nodes
    <2>3. e \in CacheNodes
      BY <1>5, <2>2 DEF CacheNodes
    <2>4. list_' \in Seq(CacheNodes) /\ Promoted(list_, list_', l + 1, l + 1, e)
      BY <1>1, <1>2, <2>1, <2>3, InFront
    <2>5. OnlyNode(list_, e, l + 1)
      BY <1>1, <1>6, <2>2 DEF OnlyNode
    <2>6. l + 1 \notin 1..l /\ l + 1 \in 1..l + 1 /\ l + 1 <= cap_
      BY <1>2, <1>9
    <2>7. LeadsBut(map_', list_, l + 1, e)
      <3>1. 1..l \ {l + 1} = 1..l
        BY <2>6
      <3>2. DOMAIN map_' = {list_[y].key : y \in 1..l} \cup {key}
        BY <1>4, <1>5, <1>7, <2>1
      <3>3. map_'[key] = node
        BY <1>5, <3>2
      <3>4. \A y \in 1..l : map_'[list_[y].key] = list_[y].node
        BY <1>5, <1>7, <3>2
      <3> QED BY <1>1, <1>6, <3>1, <3>2, <3>3, <3>4 DEF LeadsBut
    <2>8. Lost(list_, l + 1, l + 1) /\ (l + 1 < cap_ => l + 1 = Len(list_) + 1)
      BY <1>1, <1>2, <2>6 DEF Lost
    <2> QED BY <1>3, <1>6, <2>3, <2>4, <2>5, <2>6, <2>7, <2>8, MissMoves
  <1> QED BY <1>8, <1>9

LEMMA CacheStep ==
  ASSUME CacheInv, [Next]_vars
  PROVE  CacheInv'
  <1>1. CASE UseCache
    <2>1. PICK key \in Keys : Cache!get(key) \/ \E v \in Vals : Cache!put(key, v)
      BY <1>1 DEF UseCache, Cache!Next
    <2> QED BY <2>1, GetHits, PutHits, PutMisses
  <1>2. CASE UNCHANGED cacheVars
    BY <1>2 DEF cacheVars, CacheInv
  <1>3. UseCache \/ UNCHANGED cacheVars
    BY DEF Next, vars, storage, UseContainer, UsePool, UseTable, UseBook, UseBucket, UseWheel,
           RunAlgorithm, RunSearch, RunServer
  <1> QED BY <1>1, <1>2, <1>3

LEMMA MostRecentNow ==
  ASSUME CacheInv
  PROVE  HoldsMostRecent
  <1>1. PICK l, r : l = Len(list_) /\ r = Len(recent)
    OBVIOUS
  <1>2. /\ l \in Nat /\ r \in Nat /\ l <= r /\ l <= cap_ /\ cap_ \in Nat /\ (l < cap_ => r = l)
        /\ DOMAIN list_ = 1..l
    BY <1>1, LenProperties, SizesAssumption DEF CacheInv, SameEntries
  <1>3. (IF r < cap_ THEN r ELSE cap_) = l
    BY <1>2
  <1>4. PICK s : s = SubSeq(recent, 1, l)
    OBVIOUS
  <1>5. s \in Seq(Uses) /\ Len(s) = l /\ \A y \in 1..l : s[y] = recent[y]
    <2>1. \A y \in 1..r : recent[y] \in Uses
      BY <1>1, ElementOfSeq DEF CacheInv
    <2>2. l \in Int /\ 1 \in Int /\ \A y \in 1..l : recent[y] \in Uses
      BY <1>2, <2>1
    <2>3. /\ s \in Seq(Uses) /\ Len(s) = IF 1 <= l THEN l - 1 + 1 ELSE 0
          /\ \A y \in 1..l - 1 + 1 : s[y] = recent[1 + y - 1]
      BY <1>4, <2>2, SubSeqProperties
    <2>4. \A y \in 1..l : y \in 1..l - 1 + 1 /\ 1 + y - 1 = y
      BY <1>2
    <2> QED BY <1>2, <2>3, <2>4
  <1>6. s = [y \in 1..l |-> [key |-> list_[y].key, value |-> list_[y].value]]
    <2>1. s = [y \in 1..l |-> s[y]]
      BY <1>5, LenProperties
    <2>2. ASSUME NEW y \in 1..l
          PROVE  s[y] = [key |-> list_[y].key, value |-> list_[y].value]
      <3>1. s[y] = recent[y] /\ s[y] \in Uses
        BY <1>5, <2>2, ElementOfSeq
      <3>2. s[y] = [key |-> s[y].key, value |-> s[y].value]
        BY <3>1 DEF Uses
      <3>3. list_[y].key = recent[y].key /\ list_[y].value = recent[y].value
        BY <1>1, <2>2 DEF CacheInv, SameEntries
      <3> QED BY <3>1, <3>2, <3>3
    <2> QED BY <2>1, <2>2
  <1>7. DOMAIN map_ = {list_[y].key : y \in 1..l} /\ \A y \in 1..l : map_[list_[y].key] = list_[y].node
    BY <1>1 DEF CacheInv, Leads
  <1> QED BY <1>1, <1>2, <1>3, <1>4, <1>6, <1>7 DEF HoldsMostRecent, Cache!HoldsMostRecent

(* HoldsMostRecent: whatever is asked for and put, the cache holds the     *)
(* keys used last with their last values, and its map leads to them.       *)
THEOREM MostRecentIsHeld == Spec => []HoldsMostRecent
  <1>1. CacheInv /\ [Next]_vars => CacheInv'
    BY CacheStep
  <1>2. CacheInv => HoldsMostRecent
    BY MostRecentNow
  <1> QED BY <1>1, <1>2, CacheInit, PTL DEF Spec

----------------------------------------------------------------------------
(* FreeListPool: the free list is the numbering f of n chunks that its     *)
(* links follow.                                                           *)
Chain(f, n, first, mem) ==
  /\ first = IF n = 0 THEN 0 ELSE f[1]
  /\ \A x \in 1..n : mem[f[x]] = IF x = n THEN 0 ELSE f[x + 1]
  /\ \A x, y \in 1..n : f[x] = f[y] => x = y
FreeList(f, n, first, mem, N, taken) ==
  /\ n \in Nat /\ f \in [1..n -> 1..N] /\ Chain(f, n, first, mem)
  /\ \A p \in 1..N : p \in taken \/ \E x \in 1..n : f[x] = p
  /\ \A x \in 1..n : f[x] \notin taken
PoolInv ==
  /\ blocks \in Nat /\ DOMAIN chunk = Pool!Chunks /\ held \subseteq Pool!Chunks
  /\ \E n, f : FreeList(f, n, free_list_, chunk, blocks * BlockSize, held)

(* So many different chunks there are not.                                 *)
LEMMA NoMoreThan ==
  ASSUME NEW n \in Nat, NEW N \in Nat, NEW f \in [1..n -> 1..N], \A x, y \in 1..n : f[x] = f[y] => x = y
  PROVE  n <= N
  <1> SUFFICES ASSUME N < n PROVE FALSE
    OBVIOUS
  <1> DEFINE w(p) == CHOOSE x \in 1..n : f[x] = p \/ \A y \in 1..n : f[y] # p
             g == [p \in 1..N |-> w(p)]
  <1>1. 1 \in 1..n
    OBVIOUS
  <1>2. \A p \in 1..N : \E x \in 1..n : f[x] = p \/ \A y \in 1..n : f[y] # p
    BY <1>1
  <1>3. \A p \in 1..N : w(p) \in 1..n /\ (f[w(p)] = p \/ \A y \in 1..n : f[y] # p)
    BY <1>2
  <1> HIDE DEF w
  <1>4. g \in [1..N -> 1..n] /\ \A p \in 1..N : g[p] = w(p)
    BY <1>3
  <1> HIDE DEF g
  <1>5. \E z \in 1..n : \A p \in 1..N : g[p] # z
    <2>1. N < n /\ g \in [1..N -> 1..n]
      BY <1>4
    <2>2. \A c, d \in Nat : d < c =>
            \A h \in [1..d -> 1..c] : \E z \in 1..c : \A p \in 1..d : h[p] # z
      BY PlaceLeft
    <2>3. \A h \in [1..N -> 1..n] : \E z \in 1..n : \A p \in 1..N : h[p] # z
      BY <2>1, <2>2
    <2> QED BY <2>1, <2>3, Zenon
  <1>6. PICK z \in 1..n : \A p \in 1..N : g[p] # z
    BY <1>5
  <1>7. f[z] \in 1..N /\ f[w(f[z])] = f[z] /\ w(f[z]) \in 1..n
    BY <1>3
  <1> QED BY <1>4, <1>6, <1>7

LEMMA PoolSize == blocks \in Nat => blocks * BlockSize \in Nat
  BY SizesAssumption, Z3

(* Walk is the function that lists the chain, with nullptr after its end,  *)
(* and it is no other.                                                     *)
LEMMA WalkFollows ==
  ASSUME NEW N \in Nat, N = blocks * BlockSize, DOMAIN chunk = 1..N,
         NEW n, NEW f, FreeList(f, n, free_list_, chunk, N, held)
  PROVE  DOMAIN Pool!Walk = 0..N /\ \A x \in 0..N : Pool!Walk[x] = IF x < n THEN f[x + 1] ELSE 0
  <1>1. /\ n \in Nat /\ f \in [1..n -> 1..N] /\ free_list_ = (IF n = 0 THEN 0 ELSE f[1])
        /\ \A x \in 1..n : chunk[f[x]] = IF x = n THEN 0 ELSE f[x + 1]
    BY DEF FreeList, Chain
  <1> DEFINE val(x) == IF x < n THEN f[x + 1] ELSE 0
             W == [x \in 0..N |-> val(x)]
             step(y) == IF y \in DOMAIN chunk THEN chunk[y] ELSE y
             Follows(w) == w = [x \in 0..N |-> IF x = 0 THEN free_list_ ELSE step(w[x - 1])]
  <1>2. Pool!Walk = CHOOSE w : Follows(w)
    BY DEF Pool!Walk
  <1>3. val(0) = free_list_
    BY <1>1
  <1>4. ASSUME NEW x \in 1..N
        PROVE  step(val(x - 1)) = val(x)
    <2>1. CASE x <= n
      <3>1. x \in 1..n /\ x - 1 < n /\ val(x - 1) = f[x]
        BY <1>1, <1>4, <2>1
      <3>2. step(val(x - 1)) = chunk[f[x]]
        BY <1>1, <3>1
      <3>3. chunk[f[x]] = val(x)
        BY <1>1, <2>1, <3>1
      <3> QED BY <3>2, <3>3
    <2>2. CASE x > n
      BY <1>1, <1>4, <2>2
    <2> QED BY <1>1, <1>4, <2>1, <2>2
  <1> HIDE DEF val, step
  <1>5. Follows(W)
    <2>1. \A x \in 0..N : val(x) = IF x = 0 THEN free_list_ ELSE step(W[x - 1])
      <3>1. SUFFICES ASSUME NEW x \in 1..N PROVE val(x) = step(W[x - 1])
        BY <1>3
      <3>2. x - 1 \in 0..N
        BY <3>1
      <3> QED BY <1>4, <3>1, <3>2
    <2> QED BY <2>1
  <1>6. Follows(Pool!Walk)
    <2> HIDE DEF Follows, W
    <2> QED BY <1>2, <1>5
  <1>7. DOMAIN Pool!Walk = 0..N
    BY <1>6
  <1>8. \A x \in 0..N : Pool!Walk[x] = IF x = 0 THEN free_list_ ELSE step(Pool!Walk[x - 1])
    BY <1>6
  <1> DEFINE T == {x \in 0..N : Pool!Walk[x] # val(x)}
  <1>9. ASSUME T # {}
        PROVE  FALSE
    <2>1. \E z \in T : \A y \in T : z <= y
      <3>1. T \subseteq Nat
        OBVIOUS
      <3> HIDE DEF T
      <3> QED BY <1>9, <3>1, LeastNumber
    <2>2. PICK z \in T : \A y \in T : z <= y
      BY <2>1
    <2>3. z \in 0..N /\ Pool!Walk[z] # val(z)
      OBVIOUS
    <2>4. z # 0
      BY <1>3, <1>8, <2>3
    <2>5. z - 1 \in 0..N /\ z - 1 \notin T /\ z \in 1..N
      BY <2>2, <2>3, <2>4
    <2>6. Pool!Walk[z - 1] = val(z - 1)
      BY <2>5
    <2>7. Pool!Walk[z] = step(val(z - 1))
      BY <1>8, <2>3, <2>4, <2>6
    <2>8. step(val(z - 1)) = val(z)
      BY <1>4, <2>5
    <2> QED BY <2>3, <2>7, <2>8
  <1>10. \A x \in 0..N : Pool!Walk[x] = val(x)
    BY <1>9
  <1> QED BY <1>7, <1>10 DEF val

(* The chunks of a block added to N chunks, linked in order.               *)
LinkedBlock(mem, N, M) ==
  /\ N \in Nat /\ M \in Nat /\ M = N + BlockSize
  /\ DOMAIN mem = N + 1..M /\ \A p \in N + 1..M : mem[p] = IF p < M THEN p + 1 ELSE 0
LEMMA BlockLinked ==
  ASSUME NEW b \in Nat
  PROVE  LinkedBlock(Pool!Linked(b, 0), b * BlockSize, (b + 1) * BlockSize)
  <1>1. PICK mem, N, M : mem = Pool!Linked(b, 0) /\ N = b * BlockSize /\ M = (b + 1) * BlockSize
    OBVIOUS
  <1>2. N \in Nat /\ M \in Nat /\ M = N + BlockSize
    BY <1>1, SizesAssumption, Z3
  <1>3. mem = [p \in N + 1..M |-> IF p < M THEN p + 1 ELSE 0]
    BY <1>1 DEF Pool!Linked
  <1> QED BY <1>1, <1>2, <1>3 DEF LinkedBlock

LEMMA PoolInit == Init => PoolInv
  <1> SUFFICES ASSUME Init PROVE PoolInv
    OBVIOUS
  <1>1. BlockSize \in Nat \ {0} /\ held = {}
    BY SizesAssumption DEF Init, Pool!Init
  <1>2. CASE blocks = 1 /\ free_list_ = 1 /\ chunk = Pool!Linked(0, Pool!nullptr)
    <2>1. 0 * BlockSize = 0 /\ (0 + 1) * BlockSize = BlockSize /\ 1 * BlockSize = BlockSize
      BY <1>1, Z3
    <2>2. /\ DOMAIN chunk = 1..BlockSize
          /\ \A p \in 1..BlockSize : chunk[p] = IF p < BlockSize THEN p + 1 ELSE 0
      <3>1. PICK b, N, M : b = 0 /\ N = b * BlockSize /\ M = (b + 1) * BlockSize
        OBVIOUS
      <3>2. b \in Nat /\ N = 0 /\ M = BlockSize
        BY <2>1, <3>1
      <3>3. chunk = Pool!Linked(b, 0)
        BY <1>2, <3>1 DEF Pool!nullptr
      <3>4. DOMAIN chunk = N + 1..M /\ \A p \in N + 1..M : chunk[p] = IF p < M THEN p + 1 ELSE 0
        <4>1. LinkedBlock(chunk, N, M)
          BY <3>1, <3>2, <3>3, BlockLinked
        <4> QED BY <4>1 DEF LinkedBlock
      <3> QED BY <3>2, <3>4
    <2>3. PICK f : f = [x \in 1..BlockSize |-> x]
      OBVIOUS
    <2>4. FreeList(f, BlockSize, free_list_, chunk, BlockSize, held)
      BY <1>1, <1>2, <2>2, <2>3 DEF FreeList, Chain
    <2>5. Pool!Chunks = 1..BlockSize /\ blocks * BlockSize = BlockSize
      BY <1>2, <2>1 DEF Pool!Chunks
    <2> QED BY <1>1, <1>2, <2>2, <2>4, <2>5 DEF PoolInv
  <1>3. CASE blocks = 0 /\ free_list_ = Pool!nullptr /\ chunk = [c \in {} |-> Pool!Data]
    <2>1. 0 * BlockSize = 0
      BY <1>1, Z3
    <2>2. Pool!Chunks = 1..0 /\ blocks * BlockSize = 0
      BY <1>3, <2>1 DEF Pool!Chunks
    <2>3. PICK f : f = [x \in 1..0 |-> x]
      OBVIOUS
    <2>4. FreeList(f, 0, free_list_, chunk, 0, held)
      BY <1>3, <2>3 DEF FreeList, Chain, Pool!nullptr
    <2> QED BY <1>1, <1>3, <2>2, <2>4 DEF PoolInv
  <1> QED BY <1>2, <1>3 DEF Init, Pool!Init

(* allocate takes the first chunk of the list,                             *)
LEMMA FirstTaken ==
  ASSUME NEW N \in Nat, NEW n, NEW f, NEW p, NEW mem, NEW taken, FreeList(f, n, p, mem, N, taken), p # 0
  PROVE  p \in 1..N /\ \E m, g : FreeList(g, m, mem[p], mem, N, taken \cup {p})
  <1>1. /\ n \in Nat \ {0} /\ f \in [1..n -> 1..N] /\ p = f[1]
        /\ \A x \in 1..n : mem[f[x]] = IF x = n THEN 0 ELSE f[x + 1]
        /\ \A x, y \in 1..n : f[x] = f[y] => x = y
        /\ \A z \in 1..N : z \in taken \/ \E x \in 1..n : f[x] = z
        /\ \A x \in 1..n : f[x] \notin taken
    BY DEF FreeList, Chain
  <1>2. PICK m, g : m = n - 1 /\ g = [x \in 1..n - 1 |-> f[x + 1]]
    OBVIOUS
  <1>3. /\ m \in Nat /\ g \in [1..m -> 1..N] /\ 1 \in 1..n
        /\ \A x \in 1..m : x + 1 \in 1..n /\ x + 1 # 1 /\ g[x] = f[x + 1] /\ (x = m <=> x + 1 = n)
    <2>1. n \in Nat \ {0} /\ m = n - 1
      BY <1>1, <1>2
    <2>2. m \in Nat /\ 1 \in 1..n /\ \A x \in 1..m : x + 1 \in 1..n /\ x + 1 # 1 /\ (x = m <=> x + 1 = n)
      BY <2>1
    <2> QED BY <1>1, <1>2, <2>2
  <1>4. mem[p] = IF m = 0 THEN 0 ELSE g[1]
    <2>1. mem[p] = IF 1 = n THEN 0 ELSE f[1 + 1]
      BY <1>1, <1>3
    <2>2. (m = 0 <=> 1 = n) /\ (m # 0 => 1 \in 1..m)
      BY <1>1, <1>2
    <2> QED BY <1>3, <2>1, <2>2
  <1>5. \A x \in 1..m : mem[g[x]] = IF x = m THEN 0 ELSE g[x + 1]
    <2>1. SUFFICES ASSUME NEW x \in 1..m PROVE mem[g[x]] = IF x = m THEN 0 ELSE g[x + 1]
      OBVIOUS
    <2>2. mem[g[x]] = IF x + 1 = n THEN 0 ELSE f[x + 1 + 1]
      BY <1>1, <1>3, <2>1
    <2>3. x # m => x + 1 \in 1..m
      BY <1>3, <2>1
    <2> QED BY <1>3, <2>1, <2>2, <2>3
  <1>6. \A x, y \in 1..m : g[x] = g[y] => x = y
    BY <1>1, <1>3
  <1>7. ASSUME NEW z \in 1..N
        PROVE  z \in taken \cup {p} \/ \E x \in 1..m : g[x] = z
    <2>1. CASE \E x \in 1..n : f[x] = z /\ x # 1
      <3>1. PICK x \in 1..n : f[x] = z /\ x # 1
        BY <2>1
      <3>2. x - 1 \in 1..m /\ x - 1 + 1 = x
        BY <1>1, <1>2, <3>1
      <3>3. g[x - 1] = f[x - 1 + 1]
        BY <1>3, <3>2
      <3> QED BY <3>1, <3>2, <3>3
    <2> QED BY <1>1, <1>7, <2>1
  <1>8. \A x \in 1..m : g[x] \notin taken \cup {p}
    BY <1>1, <1>3
  <1>9. FreeList(g, m, mem[p], mem, N, taken \cup {p})
    BY <1>3, <1>4, <1>5, <1>6, <1>7, <1>8 DEF FreeList, Chain
  <1> QED BY <1>1, <1>3, <1>9

(* or of a new block, when every chunk is taken.                           *)
LEMMA BlockTaken ==
  ASSUME NEW N \in Nat, NEW M, M = N + BlockSize, NEW mem,
         \A p \in N + 1..M : mem[p] = IF p < M THEN p + 1 ELSE 0,
         NEW taken, taken = 1..N
  PROVE  \E n, f : FreeList(f, n, N + 1, mem, M, taken)
  <1>1. BlockSize \in Nat \ {0} /\ M \in Nat
    <2>1. BlockSize \in Nat \ {0}
      BY SizesAssumption
    <2> QED BY <2>1
  <1>2. PICK n, f : n = BlockSize /\ f = [x \in 1..BlockSize |-> N + x]
    OBVIOUS
  <1>3. \A x \in 1..n : f[x] = N + x /\ N + x \in N + 1..M /\ N + x \in 1..M /\ N + x \notin 1..N /\ (x = n <=> ~(N + x < M))
    BY <1>1, <1>2
  <1>4. 1 \in 1..n /\ n # 0 /\ n \in Nat /\ f \in [1..n -> 1..M]
    BY <1>1, <1>2, <1>3
  <1>5. \A x \in 1..n : mem[f[x]] = IF x = n THEN 0 ELSE f[x + 1]
    <2>1. SUFFICES ASSUME NEW x \in 1..n PROVE mem[f[x]] = IF x = n THEN 0 ELSE f[x + 1]
      OBVIOUS
    <2>2. mem[N + x] = IF x = n THEN 0 ELSE N + x + 1
      BY <1>3, <2>1
    <2>3. x # n => x + 1 \in 1..n /\ N + (x + 1) = N + x + 1
      BY <1>1, <1>2, <2>1
    <2> QED BY <1>3, <2>1, <2>2, <2>3
  <1>6. \A x, y \in 1..n : f[x] = f[y] => x = y
    BY <1>2
  <1>7. ASSUME NEW z \in 1..M
        PROVE  z \in taken \/ \E x \in 1..n : f[x] = z
    <2>1. CASE z > N
      <3>1. z - N \in 1..n /\ N + (z - N) = z
        BY <1>1, <1>2, <1>7, <2>1
      <3> QED BY <1>3, <3>1
    <2> QED BY <1>7, <2>1
  <1>8. \A x \in 1..n : f[x] \notin taken
    BY <1>3
  <1>9. FreeList(f, n, N + 1, mem, M, taken)
    BY <1>3, <1>4, <1>5, <1>6, <1>7, <1>8 DEF FreeList, Chain
  <1> QED BY <1>9

LEMMA AllocateStep ==
  ASSUME PoolInv, Pool!allocate
  PROVE  PoolInv'
  <1>1. PICK N, b : N = blocks * BlockSize /\ b = blocks
    OBVIOUS
  <1>2. N \in Nat /\ b \in Nat /\ Pool!Chunks = 1..N /\ DOMAIN chunk = 1..N /\ held \subseteq 1..N
    BY <1>1, PoolSize DEF PoolInv, Pool!Chunks
  <1>3. PICK n, f : FreeList(f, n, free_list_, chunk, N, held)
    BY <1>1 DEF PoolInv
  <1>4. CASE free_list_ # 0
    <2>1. PICK p : p = free_list_
      OBVIOUS
    <2>2. blocks' = blocks /\ free_list_' = chunk[p] /\ chunk' = chunk /\ held' = held \cup {p}
      BY <1>4, <2>1 DEF Pool!allocate, Pool!nullptr
    <2>3. p \in 1..N /\ \E m, g : FreeList(g, m, chunk[p], chunk, N, held \cup {p})
      BY <1>2, <1>3, <1>4, <2>1, FirstTaken
    <2>4. Pool!Chunks' = 1..N /\ blocks' * BlockSize = N
      BY <1>1, <2>2 DEF Pool!Chunks
    <2> QED BY <1>1, <1>2, <2>2, <2>3, <2>4 DEF PoolInv
  <1>5. CASE free_list_ = 0
    <2>1. PICK p, M, new, mem : /\ p = N + 1 /\ M = (b + 1) * BlockSize
                                /\ new = Pool!Linked(b, 0) /\ mem = Pool!Joined(chunk, new)
      OBVIOUS
    <2>2. blocks' = b + 1 /\ free_list_' = mem[p] /\ chunk' = mem /\ held' = held \cup {p}
      BY <1>1, <1>5, <2>1 DEF Pool!allocate, Pool!nullptr
    <2>3. /\ M \in Nat /\ M = N + BlockSize /\ DOMAIN new = N + 1..M
          /\ \A z \in N + 1..M : new[z] = IF z < M THEN z + 1 ELSE 0
      <3>1. N = b * BlockSize
        BY <1>1
      <3>2. LinkedBlock(new, N, M)
        BY <1>2, <2>1, <3>1, BlockLinked
      <3> QED BY <3>2 DEF LinkedBlock
    <2>4. held = 1..N
      <3>1. n = 0
        BY <1>3, <1>5 DEF FreeList, Chain
      <3>2. \A z \in 1..N : z \in held
        BY <1>3, <3>1 DEF FreeList
      <3> QED BY <1>2, <3>2
    <2>5. DOMAIN mem = 1..M /\ \A z \in N + 1..M : mem[z] = IF z < M THEN z + 1 ELSE 0
      <3>1. mem = [z \in 1..N \cup N + 1..M |-> IF z \in 1..N THEN chunk[z] ELSE new[z]]
        BY <1>2, <2>1, <2>3 DEF Pool!Joined
      <3>2. 1..N \cup N + 1..M = 1..M /\ \A z \in N + 1..M : z \in 1..M /\ z \notin 1..N
        <4>1. BlockSize \in Nat \ {0}
          BY SizesAssumption
        <4> QED BY <1>2, <2>3, <4>1
      <3>3. \A z \in N + 1..M : mem[z] = new[z]
        BY <3>1, <3>2
      <3> QED BY <2>3, <3>1, <3>2, <3>3
    <2>6. \E m, g : FreeList(g, m, N + 1, mem, M, held)
      BY <1>2, <2>3, <2>4, <2>5, BlockTaken
    <2>7. PICK m, g : FreeList(g, m, p, mem, M, held)
      BY <2>1, <2>6
    <2>8. p # 0
      BY <1>2, <2>1
    <2>9. p \in 1..M /\ \E y, h : FreeList(h, y, mem[p], mem, M, held \cup {p})
      BY <2>3, <2>7, <2>8, FirstTaken
    <2>10. Pool!Chunks' = 1..M /\ blocks' * BlockSize = M
      BY <2>1, <2>2 DEF Pool!Chunks
    <2>11. held' \subseteq 1..M /\ blocks' \in Nat
      <3>1. BlockSize \in Nat \ {0}
        BY SizesAssumption
      <3>2. 1..N \subseteq 1..M
        BY <1>2, <2>3, <3>1
      <3> QED BY <1>2, <2>2, <2>4, <2>9, <3>2
    <2> QED BY <2>2, <2>5, <2>9, <2>10, <2>11 DEF PoolInv
  <1> QED BY <1>4, <1>5

(* The client writes over no link.                                         *)
LEMMA WriteStep ==
  ASSUME PoolInv, Pool!Write
  PROVE  PoolInv'
  <1>1. PICK p \in held : chunk' = [chunk EXCEPT ![p] = Pool!Data]
    BY DEF Pool!Write
  <1>2. free_list_' = free_list_ /\ blocks' = blocks /\ held' = held
    BY DEF Pool!Write
  <1>3. PICK n, f : FreeList(f, n, free_list_, chunk, blocks * BlockSize, held)
    BY DEF PoolInv
  <1>4. \A x \in 1..n : f[x] # p /\ f[x] \in DOMAIN chunk
    BY <1>1, <1>3 DEF FreeList, PoolInv, Pool!Chunks
  <1>5. \A x \in 1..n : chunk'[f[x]] = chunk[f[x]]
    BY <1>1, <1>4
  <1>6. FreeList(f, n, free_list_, chunk', blocks * BlockSize, held)
    BY <1>3, <1>5 DEF FreeList, Chain
  <1>7. DOMAIN chunk' = DOMAIN chunk /\ Pool!Chunks' = Pool!Chunks
    BY <1>1, <1>2 DEF Pool!Chunks
  <1> QED BY <1>2, <1>6, <1>7 DEF PoolInv

LEMMA DeallocateStep ==
  ASSUME PoolInv, Pool!deallocate
  PROVE  PoolInv'
  <1>1. PICK p \in held : /\ chunk' = [chunk EXCEPT ![p] = free_list_] /\ free_list_' = p
                          /\ held' = held \ {p} /\ blocks' = blocks
    BY DEF Pool!deallocate
  <1>2. PICK N : N = blocks * BlockSize
    OBVIOUS
  <1>3. N \in Nat /\ Pool!Chunks = 1..N /\ DOMAIN chunk = 1..N /\ held \subseteq 1..N /\ p \in 1..N
    BY <1>1, <1>2, PoolSize DEF PoolInv, Pool!Chunks
  <1>4. PICK n, f : FreeList(f, n, free_list_, chunk, N, held)
    BY <1>2 DEF PoolInv
  <1>5. /\ n \in Nat /\ f \in [1..n -> 1..N] /\ free_list_ = (IF n = 0 THEN 0 ELSE f[1])
        /\ \A x \in 1..n : chunk[f[x]] = IF x = n THEN 0 ELSE f[x + 1]
        /\ \A x, y \in 1..n : f[x] = f[y] => x = y
        /\ \A z \in 1..N : z \in held \/ \E x \in 1..n : f[x] = z
        /\ \A x \in 1..n : f[x] \notin held
    BY <1>4 DEF FreeList, Chain
  <1>6. PICK m, g : m = n + 1 /\ g = [x \in 1..n + 1 |-> IF x = 1 THEN p ELSE f[x - 1]]
    OBVIOUS
  <1>7. /\ m \in Nat /\ 1 \in 1..m /\ m # 0 /\ g[1] = p
        /\ \A x \in 1..m : x = 1 \/ (x - 1 \in 1..n /\ x # 1 /\ g[x] = f[x - 1])
        /\ \A x \in 1..n : x + 1 \in 1..m /\ g[x + 1] = f[x]
    <2>1. m \in Nat /\ 1 \in 1..m /\ m # 0 /\ \A x \in 1..m : x = 1 \/ (x - 1 \in 1..n /\ x # 1)
      BY <1>5, <1>6
    <2>2. \A x \in 1..n : x + 1 \in 1..m /\ x + 1 # 1 /\ x + 1 - 1 = x
      BY <1>5, <1>6
    <2>3. g[1] = p /\ \A x \in 1..m : x # 1 => g[x] = f[x - 1]
      BY <1>6, <2>1
    <2>4. \A x \in 1..n : g[x + 1] = f[x + 1 - 1]
      BY <2>2, <2>3
    <2> QED BY <2>1, <2>2, <2>3, <2>4
  <1>8. chunk'[p] = free_list_ /\ \A x \in 1..n : f[x] # p /\ chunk'[f[x]] = chunk[f[x]]
    BY <1>1, <1>3, <1>5
  <1>9. g \in [1..m -> 1..N]
    BY <1>3, <1>5, <1>6, <1>7
  <1>10. \A x \in 1..m : chunk'[g[x]] = IF x = m THEN 0 ELSE g[x + 1]
    <2>1. SUFFICES ASSUME NEW x \in 1..m PROVE chunk'[g[x]] = IF x = m THEN 0 ELSE g[x + 1]
      OBVIOUS
    <2>2. CASE x = 1
      <3>1. (m = 1 <=> n = 0) /\ (n # 0 => 1 \in 1..n)
        BY <1>5, <1>6
      <3>2. n # 0 => g[1 + 1] = f[1]
        BY <1>7, <3>1
      <3> QED BY <1>5, <1>7, <1>8, <2>2, <3>1, <3>2
    <2>3. CASE x # 1
      <3>1. x - 1 \in 1..n /\ g[x] = f[x - 1] /\ (x - 1 = n <=> x = m) /\ x - 1 + 1 = x
        BY <1>5, <1>6, <1>7, <2>1, <2>3
      <3>2. chunk'[g[x]] = IF x = m THEN 0 ELSE f[x]
        BY <1>5, <1>8, <3>1
      <3>3. x # m => x \in 1..n
        BY <1>5, <1>6, <2>1
      <3> QED BY <1>7, <3>2, <3>3
    <2> QED BY <2>2, <2>3
  <1>11. \A x, y \in 1..m : g[x] = g[y] => x = y
    <2>1. SUFFICES ASSUME NEW x \in 1..m, NEW y \in 1..m, g[x] = g[y] PROVE x = y
      OBVIOUS
    <2>2. CASE x # 1 /\ y # 1
      <3>1. x - 1 = y - 1
        BY <1>5, <1>7, <2>1, <2>2
      <3> QED BY <2>1, <3>1
    <2> QED BY <1>7, <1>8, <2>1, <2>2
  <1>12. \A z \in 1..N : z \in held' \/ \E x \in 1..m : g[x] = z
    <2>1. SUFFICES ASSUME NEW z \in 1..N, z \notin held' PROVE \E x \in 1..m : g[x] = z
      OBVIOUS
    <2>2. z = p \/ \E x \in 1..n : f[x] = z
      BY <1>1, <1>5, <2>1
    <2> QED BY <1>7, <2>2
  <1>13. \A x \in 1..m : g[x] \notin held'
    BY <1>1, <1>5, <1>7
  <1>14. FreeList(g, m, free_list_', chunk', N, held')
    BY <1>1, <1>7, <1>9, <1>10, <1>11, <1>12, <1>13 DEF FreeList, Chain
  <1>15. DOMAIN chunk' = 1..N /\ held' \subseteq 1..N /\ Pool!Chunks' = 1..N /\ blocks' * BlockSize = N
    BY <1>1, <1>2, <1>3 DEF Pool!Chunks
  <1> QED BY <1>1, <1>14, <1>15 DEF PoolInv

LEMMA PoolStep ==
  ASSUME PoolInv, [Next]_vars
  PROVE  PoolInv'
  <1>1. CASE UsePool
    BY <1>1, AllocateStep, WriteStep, DeallocateStep DEF UsePool, Pool!Next
  <1>2. CASE UNCHANGED poolVars
    BY <1>2 DEF poolVars, PoolInv, Pool!Chunks
  <1>3. UsePool \/ UNCHANGED poolVars
    BY DEF Next, vars, storage, UseContainer, UseCache, UseTable, UseBook, UseBucket, UseWheel,
           RunAlgorithm, RunSearch, RunServer
  <1> QED BY <1>1, <1>2, <1>3

LEMMA FreeListNow ==
  ASSUME PoolInv
  PROVE  FreeListIntact
  <1>1. PICK N : N = blocks * BlockSize
    OBVIOUS
  <1>2. N \in Nat /\ DOMAIN chunk = 1..N /\ Pool!Chunks = 1..N /\ held \subseteq 1..N
    BY <1>1, PoolSize DEF PoolInv, Pool!Chunks
  <1>3. PICK n, f : FreeList(f, n, free_list_, chunk, N, held)
    BY <1>1 DEF PoolInv
  <1>4. PICK w : w = Pool!Walk
    OBVIOUS
  <1>5. DOMAIN w = 0..N /\ \A x \in 0..N : w[x] = IF x < n THEN f[x + 1] ELSE 0
    BY <1>1, <1>2, <1>3, <1>4, WalkFollows
  <1>6. /\ n \in Nat /\ f \in [1..n -> 1..N] /\ \A x, y \in 1..n : f[x] = f[y] => x = y
    BY <1>3 DEF FreeList, Chain
  <1>7. n <= N
    BY <1>2, <1>6, NoMoreThan
  <1>8. ASSUME NEW y \in 0..N
        PROVE  w[y] \in (1..N \ held) \cup {0}
    <2>1. CASE y < n
      <3>1. y + 1 \in 1..n /\ w[y] = f[y + 1]
        BY <1>5, <1>6, <1>8, <2>1
      <3> QED BY <1>3, <1>6, <3>1 DEF FreeList
    <2> QED BY <1>5, <1>8, <2>1
  <1>9. ASSUME NEW z \in (1..N \ held) \cup {0}
        PROVE  \E y \in 0..N : w[y] = z
    <2>1. CASE z = 0
      <3>1. n \in 0..N /\ ~(n < n)
        BY <1>2, <1>6, <1>7
      <3> QED BY <1>5, <2>1, <3>1
    <2>2. CASE z # 0
      <3>1. PICK x \in 1..n : f[x] = z
        BY <1>3, <1>9, <2>2 DEF FreeList
      <3>2. x - 1 \in 0..N /\ x - 1 < n /\ x - 1 + 1 = x
        BY <1>2, <1>6, <1>7, <3>1
      <3>3. w[x - 1] = f[x - 1 + 1]
        BY <1>5, <3>2
      <3> QED BY <3>1, <3>2, <3>3
    <2> QED BY <2>1, <2>2
  <1>10. {w[y] : y \in 0..N} = (1..N \ held) \cup {0}
    BY <1>8, <1>9
  <1> QED BY <1>2, <1>4, <1>5, <1>10 DEF FreeListIntact, Pool!FreeListIntact, Pool!nullptr

(* FreeListIntact: however often chunks are taken, written and given back, *)
(* and blocks added, the links lead to every free chunk and to no other.   *)
THEOREM NoChunkIsLost == Spec => []FreeListIntact
  <1>1. PoolInv /\ [Next]_vars => PoolInv'
    BY PoolStep
  <1>2. PoolInv => FreeListIntact
    BY FreeListNow
  <1> QED BY <1>1, <1>2, PoolInit, PTL DEF Spec

----------------------------------------------------------------------------
(* SmartContainer: the buffer is as long as capacity_ says, the elements   *)
(* are in front, and the cells behind them hold the default value.         *)
CellSet == [v : Elements \cup {0}, alive : BOOLEAN]
Buffers == [data_ : Nat, cells : Seq(CellSet), size_ : Nat, capacity_ : Nat]
IsVector(s) ==
  /\ s \in Buffers /\ s.size_ <= s.capacity_ /\ Len(s.cells) = s.capacity_
  /\ \A y \in 1..s.capacity_ : y > s.size_ => s.cells[y].v = 0
AllAlive(s) == \A y \in 1..Len(s.cells) : s.cells[y].alive
ContainerInv ==
  /\ obj = [c \in Container!Containers |-> obj[c]]
  /\ \A c \in Container!Containers : IsVector(obj[c])
  /\ it.pos \in Nat /\ (it = Container!NoIterator \/ Container!PointsInto(obj, it))
  /\ plain => /\ ~undefined /\ ~leaked
              /\ nontrivial => \A c \in Container!Containers : AllAlive(obj[c])

LEMMA BufferOf ==
  ASSUME NEW d \in Nat, NEW ce \in Seq(CellSet), NEW n \in Nat, NEW m \in Nat, n <= m, Len(ce) = m,
         \A y \in 1..m : y > n => ce[y].v = 0,
         NEW s, s = [data_ |-> d, cells |-> ce, size_ |-> n, capacity_ |-> m]
  PROVE  IsVector(s)
  BY DEF IsVector, Buffers

LEMMA CellsMade ==
  ASSUME NEW n \in Nat, NEW ce, ce = [y \in 1..n |-> ce[y]], \A y \in 1..n : ce[y] \in CellSet
  PROVE  ce \in Seq(CellSet) /\ Len(ce) = n
  <1>1. ce \in [1..n -> CellSet]
    OBVIOUS
  <1> QED BY <1>1

LEMMA FreshBuffer == Container!Fresh \in Nat
  <1>1. \E n \in 1..4 : n \notin {obj[c].data_ : c \in Container!Containers} \cup {it.buf}
    <2>1. {obj[c].data_ : c \in Container!Containers} = {obj["a"].data_, obj["b"].data_}
      BY DEF Container!Containers
    <2>2. PICK u, w, z : u = obj["a"].data_ /\ w = obj["b"].data_ /\ z = it.buf
      OBVIOUS
    <2>3. \E n \in 1..4 : n # u /\ n # w /\ n # z
      <3>1. SUFFICES ASSUME \A n \in 1..4 : n = u \/ n = w \/ n = z PROVE FALSE
        OBVIOUS
      <3>2. 1 \in 1..4 /\ 2 \in 1..4 /\ 3 \in 1..4 /\ 4 \in 1..4
        OBVIOUS
      <3>3. /\ 1 = u \/ 1 = w \/ 1 = z
            /\ 2 = u \/ 2 = w \/ 2 = z
            /\ 3 = u \/ 3 = w \/ 3 = z
            /\ 4 = u \/ 4 = w \/ 4 = z
        BY <3>1, <3>2
      <3> QED BY <3>3
    <2> QED BY <2>1, <2>2, <2>3
  <1> QED BY <1>1 DEF Container!Fresh

LEMMA EmptyVector ==
  /\ IsVector(Container!Empty) /\ AllAlive(Container!Empty) /\ Container!Contents(Container!Empty) = <<>>
  <1>1. PICK s : s = Container!Empty
    OBVIOUS
  <1>2. s = [data_ |-> 0, cells |-> <<>>, size_ |-> 0, capacity_ |-> 0]
    BY <1>1 DEF Container!Empty, Container!nullptr
  <1>3. <<>> \in Seq(CellSet) /\ Len(<<>>) = 0
    OBVIOUS
  <1>4. IsVector(s)
    BY <1>2, <1>3 DEF IsVector, Buffers
  <1>5. AllAlive(s) /\ Container!Contents(s) = <<>>
    BY <1>2, <1>3 DEF AllAlive, Container!Contents
  <1> QED BY <1>1, <1>4, <1>5

LEMMA Values1 ==
  ASSUME NEW s, IsVector(s), NEW q, q = Container!Contents(s)
  PROVE  /\ q \in Seq(Elements \cup {0}) /\ Len(q) = s.size_ /\ \A y \in 1..s.size_ : q[y] = s.cells[y].v
         /\ \A y \in 1..s.size_ : y \in 1..s.capacity_
  <1>1. s.size_ \in Nat /\ s.capacity_ \in Nat /\ s.size_ <= s.capacity_ /\ Len(s.cells) = s.capacity_ /\ s.cells \in Seq(CellSet)
    BY DEF IsVector, Buffers
  <1>2. \A y \in 1..s.capacity_ : s.cells[y] \in CellSet
    BY <1>1, ElementOfSeq
  <1>3. \A y \in 1..s.size_ : y \in 1..s.capacity_ /\ s.cells[y].v \in Elements \cup {0}
    BY <1>1, <1>2 DEF CellSet
  <1>4. q = [y \in 1..s.size_ |-> s.cells[y].v]
    BY DEF Container!Contents
  <1>5. q \in [1..s.size_ -> Elements \cup {0}]
    BY <1>3, <1>4
  <1> QED BY <1>1, <1>3, <1>4, <1>5

(* Growing gives a larger buffer to a full container and keeps what it     *)
(* holds.                                                                  *)
LEMMA Reserved ==
  ASSUME NEW s, IsVector(s), NEW n \in Nat, n > s.capacity_, NEW g, g = Container!reserve(s, n)
  PROVE  /\ IsVector(g) /\ g.size_ = s.size_ /\ g.capacity_ = n
         /\ \A y \in 1..n : g.cells[y] = IF y <= s.size_ THEN s.cells[y] ELSE [v |-> 0, alive |-> TRUE]
  <1>1. /\ s \in Buffers /\ s.size_ \in Nat /\ s.capacity_ \in Nat /\ s.size_ <= s.capacity_
        /\ s.cells \in Seq(CellSet) /\ Len(s.cells) = s.capacity_
    BY DEF IsVector, Buffers
  <1>2. PICK ce, d : /\ ce = [y \in 1..n |-> IF y <= s.size_ THEN s.cells[y] ELSE [v |-> 0, alive |-> TRUE]]
                     /\ d = Container!Fresh
    OBVIOUS
  <1>3. d \in Nat
    BY <1>2, FreshBuffer
  <1>4. g = [s EXCEPT !.data_ = d, !.capacity_ = n, !.cells = ce]
    BY <1>1, <1>2 DEF Container!reserve, Container!Cell, Container!Default
  <1>5. g = [data_ |-> d, cells |-> ce, size_ |-> s.size_, capacity_ |-> n]
    BY <1>1, <1>4 DEF Buffers
  <1>6. \A y \in 1..n : ce[y] \in CellSet
    <2>1. \A y \in 1..s.capacity_ : s.cells[y] \in CellSet
      BY <1>1, ElementOfSeq
    <2>2. \A y \in 1..n : y <= s.size_ => y \in 1..s.capacity_
      BY <1>1
    <2>3. [v |-> 0, alive |-> TRUE] \in CellSet
      BY DEF CellSet
    <2> QED BY <1>2, <2>1, <2>2, <2>3
  <1>7. ce \in Seq(CellSet) /\ Len(ce) = n
    BY <1>2, <1>6, CellsMade
  <1>8. \A y \in 1..n : y > s.size_ => ce[y].v = 0
    BY <1>1, <1>2
  <1>9. IsVector(g)
    BY <1>1, <1>3, <1>5, <1>7, <1>8, BufferOf
  <1> QED BY <1>2, <1>5, <1>9

LEMMA GrownIs ==
  ASSUME NEW s, IsVector(s), NEW g, g = Container!Grown(s)
  PROVE  /\ IsVector(g) /\ g.size_ = s.size_ /\ g.size_ < g.capacity_
         /\ Container!Contents(g) = Container!Contents(s) /\ (AllAlive(s) => AllAlive(g))
         /\ s.size_ # s.capacity_ => g = s
  <1>1. /\ s.size_ \in Nat /\ s.capacity_ \in Nat /\ s.size_ <= s.capacity_ /\ Len(s.cells) = s.capacity_
    BY DEF IsVector, Buffers
  <1>2. CASE s.size_ # s.capacity_
    BY <1>1, <1>2 DEF Container!Grown
  <1>3. CASE s.size_ = s.capacity_
    <2>1. PICK n : n = IF s.capacity_ = 0 THEN 1 ELSE s.capacity_ * 2
      OBVIOUS
    <2>2. n \in Nat /\ n > s.capacity_ /\ g = Container!reserve(s, n)
      BY <1>1, <1>3, <2>1 DEF Container!Grown
    <2>3. /\ IsVector(g) /\ g.size_ = s.size_ /\ g.capacity_ = n
          /\ \A y \in 1..n : g.cells[y] = IF y <= s.size_ THEN s.cells[y] ELSE [v |-> 0, alive |-> TRUE]
      BY <2>2, Reserved
    <2>4. Len(g.cells) = n
      BY <2>3 DEF IsVector
    <2>5. \A y \in 1..s.size_ : y \in 1..n /\ y <= s.size_ /\ y \in 1..Len(s.cells)
      BY <1>1, <2>2
    <2>6. \A y \in 1..s.size_ : g.cells[y] = s.cells[y]
      BY <2>3, <2>5
    <2>7. Container!Contents(g) = Container!Contents(s)
      BY <2>3, <2>6 DEF Container!Contents
    <2>8. ASSUME AllAlive(s), NEW y \in 1..n
          PROVE  g.cells[y].alive
      <3>1. CASE y <= s.size_
        <4>1. y \in 1..Len(s.cells) /\ g.cells[y] = s.cells[y]
          BY <1>1, <2>3, <2>8, <3>1
        <4> QED BY <2>8, <4>1 DEF AllAlive
      <3>2. CASE ~(y <= s.size_)
        <4>1. g.cells[y] = [v |-> 0, alive |-> TRUE]
          BY <2>3, <2>8, <3>2
        <4> QED BY <4>1
      <3> QED BY <3>1, <3>2
    <2>9. AllAlive(s) => AllAlive(g)
      BY <2>4, <2>8 DEF AllAlive
    <2> QED BY <1>1, <1>3, <2>2, <2>3, <2>7, <2>9
  <1> QED BY <1>2, <1>3

(* A cell next to the elements becomes one of them: the same buffer holds  *)
(* its value behind them.                                                  *)
LEMMA ElementAdded ==
  ASSUME NEW s, IsVector(s), s.size_ < s.capacity_, NEW ce \in Seq(CellSet), Len(ce) = s.capacity_,
         \A y \in 1..s.capacity_ : y # s.size_ + 1 => ce[y] = s.cells[y],
         NEW t, t = [data_ |-> s.data_, cells |-> ce, size_ |-> s.size_ + 1, capacity_ |-> s.capacity_]
  PROVE  /\ IsVector(t)
         /\ Container!Contents(t) = Append(Container!Contents(s), ce[s.size_ + 1].v)
         /\ ce[s.size_ + 1].v \in Elements \cup {0}
         /\ (AllAlive(s) /\ ce[s.size_ + 1].alive) => AllAlive(t)
  <1>1. PICK n, m : n = s.size_ /\ m = s.capacity_
    OBVIOUS
  <1>2. n \in Nat /\ m \in Nat /\ n < m /\ Len(s.cells) = m /\ s.data_ \in Nat /\ n + 1 \in 1..m
        /\ \A y \in 1..m : y > n => s.cells[y].v = 0
    BY <1>1 DEF IsVector, Buffers
  <1>3. IsVector(t)
    <2>1. \A y \in 1..m : y > n + 1 => ce[y].v = 0
      BY <1>1, <1>2
    <2>2. n + 1 \in Nat /\ n + 1 <= m
      BY <1>2
    <2> QED BY <1>1, <1>2, <2>1, <2>2, BufferOf
  <1>4. PICK p, q, x : p = Container!Contents(s) /\ q = Container!Contents(t) /\ x = ce[n + 1].v
    OBVIOUS
  <1>5. p \in Seq(Elements \cup {0}) /\ Len(p) = n /\ \A y \in 1..n : p[y] = s.cells[y].v
    BY <1>1, <1>4, Values1
  <1>6. q \in Seq(Elements \cup {0}) /\ Len(q) = n + 1 /\ \A y \in 1..n + 1 : q[y] = ce[y].v
    BY <1>1, <1>3, <1>4, Values1
  <1>7. n + 1 \in 1..n + 1 /\ \A y \in 1..n : y \in 1..n + 1 /\ y \in 1..m /\ y # n + 1
    BY <1>2
  <1>8. x \in Elements \cup {0}
    <2>1. n + 1 \in 1..Len(ce)
      BY <1>1, <1>2
    <2>2. ce[n + 1] \in CellSet
      BY <2>1, ElementOfSeq
    <2> QED BY <1>4, <2>2 DEF CellSet
  <1>9. q = Append(p, x)
    <2>1. PICK a : a = Append(p, x)
      OBVIOUS
    <2>2. a \in Seq(Elements \cup {0}) /\ Len(a) = n + 1 /\ a[n + 1] = x /\ \A y \in 1..n : a[y] = p[y]
      BY <1>5, <1>8, <2>1, AppendProperties
    <2>3. \A y \in 1..n : q[y] = p[y]
      BY <1>1, <1>5, <1>6, <1>7
    <2>4. \A y \in 1..n + 1 : y \in 1..n \/ y = n + 1
      BY <1>2
    <2>5. \A y \in 1..n + 1 : q[y] = a[y]
      BY <1>4, <1>6, <1>7, <2>2, <2>3, <2>4
    <2> QED BY <1>6, <2>1, <2>2, <2>5, SeqEqual
  <1>10. (AllAlive(s) /\ ce[n + 1].alive) => AllAlive(t)
    BY <1>1, <1>2 DEF AllAlive
  <1> QED BY <1>1, <1>3, <1>4, <1>8, <1>9, <1>10

LEMMA StoredIs ==
  ASSUME NEW s, IsVector(s), s.size_ < s.capacity_, NEW x \in Elements \cup {0}, NEW t, t = Container!Stored(s, x)
  PROVE  /\ IsVector(t) /\ t.data_ = s.data_ /\ t.size_ = s.size_ + 1 /\ (AllAlive(s) => AllAlive(t))
         /\ Container!Contents(t) = Append(Container!Contents(s), x)
  <1>1. PICK n, m : n = s.size_ /\ m = s.capacity_
    OBVIOUS
  <1>2. s \in Buffers /\ n \in Nat /\ m \in Nat /\ n < m /\ Len(s.cells) = m /\ n + 1 \in 1..m /\ s.cells \in Seq(CellSet)
    BY <1>1 DEF IsVector, Buffers
  <1>3. PICK f, h : f = s.cells[n + 1] /\ h = [s.cells[n + 1] EXCEPT !.v = x]
    OBVIOUS
  <1>4. f \in CellSet /\ h \in CellSet /\ h.v = x /\ h.alive = f.alive
    <2>1. f \in CellSet
      BY <1>2, <1>3, ElementOfSeq
    <2>2. PICK y, a : f = [v |-> y, alive |-> a] /\ a \in BOOLEAN
      BY <2>1 DEF CellSet
    <2>3. h = [v |-> x, alive |-> a]
      BY <1>3, <2>2
    <2>4. h.alive = a /\ f.alive = a
      <3>1. [v |-> x, alive |-> a].alive = a /\ [v |-> y, alive |-> a].alive = a
        OBVIOUS
      <3> QED BY <2>2, <2>3, <3>1, Zenon
    <2> QED BY <2>1, <2>2, <2>3, <2>4 DEF CellSet
  <1>5. PICK ce : ce = [s.cells EXCEPT ![n + 1] = h]
    OBVIOUS
  <1>6. ce \in Seq(CellSet) /\ Len(ce) = m /\ \A y \in 1..m : ce[y] = IF y = n + 1 THEN h ELSE s.cells[y]
    BY <1>2, <1>4, <1>5, ExceptSeq
  <1>7. t = [s EXCEPT !.size_ = n + 1, !.cells = ce]
    BY <1>1, <1>2, <1>3, <1>5 DEF Container!Stored, Buffers
  <1>8. t = [data_ |-> s.data_, cells |-> ce, size_ |-> n + 1, capacity_ |-> m]
    BY <1>1, <1>2, <1>7 DEF Buffers
  <1>9. ce[n + 1] = h
    BY <1>2, <1>6
  <1>10. /\ IsVector(t) /\ Container!Contents(t) = Append(Container!Contents(s), ce[n + 1].v)
         /\ (AllAlive(s) /\ ce[n + 1].alive) => AllAlive(t)
    BY <1>1, <1>2, <1>6, <1>8, ElementAdded
  <1>11. AllAlive(s) => ce[n + 1].alive
    <2>1. AllAlive(s) => f.alive
      BY <1>2, <1>3 DEF AllAlive
    <2> QED BY <1>4, <1>9, <2>1, Zenon
  <1>12. AllAlive(s) => AllAlive(t)
    BY <1>10, <1>11, Zenon
  <1> QED BY <1>1, <1>4, <1>8, <1>9, <1>10, <1>12

LEMMA PushedBack ==
  ASSUME NEW s, IsVector(s), NEW x \in Elements \cup {0}, NEW t, t = Container!PushBack(s, x)
  PROVE  /\ IsVector(t) /\ (AllAlive(s) => AllAlive(t))
         /\ Container!Contents(t) = Append(Container!Contents(s), x)
         /\ s.size_ # s.capacity_ => t.data_ = s.data_ /\ t.size_ = s.size_ + 1
  <1>1. PICK g : g = Container!Grown(s)
    OBVIOUS
  <1>2. /\ IsVector(g) /\ g.size_ < g.capacity_ /\ Container!Contents(g) = Container!Contents(s)
        /\ AllAlive(s) => AllAlive(g)
        /\ s.size_ # s.capacity_ => g = s
    BY <1>1, GrownIs
  <1>3. t = Container!Stored(g, x)
    BY <1>1 DEF Container!PushBack
  <1>4. /\ IsVector(t) /\ t.data_ = g.data_ /\ t.size_ = g.size_ + 1 /\ (AllAlive(g) => AllAlive(t))
        /\ Container!Contents(t) = Append(Container!Contents(g), x)
    BY <1>2, <1>3, StoredIs
  <1> QED BY <1>2, <1>4

(* A new container holds what it was made from: before the element at n it *)
(* is this buffer.                                                         *)
FillOf(q, d, n) ==
  [data_ |-> d, size_ |-> n, capacity_ |-> Len(q),
   cells |-> [y \in 1..Len(q) |-> [v |-> IF y <= n THEN q[y] ELSE 0, alive |-> TRUE]]]

LEMMA FillStart ==
  ASSUME NEW q \in Seq(Elements \cup {0}), NEW s, s = Container!reserve(Container!Empty, Len(q))
  PROVE  s.data_ \in Nat /\ s = FillOf(q, s.data_, 0)
  <1>1. PICK n : n = Len(q)
    OBVIOUS
  <1>2. n \in Nat
    BY <1>1
  <1>3. PICK d, ce : d = Container!Fresh /\ ce = [y \in 1..n |-> [v |-> 0, alive |-> TRUE]]
    OBVIOUS
  <1>4. FillOf(q, d, 0) = [data_ |-> d, size_ |-> 0, capacity_ |-> n, cells |-> ce]
    <2>1. \A y \in 1..n : ~(y <= 0)
      BY <1>2
    <2> QED BY <1>1, <1>3, <2>1 DEF FillOf
  <1>5. Container!Empty = [data_ |-> 0, cells |-> <<>>, size_ |-> 0, capacity_ |-> 0]
    BY DEF Container!Empty, Container!nullptr
  <1>6. CASE n = 0
    <2>1. s = Container!Empty
      BY <1>1, <1>5, <1>6 DEF Container!reserve
    <2>2. FillOf(q, 0, 0) = [data_ |-> 0, size_ |-> 0, capacity_ |-> 0, cells |-> <<>>]
      BY <1>1, <1>6 DEF FillOf
    <2> QED BY <1>5, <2>1, <2>2
  <1>7. CASE n # 0
    <2>1. s = [Container!Empty EXCEPT !.data_ = d, !.capacity_ = n,
                 !.cells = [y \in 1..n |-> IF y <= 0 THEN Container!Empty.cells[y] ELSE [v |-> 0, alive |-> TRUE]]]
      BY <1>1, <1>2, <1>3, <1>5, <1>7 DEF Container!reserve, Container!Cell, Container!Default
    <2>2. ce = [y \in 1..n |-> IF y <= 0 THEN Container!Empty.cells[y] ELSE [v |-> 0, alive |-> TRUE]]
      <3>1. \A y \in 1..n : ~(y <= 0)
        BY <1>2
      <3> QED BY <1>3, <3>1
    <2>3. s = [data_ |-> d, cells |-> ce, size_ |-> 0, capacity_ |-> n]
      BY <1>5, <2>1, <2>2
    <2> QED BY <1>3, <1>4, <2>3, FreshBuffer
  <1> QED BY <1>6, <1>7

LEMMA ValueStored ==
  ASSUME NEW x, NEW y, NEW a
  PROVE  [[v |-> x, alive |-> a] EXCEPT !.v = y] = [v |-> y, alive |-> a]
  OBVIOUS

LEMMA FillNext ==
  ASSUME NEW q \in Seq(Elements \cup {0}), NEW d \in Nat, NEW n \in 1..Len(q)
  PROVE  Container!PushBack(FillOf(q, d, n - 1), q[n]) = FillOf(q, d, n)
  <1>1. PICK s, m : s = FillOf(q, d, n - 1) /\ m = Len(q)
    OBVIOUS
  <1>2. m \in Nat /\ n \in 1..m /\ n - 1 # m /\ n - 1 + 1 = n
    BY <1>1
  <1>3. PICK ce : ce = [y \in 1..m |-> [v |-> IF y <= n - 1 THEN q[y] ELSE 0, alive |-> TRUE]]
    OBVIOUS
  <1>4. s = [data_ |-> d, size_ |-> n - 1, capacity_ |-> m, cells |-> ce]
    BY <1>1, <1>3 DEF FillOf
  <1>5. Container!Grown(s) = s
    BY <1>2, <1>4 DEF Container!Grown
  <1>6. PICK h : h = [ce EXCEPT ![n] = [ce[n] EXCEPT !.v = q[n]]]
    OBVIOUS
  <1>7. Container!PushBack(s, q[n]) = [data_ |-> d, size_ |-> n, capacity_ |-> m, cells |-> h]
    <2>1. Container!PushBack(s, q[n]) = [s EXCEPT !.size_ = @ + 1, !.cells[n].v = q[n]]
      <3>1. s.size_ + 1 = n
        BY <1>2, <1>4
      <3>2. Container!PushBack(s, q[n]) = [s EXCEPT !.size_ = @ + 1, !.cells[s.size_ + 1].v = q[n]]
        BY <1>5 DEF Container!PushBack, Container!Stored
      <3> QED BY <3>1, <3>2, Zenon
    <2>2. [s EXCEPT !.size_ = @ + 1, !.cells[n].v = q[n]] = [s EXCEPT !.size_ = n, !.cells = h]
      BY <1>2, <1>4, <1>6
    <2> QED BY <1>4, <2>1, <2>2
  <1>8. ce[n] = [v |-> 0, alive |-> TRUE]
    <2>1. ~(n <= n - 1)
      BY <1>2
    <2>2. ce[n] = [v |-> IF n <= n - 1 THEN q[n] ELSE 0, alive |-> TRUE]
      BY <1>2, <1>3
    <2> QED BY <2>1, <2>2, Zenon
  <1>9. h = [y \in 1..m |-> [v |-> IF y <= n THEN q[y] ELSE 0, alive |-> TRUE]]
    <2>1. [ce[n] EXCEPT !.v = q[n]] = [v |-> q[n], alive |-> TRUE]
      <3>1. [[v |-> 0, alive |-> TRUE] EXCEPT !.v = q[n]] = [v |-> q[n], alive |-> TRUE]
        BY ValueStored, Zenon
      <3> QED BY <1>8, <3>1, Zenon
    <2>2. ASSUME NEW y \in 1..m, y # n
          PROVE  (y <= n - 1 <=> y <= n)
      BY <1>2, <2>2
    <2>3. h = [y \in 1..m |-> IF y = n THEN [v |-> q[n], alive |-> TRUE] ELSE ce[y]]
      BY <1>2, <1>3, <1>6, <2>1
    <2>4. n <= n
      BY <1>2
    <2> QED BY <1>3, <2>2, <2>3, <2>4
  <1> QED BY <1>1, <1>7, <1>9 DEF FillOf

LEMMA FilledIs ==
  ASSUME NEW q \in Seq(Elements \cup {0}), NEW s, s = Container!Filled(q)
  PROVE  IsVector(s) /\ AllAlive(s) /\ Container!Contents(s) = q
  <1>1. PICK N, b, d : N = Len(q) /\ b = Container!reserve(Container!Empty, Len(q)) /\ d = b.data_
    OBVIOUS
  <1>2. N \in Nat /\ d \in Nat /\ b = FillOf(q, d, 0)
    BY <1>1, FillStart
  <1> DEFINE fil(n) == FillOf(q, d, n)
             step(t, x) == Container!PushBack(t, x)
             W == [n \in 0..N |-> fil(n)]
             Fills(w) == w = [n \in 0..N |-> IF n = 0 THEN b ELSE step(w[n - 1], q[n])]
             Made == CHOOSE w : Fills(w)
  <1>3. s = Made[N]
    BY <1>1 DEF Container!Filled
  <1>4. ASSUME NEW n \in 1..N
        PROVE  step(fil(n - 1), q[n]) = fil(n)
    BY <1>1, <1>2, <1>4, FillNext
  <1>5. fil(0) = b
    BY <1>2
  <1> HIDE DEF fil, step
  <1>6. Fills(W)
    <2>1. \A n \in 0..N : fil(n) = IF n = 0 THEN b ELSE step(W[n - 1], q[n])
      <3>1. SUFFICES ASSUME NEW n \in 1..N PROVE fil(n) = step(W[n - 1], q[n])
        BY <1>5
      <3>2. n - 1 \in 0..N
        BY <1>2, <3>1
      <3> QED BY <1>4, <3>1, <3>2
    <2> QED BY <2>1
  <1>7. PICK w : w = Made /\ Fills(w)
    <2> HIDE DEF Fills, W
    <2> QED BY <1>6
  <1> HIDE DEF Made
  <1>8. \A n \in 0..N : w[n] = IF n = 0 THEN b ELSE step(w[n - 1], q[n])
    BY <1>7
  <1> DEFINE T == {n \in 0..N : w[n] # fil(n)}
  <1>9. ASSUME T # {}
        PROVE  FALSE
    <2>1. \E z \in T : \A y \in T : z <= y
      <3>1. T \subseteq Nat
        OBVIOUS
      <3> HIDE DEF T
      <3> QED BY <1>9, <3>1, LeastNumber
    <2>2. PICK z \in T : \A y \in T : z <= y
      BY <2>1
    <2>3. z \in 0..N /\ w[z] # fil(z)
      OBVIOUS
    <2>4. z # 0
      BY <1>5, <1>8, <2>3
    <2>5. z - 1 \in 0..N /\ z - 1 \notin T /\ z \in 1..N
      BY <1>2, <2>2, <2>3, <2>4
    <2>6. w[z - 1] = fil(z - 1)
      BY <2>5
    <2>7. w[z] = step(fil(z - 1), q[z])
      BY <1>8, <2>3, <2>4, <2>6
    <2> QED BY <1>4, <2>3, <2>5, <2>7
  <1>10. s = FillOf(q, d, N)
    <2>1. N \in 0..N
      BY <1>2
    <2> QED BY <1>3, <1>7, <1>9, <2>1 DEF fil
  <1>11. PICK ce : ce = [y \in 1..N |-> [v |-> q[y], alive |-> TRUE]]
    OBVIOUS
  <1>12. s = [data_ |-> d, cells |-> ce, size_ |-> N, capacity_ |-> N]
    <2>1. \A y \in 1..N : y <= N
      BY <1>2
    <2> QED BY <1>1, <1>10, <1>11, <2>1 DEF FillOf
  <1>13. \A y \in 1..N : ce[y] \in CellSet /\ ce[y].v = q[y] /\ ce[y].alive
    <2>1. \A y \in 1..N : q[y] \in Elements \cup {0}
      BY <1>1, ElementOfSeq
    <2> QED BY <1>11, <2>1 DEF CellSet
  <1>14. ce \in Seq(CellSet) /\ Len(ce) = N
    BY <1>2, <1>11, <1>13, CellsMade
  <1>15. \A y \in 1..N : ~(y > N)
    BY <1>2
  <1>16. IsVector(s) /\ AllAlive(s)
    <2>1. IsVector(s)
      BY <1>2, <1>12, <1>14, <1>15, BufferOf
    <2>2. AllAlive(s)
      BY <1>12, <1>13, <1>14 DEF AllAlive
    <2> QED BY <2>1, <2>2
  <1>17. Container!Contents(s) = q
    <2>1. Container!Contents(s) = [y \in 1..N |-> q[y]]
      BY <1>12, <1>13 DEF Container!Contents
    <2> QED BY <1>1, <2>1
  <1> QED BY <1>16, <1>17

(* An operation leaves both containers as they were, or one of them has a  *)
(* new state s; the iterator is forgotten if it points nowhere.            *)
Settled ==
  /\ nontrivial' = nontrivial /\ plain' = plain
  /\ it' = IF Container!PointsInto(obj', it) THEN it ELSE Container!NoIterator

LEMMA Settles ==
  ASSUME NEW bad, NEW new, Container!Result(bad, new)
  PROVE  Settled /\ (obj' = obj \/ obj' = new) /\ (undefined' => bad)
  BY DEF Container!Result, Settled

LEMMA ContainerInit == Init => ContainerInv
  <1> SUFFICES ASSUME Init PROVE ContainerInv
    OBVIOUS
  <1>1. /\ obj = [c \in Container!Containers |-> Container!Empty] /\ it = Container!NoIterator
        /\ undefined = FALSE /\ leaked = FALSE
    BY DEF Init, Container!Init
  <1>2. \A c \in Container!Containers : obj[c] = Container!Empty
    BY <1>1
  <1>3. \A c \in Container!Containers : IsVector(obj[c]) /\ AllAlive(obj[c])
    BY <1>2, EmptyVector
  <1>4. obj = [c \in Container!Containers |-> obj[c]]
    BY <1>1
  <1>5. it.pos \in Nat
    BY <1>1 DEF Container!NoIterator
  <1> QED BY <1>1, <1>3, <1>4, <1>5 DEF ContainerInv

LEMMA BothSettle ==
  ASSUME ContainerInv, Settled, NEW new, obj' = obj \/ obj' = new,
         new = [c \in Container!Containers |-> new[c]], \A c \in Container!Containers : IsVector(new[c]),
         plain => ~undefined' /\ ~leaked',
         (plain /\ nontrivial) => \A c \in Container!Containers : AllAlive(new[c])
  PROVE  ContainerInv'
  <1>1. /\ obj' = [c \in Container!Containers |-> obj'[c]]
        /\ \A c \in Container!Containers : IsVector(obj'[c])
    BY DEF ContainerInv
  <1>2. it'.pos \in Nat /\ (it' = Container!NoIterator \/ Container!PointsInto(obj', it'))
    BY DEF Settled, ContainerInv, Container!NoIterator
  <1>3. (plain /\ nontrivial) => \A c \in Container!Containers : AllAlive(obj'[c])
    BY DEF ContainerInv
  <1>4. nontrivial' = nontrivial /\ plain' = plain
    BY DEF Settled
  <1> QED BY <1>1, <1>2, <1>3, <1>4 DEF ContainerInv

Changed(c, s) ==
  /\ Settled /\ IsVector(s) /\ (obj' = obj \/ obj' = [obj EXCEPT ![c] = s])
  /\ plain => ~undefined' /\ ~leaked'
  /\ (plain /\ nontrivial) => AllAlive(s)

LEMMA OneSettles ==
  ASSUME ContainerInv, NEW c \in Container!Containers, NEW s, Changed(c, s)
  PROVE  ContainerInv'
  <1>1. PICK new : new = [obj EXCEPT ![c] = s]
    OBVIOUS
  <1>2. obj = [d \in Container!Containers |-> obj[d]]
    BY DEF ContainerInv
  <1>3. new = [d \in Container!Containers |-> IF d = c THEN s ELSE obj[d]]
    BY <1>1, <1>2
  <1>4. new = [d \in Container!Containers |-> new[d]] /\ \A d \in Container!Containers : new[d] = IF d = c THEN s ELSE obj[d]
    BY <1>3
  <1>5. \A d \in Container!Containers : IsVector(new[d])
    BY <1>4 DEF ContainerInv, Changed
  <1>6. (plain /\ nontrivial) => \A d \in Container!Containers : AllAlive(new[d])
    BY <1>4 DEF ContainerInv, Changed
  <1>7. obj' = obj \/ obj' = new
    BY <1>1 DEF Changed
  <1>8. Settled /\ (plain => ~undefined' /\ ~leaked')
    BY DEF Changed
  <1> QED BY <1>4, <1>5, <1>6, <1>7, <1>8, BothSettle

(* What the containers hold, as sequences.                                 *)
Held(o) == [c \in Container!Containers |-> Container!Contents(o[c])]

LEMMA HeldChanges ==
  ASSUME ContainerInv, NEW c \in Container!Containers, NEW s, Changed(c, s), NEW q, Container!Contents(s) = q
  PROVE  Held(obj)' = Held(obj) \/ Held(obj)' = [Held(obj) EXCEPT ![c] = q]
  <1>1. PICK new : new = [obj EXCEPT ![c] = s]
    OBVIOUS
  <1>2. obj = [d \in Container!Containers |-> obj[d]]
    BY DEF ContainerInv
  <1>3. \A d \in Container!Containers : new[d] = IF d = c THEN s ELSE obj[d]
    BY <1>1, <1>2
  <1>4. Held(new) = [Held(obj) EXCEPT ![c] = q]
    BY <1>3 DEF Held
  <1>5. obj' = obj \/ obj' = new
    BY <1>1 DEF Changed
  <1>6. Held(obj)' = Held(obj')
    BY DEF Held
  <1> QED BY <1>4, <1>5, <1>6

LEMMA NothingDead ==
  ASSUME ContainerInv, plain, NEW c \in Container!Containers
  PROVE  ~Container!DeadCells(obj[c]) /\ ~Container!DeadNext(obj[c])
  <1>1. PICK s : s = obj[c]
    OBVIOUS
  <1>2. IsVector(s) /\ (nontrivial => AllAlive(s))
    BY <1>1 DEF ContainerInv
  <1>3. /\ s.cells \in Seq(CellSet) /\ s.size_ \in Nat /\ s.capacity_ \in Nat /\ Len(s.cells) = s.capacity_
    BY <1>2 DEF IsVector, Buffers
  <1>4. nontrivial => \A y \in 1..s.capacity_ : s.cells[y].alive
    BY <1>2, <1>3 DEF AllAlive
  <1>5. DOMAIN s.cells = 1..s.capacity_
    BY <1>3
  <1>6. ~Container!DeadCells(s)
    BY <1>4, <1>5 DEF Container!DeadCells
  <1>7. s.size_ < s.capacity_ => s.size_ + 1 \in 1..s.capacity_
    BY <1>3
  <1>8. ~Container!DeadNext(s)
    BY <1>4, <1>7 DEF Container!DeadNext
  <1> QED BY <1>1, <1>6, <1>8

LEMMA VectorsNow ==
  ASSUME ContainerInv, NEW c \in Container!Containers
  PROVE  /\ IsVector(obj[c]) /\ ((plain /\ nontrivial) => AllAlive(obj[c])) /\ (plain => ~leaked)
         /\ obj[c].size_ \in Nat /\ obj[c].capacity_ \in Nat /\ obj[c].size_ <= obj[c].capacity_
         /\ obj[c].cells \in Seq(CellSet) /\ Len(obj[c].cells) = obj[c].capacity_
         /\ obj[c].data_ \in Nat
         /\ obj[c] = [data_ |-> obj[c].data_, cells |-> obj[c].cells, size_ |-> obj[c].size_, capacity_ |-> obj[c].capacity_]
  <1>1. IsVector(obj[c]) /\ ((plain /\ nontrivial) => AllAlive(obj[c])) /\ (plain => ~leaked)
    BY DEF ContainerInv
  <1> QED BY <1>1 DEF IsVector, Buffers

LEMMA PushBackChanges ==
  ASSUME ContainerInv, NEW c \in Container!Containers, Container!push_back(c)
  PROVE  \E x, s : /\ x \in Elements /\ Changed(c, s)
                   /\ Container!Contents(s) = Append(Container!Contents(obj[c]), x)
  <1>1. PICK x \in Elements :
          /\ Container!Result(Container!DeadNext(obj[c]) \/ (Container!Full(obj[c]) /\ Container!DeadCells(obj[c])),
                              [obj EXCEPT ![c] = Container!PushBack(obj[c], x)])
          /\ leaked' = leaked
    BY DEF Container!push_back
  <1>2. PICK s : s = Container!PushBack(obj[c], x)
    OBVIOUS
  <1>3. /\ Settled /\ (obj' = obj \/ obj' = [obj EXCEPT ![c] = s])
        /\ undefined' => Container!DeadNext(obj[c]) \/ (Container!Full(obj[c]) /\ Container!DeadCells(obj[c]))
    BY <1>1, <1>2, Settles
  <1>4. IsVector(obj[c]) /\ ((plain /\ nontrivial) => AllAlive(obj[c])) /\ (plain => ~leaked)
    BY VectorsNow
  <1>5. /\ IsVector(s) /\ (AllAlive(obj[c]) => AllAlive(s))
        /\ Container!Contents(s) = Append(Container!Contents(obj[c]), x)
    BY <1>2, <1>4, PushedBack
  <1>6. plain => ~undefined' /\ ~leaked'
    BY <1>1, <1>3, <1>4, NothingDead
  <1>7. (plain /\ nontrivial) => AllAlive(s)
    BY <1>4, <1>5
  <1> QED BY <1>3, <1>5, <1>6, <1>7 DEF Changed

LEMMA ThrowChanges ==
  ASSUME ContainerInv, NEW c \in Container!Containers, Container!push_back_throws(c)
  PROVE  \E s : /\ Changed(c, s)
                /\ Container!Contents(s) = Append(Container!Contents(obj[c]), 0)
  <1>1. PICK g : g = Container!Grown(obj[c])
    OBVIOUS
  <1>2. PICK s : s = [g EXCEPT !.size_ = @ + 1]
    OBVIOUS
  <1>3. /\ Container!Result(Container!DeadNext(obj[c]) \/ (Container!Full(obj[c]) /\ Container!DeadCells(obj[c])),
                            [obj EXCEPT ![c] = s])
        /\ leaked' = leaked
    BY <1>1, <1>2 DEF Container!push_back_throws
  <1>4. /\ Settled /\ (obj' = obj \/ obj' = [obj EXCEPT ![c] = s])
        /\ undefined' => Container!DeadNext(obj[c]) \/ (Container!Full(obj[c]) /\ Container!DeadCells(obj[c]))
    BY <1>3, Settles
  <1>5. IsVector(obj[c]) /\ ((plain /\ nontrivial) => AllAlive(obj[c])) /\ (plain => ~leaked)
    BY VectorsNow
  <1>6. /\ IsVector(g) /\ g.size_ < g.capacity_ /\ Container!Contents(g) = Container!Contents(obj[c])
        /\ AllAlive(obj[c]) => AllAlive(g)
    BY <1>1, <1>5, GrownIs
  <1>7. PICK ce : ce = g.cells
    OBVIOUS
  <1>8. /\ ce \in Seq(CellSet) /\ Len(ce) = g.capacity_ /\ g \in Buffers /\ g.size_ + 1 \in 1..Len(ce)
        /\ ce[g.size_ + 1].v = 0
    <2>1. /\ g \in Buffers /\ g.size_ \in Nat /\ g.capacity_ \in Nat /\ ce \in Seq(CellSet) /\ Len(ce) = g.capacity_
          /\ \A y \in 1..g.capacity_ : y > g.size_ => ce[y].v = 0
      BY <1>6, <1>7 DEF IsVector, Buffers
    <2>2. g.size_ + 1 \in 1..g.capacity_ /\ g.size_ + 1 > g.size_
      BY <1>6, <2>1
    <2> QED BY <2>1, <2>2
  <1>9. s = [data_ |-> g.data_, cells |-> ce, size_ |-> g.size_ + 1, capacity_ |-> g.capacity_]
    BY <1>2, <1>7, <1>8 DEF Buffers
  <1>10. \A y \in 1..g.capacity_ : y # g.size_ + 1 => ce[y] = g.cells[y]
    BY <1>7
  <1>11. /\ IsVector(s) /\ Container!Contents(s) = Append(Container!Contents(g), ce[g.size_ + 1].v)
         /\ (AllAlive(g) /\ ce[g.size_ + 1].alive) => AllAlive(s)
    BY <1>6, <1>8, <1>9, <1>10, ElementAdded
  <1>12. AllAlive(g) => ce[g.size_ + 1].alive
    BY <1>7, <1>8 DEF AllAlive
  <1>13. (plain /\ nontrivial) => AllAlive(s)
    BY <1>5, <1>6, <1>11, <1>12, Zenon
  <1>14. Container!Contents(s) = Append(Container!Contents(obj[c]), 0)
    BY <1>6, <1>8, <1>11
  <1>15. plain => ~undefined' /\ ~leaked'
    BY <1>3, <1>4, <1>5, NothingDead
  <1>16. Changed(c, s)
    BY <1>4, <1>11, <1>13, <1>15 DEF Changed
  <1> QED BY <1>14, <1>16

LEMMA OwnChanges ==
  ASSUME ContainerInv, NEW c \in Container!Containers, Container!push_back_own(c)
  PROVE  \E x, s : /\ x \in Elements \cup {0} /\ Changed(c, s)
                   /\ Container!Contents(s) = Append(Container!Contents(obj[c]), x)
  <1>1. PICK z \in 1..obj[c].size_ :
          /\ Container!Result(Container!DeadNext(obj[c]) \/ Container!Full(obj[c]),
                              [obj EXCEPT ![c] = Container!PushBack(obj[c], obj[c].cells[z].v)])
          /\ ~plain
    BY DEF Container!push_back_own
  <1>2. PICK x, s : x = obj[c].cells[z].v /\ s = Container!PushBack(obj[c], x)
    OBVIOUS
  <1>3. IsVector(obj[c])
    BY VectorsNow
  <1>4. x \in Elements \cup {0}
    <2>0. /\ obj[c].size_ \in Nat /\ obj[c].capacity_ \in Nat /\ obj[c].size_ <= obj[c].capacity_
          /\ obj[c].cells \in Seq(CellSet) /\ Len(obj[c].cells) = obj[c].capacity_
      BY VectorsNow
    <2>1. z \in 1..Len(obj[c].cells) /\ obj[c].cells \in Seq(CellSet)
      BY <2>0
    <2>2. obj[c].cells[z] \in CellSet
      BY <2>1, ElementOfSeq
    <2> QED BY <1>2, <2>2 DEF CellSet
  <1>5. /\ IsVector(s) /\ Container!Contents(s) = Append(Container!Contents(obj[c]), x)
    BY <1>2, <1>3, <1>4, PushedBack
  <1>6. Settled /\ (obj' = obj \/ obj' = [obj EXCEPT ![c] = s])
    BY <1>1, <1>2, Settles
  <1>7. Changed(c, s)
    BY <1>1, <1>5, <1>6 DEF Changed
  <1> QED BY <1>4, <1>5, <1>7

LEMMA EmplaceChanges ==
  ASSUME ContainerInv, NEW c \in Container!Containers, Container!emplace_back(c)
  PROVE  \E x, s : /\ x \in Elements /\ Changed(c, s)
                   /\ Container!Contents(s) = Append(Container!Contents(obj[c]), x)
  <1>1. PICK g : g = Container!Grown(obj[c])
    OBVIOUS
  <1>2. PICK x \in Elements :
          /\ ~(plain /\ nontrivial)
          /\ leaked' = (leaked \/ (nontrivial /\ g.cells[g.size_ + 1].alive))
          /\ Container!Result(Container!Full(obj[c]) /\ Container!DeadCells(obj[c]),
               [obj EXCEPT ![c] = [g EXCEPT !.size_ = g.size_ + 1, !.cells[g.size_ + 1] = Container!Cell(x)]])
    BY <1>1, Zenon DEF Container!emplace_back, Container!Risky
  <1>3. PICK h, ce, s : /\ h = Container!Cell(x) /\ ce = [g.cells EXCEPT ![g.size_ + 1] = h]
                        /\ s = [g EXCEPT !.size_ = g.size_ + 1, !.cells[g.size_ + 1] = h]
    BY Zenon
  <1>4. /\ Settled /\ (obj' = obj \/ obj' = [obj EXCEPT ![c] = s])
        /\ undefined' => Container!Full(obj[c]) /\ Container!DeadCells(obj[c])
    BY <1>2, <1>3, Settles
  <1>5. IsVector(obj[c]) /\ (plain => ~leaked)
    BY VectorsNow
  <1>6. IsVector(g) /\ g.size_ < g.capacity_ /\ Container!Contents(g) = Container!Contents(obj[c])
    BY <1>1, <1>5, GrownIs
  <1>7. /\ g \in Buffers /\ g.size_ \in Nat /\ g.capacity_ \in Nat /\ g.cells \in Seq(CellSet)
        /\ Len(g.cells) = g.capacity_ /\ g.size_ + 1 \in 1..g.capacity_
    BY <1>6 DEF IsVector, Buffers
  <1>8. h \in CellSet /\ h.v = x
    <2>1. h = [v |-> x, alive |-> TRUE]
      BY <1>3 DEF Container!Cell
    <2> QED BY <2>1 DEF CellSet
  <1>9. ce \in Seq(CellSet) /\ Len(ce) = g.capacity_
        /\ \A y \in 1..g.capacity_ : ce[y] = IF y = g.size_ + 1 THEN h ELSE g.cells[y]
    BY <1>3, <1>7, <1>8, ExceptSeq
  <1>10. s = [data_ |-> g.data_, cells |-> ce, size_ |-> g.size_ + 1, capacity_ |-> g.capacity_]
    <2>1. s = [g EXCEPT !.size_ = g.size_ + 1, !.cells = ce]
      BY <1>3, <1>7 DEF Buffers
    <2> QED BY <1>7, <2>1 DEF Buffers
  <1>11. \A y \in 1..g.capacity_ : y # g.size_ + 1 => ce[y] = g.cells[y]
    BY <1>9
  <1>12. IsVector(s) /\ Container!Contents(s) = Append(Container!Contents(g), ce[g.size_ + 1].v)
    BY <1>6, <1>9, <1>10, <1>11, ElementAdded
  <1>13. Container!Contents(s) = Append(Container!Contents(obj[c]), x)
    BY <1>6, <1>7, <1>8, <1>9, <1>12
  <1>14. plain => ~undefined' /\ ~leaked'
    BY <1>2, <1>4, <1>5, NothingDead
  <1>15. Changed(c, s)
    BY <1>2, <1>4, <1>12, <1>14 DEF Changed
  <1> QED BY <1>13, <1>15

(* The first n elements stay and the cells behind them hold no element.    *)
ShortOf(t, s, n) ==
  IsVector(t) /\ Container!Contents(t) = SubSeq(Container!Contents(s), 1, n)
ShortCells(ce, s, n, m) ==
  /\ n \in Nat /\ m \in Nat /\ n <= s.size_ /\ n <= m /\ ce \in Seq(CellSet) /\ Len(ce) = m
  /\ \A y \in 1..m : y > n => ce[y].v = 0
  /\ \A y \in 1..n : ce[y] = s.cells[y]

LEMMA Shortened ==
  ASSUME NEW s, IsVector(s), NEW n, NEW m, NEW d \in Nat, NEW ce, ShortCells(ce, s, n, m),
         NEW t, t = [data_ |-> d, cells |-> ce, size_ |-> n, capacity_ |-> m]
  PROVE  ShortOf(t, s, n)
  <1> SUFFICES IsVector(t) /\ Container!Contents(t) = SubSeq(Container!Contents(s), 1, n)
    BY DEF ShortOf
  <1> USE DEF ShortCells
  <1>1. IsVector(t)
    BY BufferOf
  <1>2. PICK q, p, z : z = s.size_ /\ q = Container!Contents(s) /\ p = Container!Contents(t)
    OBVIOUS
  <1>3. q \in Seq(Elements \cup {0}) /\ Len(q) = z /\ \A y \in 1..z : q[y] = s.cells[y].v
    BY <1>2, Values1
  <1>4. p \in Seq(Elements \cup {0}) /\ Len(p) = n /\ \A y \in 1..n : p[y] = ce[y].v
    BY <1>1, <1>2, Values1
  <1>5. z \in Nat /\ n <= z /\ \A y \in 1..n : y \in 1..z
    BY <1>2 DEF IsVector, Buffers
  <1>6. PICK w : w = SubSeq(q, 1, n)
    OBVIOUS
  <1>7. w \in Seq(Elements \cup {0}) /\ Len(w) = n /\ \A y \in 1..n : w[y] = q[y]
    BY <1>3, <1>5, <1>6, SubSeqProperties
  <1>8. \A y \in 1..n : p[y] = w[y]
    BY <1>3, <1>4, <1>5, <1>7
  <1>9. p = w
    BY <1>4, <1>7, <1>8, SeqEqual
  <1> QED BY <1>1, <1>2, <1>6, <1>9

LEMMA DeadIsCell == Container!Dead \in CellSet /\ Container!Dead.v = 0
  <1>1. PICK a : a = ~nontrivial /\ a \in BOOLEAN
    OBVIOUS
  <1>2. Container!Dead = [v |-> 0, alive |-> a]
    BY <1>1 DEF Container!Dead, Container!Default
  <1> QED BY <1>1, <1>2 DEF CellSet

LEMMA PopChanges ==
  ASSUME ContainerInv, NEW c \in Container!Containers, Container!pop_back(c)
  PROVE  /\ Container!Contents(obj[c]) # <<>>
         /\ \E s : /\ Changed(c, s)
                   /\ Container!Contents(s)
                        = SubSeq(Container!Contents(obj[c]), 1, Len(Container!Contents(obj[c])) - 1)
  <1>1. PICK b, n, m, d : b = obj[c].cells /\ n = obj[c].size_ /\ m = obj[c].capacity_ /\ d = obj[c].data_
    OBVIOUS
  <1>2. /\ IsVector(obj[c]) /\ (plain => ~leaked) /\ n \in Nat /\ m \in Nat /\ d \in Nat /\ n <= m
        /\ b \in Seq(CellSet) /\ Len(b) = m
        /\ obj[c] = [data_ |-> d, cells |-> b, size_ |-> n, capacity_ |-> m]
    BY <1>1, VectorsNow
  <1>3. PICK h, ce, s : /\ h = Container!Dead /\ ce = [b EXCEPT ![n] = h]
                        /\ s = [data_ |-> d, cells |-> ce, size_ |-> n - 1, capacity_ |-> m]
    OBVIOUS
  <1>4. /\ n > 0 /\ ~(plain /\ nontrivial) /\ leaked' = leaked
        /\ Container!Result(FALSE, [obj EXCEPT ![c].size_ = @ - 1, ![c].cells[n] = h])
    BY <1>1, <1>3 DEF Container!pop_back, Container!Risky
  <1>5. [obj EXCEPT ![c].size_ = @ - 1, ![c].cells[n] = h] = [obj EXCEPT ![c] = s]
    <2>1. [obj[c] EXCEPT !.size_ = @ - 1, !.cells[n] = h] = s
      <3>1. PICK o : o = [data_ |-> d, cells |-> b, size_ |-> n, capacity_ |-> m]
        OBVIOUS
      <3>2. [o EXCEPT !.size_ = @ - 1, !.cells[n] = h] = [o EXCEPT !.size_ = n - 1, !.cells = ce]
        BY <1>3, <3>1
      <3>3. PICK p : p = [data_ |-> d, cells |-> b, size_ |-> n - 1, capacity_ |-> m]
        OBVIOUS
      <3>4. [o EXCEPT !.size_ = n - 1] = p
        BY <3>1, <3>3
      <3>5. [p EXCEPT !.cells = ce] = s
        BY <1>3, <3>3
      <3>6. [o EXCEPT !.size_ = n - 1, !.cells = ce] = s
        BY <3>4, <3>5, Zenon
      <3> QED BY <1>2, <3>1, <3>2, <3>6, Zenon
    <2>2. obj = [x \in Container!Containers |-> obj[x]]
      BY DEF ContainerInv
    <2> QED BY <2>1, <2>2
  <1>6. Settled /\ (obj' = obj \/ obj' = [obj EXCEPT ![c] = s]) /\ ~undefined'
    BY <1>4, <1>5, Settles
  <1>7. h \in CellSet /\ h.v = 0
    BY <1>3, DeadIsCell
  <1>8. n \in 1..m /\ n - 1 \in Nat /\ n - 1 <= n /\ n - 1 <= m
    BY <1>2, <1>4
  <1>9. ce \in Seq(CellSet) /\ Len(ce) = m /\ \A y \in 1..m : ce[y] = IF y = n THEN h ELSE b[y]
    BY <1>2, <1>3, <1>7, <1>8, ExceptSeq
  <1>10. \A y \in 1..m : y > n - 1 => ce[y].v = 0
    <2>1. \A y \in 1..m : y > n => b[y].v = 0
      BY <1>1, <1>2 DEF IsVector
    <2>2. \A y \in 1..m : y > n - 1 => y = n \/ y > n
      BY <1>8
    <2> QED BY <1>7, <1>9, <2>1, <2>2
  <1>11. \A y \in 1..n - 1 : ce[y] = b[y]
    <2>1. \A y \in 1..n - 1 : y \in 1..m /\ y # n
      BY <1>2, <1>8
    <2> QED BY <1>9, <2>1
  <1>12. IsVector(s) /\ Container!Contents(s) = SubSeq(Container!Contents(obj[c]), 1, n - 1)
    <2>1. ShortCells(ce, obj[c], n - 1, m)
      BY <1>1, <1>2, <1>8, <1>9, <1>10, <1>11 DEF ShortCells
    <2>2. ShortOf(s, obj[c], n - 1)
      BY <1>2, <1>3, <2>1, Shortened
    <2> QED BY <2>2 DEF ShortOf
  <1>13. Len(Container!Contents(obj[c])) = n
    BY <1>1, <1>2, Values1
  <1>14. Container!Contents(obj[c]) # <<>>
    BY <1>4, <1>13
  <1>15. Changed(c, s)
    BY <1>2, <1>4, <1>6, <1>12 DEF Changed
  <1> QED BY <1>12, <1>13, <1>14, <1>15

LEMMA ClearChanges ==
  ASSUME ContainerInv, NEW c \in Container!Containers, Container!clear(c)
  PROVE  \E s : Changed(c, s) /\ Container!Contents(s) = <<>>
  <1>1. PICK b, n, m, d : b = obj[c].cells /\ n = obj[c].size_ /\ m = obj[c].capacity_ /\ d = obj[c].data_
    OBVIOUS
  <1>2. /\ IsVector(obj[c]) /\ (plain => ~leaked) /\ n \in Nat /\ m \in Nat /\ d \in Nat /\ n <= m
        /\ b \in Seq(CellSet) /\ Len(b) = m
        /\ obj[c] = [data_ |-> d, cells |-> b, size_ |-> n, capacity_ |-> m]
    BY <1>1, VectorsNow
  <1>3. PICK h, ce : h = Container!Dead /\ ce = [y \in 1..m |-> IF y <= n THEN h ELSE b[y]]
    OBVIOUS
  <1>4. PICK s : s = [data_ |-> d, cells |-> ce, size_ |-> 0, capacity_ |-> m]
    OBVIOUS
  <1>5. DOMAIN b = 1..m
    BY <1>2
  <1>6. /\ ~(plain /\ nontrivial) /\ leaked' = leaked
        /\ Container!Result(FALSE, [obj EXCEPT ![c].size_ = 0,
              ![c].cells = [y \in DOMAIN @ |-> IF y <= obj[c].size_ THEN Container!Dead ELSE @[y]]])
    BY DEF Container!clear, Container!Risky
  <1>7. [obj EXCEPT ![c].size_ = 0,
           ![c].cells = [y \in DOMAIN @ |-> IF y <= obj[c].size_ THEN Container!Dead ELSE @[y]]]
          = [obj EXCEPT ![c] = s]
    <2>1. PICK p : p = [data_ |-> d, cells |-> b, size_ |-> 0, capacity_ |-> m]
      OBVIOUS
    <2>2. [obj[c] EXCEPT !.size_ = 0] = p
      BY <1>2, <2>1
    <2>3. [p EXCEPT !.cells = ce] = s
      BY <1>4, <2>1
    <2>4. ce = [y \in DOMAIN obj[c].cells |-> IF y <= obj[c].size_ THEN Container!Dead ELSE obj[c].cells[y]]
      BY <1>1, <1>3, <1>5
    <2>5. obj = [x \in Container!Containers |-> obj[x]]
      BY DEF ContainerInv
    <2>6. [obj EXCEPT ![c].size_ = 0] = [obj EXCEPT ![c] = p]
      BY <2>2, <2>5
    <2>7. [obj EXCEPT ![c] = p][c] = p /\ p.cells = b
      BY <2>1, <2>5
    <2>8. [[obj EXCEPT ![c] = p] EXCEPT ![c].cells = ce] = [obj EXCEPT ![c] = s]
      BY <2>3, <2>5, <2>7
    <2>9. [obj EXCEPT ![c].size_ = 0,
             ![c].cells = [y \in DOMAIN @ |-> IF y <= obj[c].size_ THEN Container!Dead ELSE @[y]]]
            = [[obj EXCEPT ![c] = p] EXCEPT
                 ![c].cells = [y \in DOMAIN obj[c].cells |->
                                 IF y <= obj[c].size_ THEN Container!Dead ELSE obj[c].cells[y]]]
      BY <2>6, Zenon
    <2> QED BY <2>4, <2>8, <2>9, Zenon
  <1>8. Settled /\ (obj' = obj \/ obj' = [obj EXCEPT ![c] = s]) /\ ~undefined'
    BY <1>6, <1>7, Settles
  <1>9. h \in CellSet /\ h.v = 0
    BY <1>3, DeadIsCell
  <1>10. \A y \in 1..m : ce[y] \in CellSet
    BY <1>2, <1>3, <1>9, ElementOfSeq
  <1>11. ce \in Seq(CellSet) /\ Len(ce) = m
    BY <1>2, <1>3, <1>10, CellsMade
  <1>12. \A y \in 1..m : ce[y].v = 0
    <2>1. \A y \in 1..m : ~(y <= n) => b[y].v = 0
      BY <1>1, <1>2 DEF IsVector
    <2> QED BY <1>3, <1>9, <2>1
  <1>13. IsVector(s)
    <2>1. 0 \in Nat /\ 0 <= m
      BY <1>2
    <2> QED BY <1>2, <1>4, <1>11, <1>12, <2>1, BufferOf
  <1>14. Container!Contents(s) = <<>>
    BY <1>4 DEF Container!Contents
  <1>15. Changed(c, s)
    BY <1>2, <1>6, <1>8, <1>13 DEF Changed
  <1> QED BY <1>14, <1>15

LEMMA ShrinkChanges ==
  ASSUME ContainerInv, NEW c \in Container!Containers, Container!shrink_to_fit(c)
  PROVE  \E s : Changed(c, s) /\ Container!Contents(s) = Container!Contents(obj[c])
  <1>1. PICK b, n, m, d : b = obj[c].cells /\ n = obj[c].size_ /\ m = obj[c].capacity_ /\ d = obj[c].data_
    OBVIOUS
  <1>2. /\ IsVector(obj[c]) /\ (plain => ~leaked) /\ n \in Nat /\ m \in Nat /\ d \in Nat /\ n <= m
        /\ b \in Seq(CellSet) /\ Len(b) = m
        /\ obj[c] = [data_ |-> d, cells |-> b, size_ |-> n, capacity_ |-> m]
    BY <1>1, VectorsNow
  <1>3. PICK e, ce, s : /\ e = Container!Fresh /\ ce = SubSeq(b, 1, n)
                        /\ s = [data_ |-> e, cells |-> ce, size_ |-> n, capacity_ |-> n]
    OBVIOUS
  <1>4. /\ ~(plain /\ nontrivial) /\ leaked' = (leaked \/ (nontrivial /\ n > 0))
        /\ Container!Result(nontrivial /\ (n > 0 \/ Container!DeadCells(obj[c])),
             [obj EXCEPT ![c] = [obj[c] EXCEPT !.data_ = e, !.capacity_ = n, !.cells = ce]])
    BY <1>1, <1>3 DEF Container!shrink_to_fit, Container!Risky
  <1>5. [obj[c] EXCEPT !.data_ = e, !.capacity_ = n, !.cells = ce] = s
    <2>1. PICK p : p = [data_ |-> e, cells |-> b, size_ |-> n, capacity_ |-> m]
      OBVIOUS
    <2>2. PICK r : r = [data_ |-> e, cells |-> b, size_ |-> n, capacity_ |-> n]
      OBVIOUS
    <2>3. [obj[c] EXCEPT !.data_ = e] = p
      BY <1>2, <2>1
    <2>4. [p EXCEPT !.capacity_ = n] = r
      BY <2>1, <2>2
    <2>5. [r EXCEPT !.cells = ce] = s
      <3>1. s = [data_ |-> e, cells |-> ce, size_ |-> n, capacity_ |-> n]
        BY <1>3
      <3> QED BY <2>2, <3>1
    <2> QED BY <2>3, <2>4, <2>5, Zenon
  <1>6. /\ Settled /\ (obj' = obj \/ obj' = [obj EXCEPT ![c] = s])
        /\ undefined' => nontrivial /\ (n > 0 \/ Container!DeadCells(obj[c]))
    BY <1>4, <1>5, Settles
  <1>7. ce \in Seq(CellSet) /\ Len(ce) = n /\ \A y \in 1..n : ce[y] = b[y]
    BY <1>2, <1>3, SubSeqProperties
  <1>8. e \in Nat
    BY <1>3, FreshBuffer
  <1>9. IsVector(s)
    <2>1. \A y \in 1..n : ~(y > n)
      BY <1>2
    <2>2. n <= n
      BY <1>2
    <2> QED BY <1>2, <1>3, <1>7, <1>8, <2>1, <2>2, BufferOf
  <1>10. Container!Contents(s) = Container!Contents(obj[c])
    BY <1>1, <1>3, <1>7 DEF Container!Contents
  <1>11. Changed(c, s)
    BY <1>2, <1>4, <1>6, <1>9 DEF Changed
  <1> QED BY <1>10, <1>11

LEMMA ConstructChanges ==
  ASSUME ContainerInv, NEW c \in Container!Containers, Container!construct(c)
  PROVE  \E q, s : q \in [1..2 -> Elements] \cup {<<>>} /\ Changed(c, s) /\ Container!Contents(s) = q
  <1>1. PICK q \in [1..2 -> Elements] \cup {<<>>} :
          /\ leaked' = leaked
          /\ Container!Result(Container!DeadCells(obj[c]), [obj EXCEPT ![c] = Container!Filled(q)])
    BY DEF Container!construct
  <1>2. q \in Seq(Elements \cup {0})
    <2>1. CASE q \in [1..2 -> Elements]
      <3>1. PICK n \in Nat : n = 2
        OBVIOUS
      <3>2. q \in [1..n -> Elements \cup {0}]
        BY <2>1, <3>1
      <3> QED BY <3>2
    <2>2. <<>> \in Seq(Elements \cup {0})
      OBVIOUS
    <2> QED BY <1>1, <2>1, <2>2
  <1>3. PICK s : s = Container!Filled(q)
    OBVIOUS
  <1>4. IsVector(s) /\ AllAlive(s) /\ Container!Contents(s) = q
    BY <1>2, <1>3, FilledIs
  <1>5. Settled /\ (obj' = obj \/ obj' = [obj EXCEPT ![c] = s]) /\ (undefined' => Container!DeadCells(obj[c]))
    BY <1>1, <1>3, Settles
  <1>6. plain => ~undefined' /\ ~leaked'
    BY <1>1, <1>5, NothingDead, VectorsNow
  <1>7. Changed(c, s)
    BY <1>4, <1>5, <1>6 DEF Changed
  <1> QED BY <1>4, <1>7

LEMMA CopyChanges ==
  ASSUME ContainerInv, NEW c \in Container!Containers, NEW d \in Container!Containers, Container!copy_assign(c, d)
  PROVE  \E s : Changed(c, s) /\ Container!Contents(s) = Container!Contents(obj[d])
  <1>1. PICK q, s : q = Container!Contents(obj[d]) /\ s = Container!Filled(q)
    OBVIOUS
  <1>2. leaked' = leaked /\ Container!Result(Container!DeadCells(obj[c]), [obj EXCEPT ![c] = s])
    BY <1>1 DEF Container!copy_assign
  <1>3. q \in Seq(Elements \cup {0})
    <2>1. IsVector(obj[d])
      BY VectorsNow
    <2> QED BY <1>1, <2>1, Values1
  <1>4. IsVector(s) /\ AllAlive(s) /\ Container!Contents(s) = q
    BY <1>1, <1>3, FilledIs
  <1>5. Settled /\ (obj' = obj \/ obj' = [obj EXCEPT ![c] = s]) /\ (undefined' => Container!DeadCells(obj[c]))
    BY <1>2, Settles
  <1>6. plain => ~undefined' /\ ~leaked'
    BY <1>2, <1>5, NothingDead, VectorsNow
  <1>7. Changed(c, s)
    BY <1>4, <1>5, <1>6 DEF Changed
  <1> QED BY <1>1, <1>4, <1>7

LEMMA AssignChanges ==
  ASSUME ContainerInv, NEW c \in Container!Containers, Container!assign_at(c)
  PROVE  \E z, x, s : /\ z \in DOMAIN Container!Contents(obj[c]) /\ x \in Elements /\ Changed(c, s)
                      /\ Container!Contents(s) = [Container!Contents(obj[c]) EXCEPT ![z] = x]
  <1>1. PICK b, n, m, d : b = obj[c].cells /\ n = obj[c].size_ /\ m = obj[c].capacity_ /\ d = obj[c].data_
    OBVIOUS
  <1>2. /\ IsVector(obj[c]) /\ ((plain /\ nontrivial) => AllAlive(obj[c])) /\ (plain => ~leaked)
        /\ n \in Nat /\ m \in Nat /\ d \in Nat /\ n <= m /\ b \in Seq(CellSet) /\ Len(b) = m
        /\ obj[c] = [data_ |-> d, cells |-> b, size_ |-> n, capacity_ |-> m]
    BY <1>1, VectorsNow
  <1>3. PICK z \in 1..n, x \in Elements : leaked' = leaked /\ Container!Result(FALSE, [obj EXCEPT ![c].cells[z].v = x])
    BY <1>1 DEF Container!assign_at
  <1>4. z \in 1..m
    BY <1>2
  <1>5. PICK a, y : b[z] = [v |-> y, alive |-> a] /\ a \in BOOLEAN
    <2>1. b[z] \in CellSet
      BY <1>2, <1>4, ElementOfSeq
    <2> QED BY <2>1 DEF CellSet
  <1>6. PICK h : h = [v |-> x, alive |-> a]
    OBVIOUS
  <1>7. PICK ce : ce = [b EXCEPT ![z] = h]
    OBVIOUS
  <1>8. PICK s : s = [data_ |-> d, cells |-> ce, size_ |-> n, capacity_ |-> m]
    OBVIOUS
  <1>9. h \in CellSet /\ h.v = x
    BY <1>5, <1>6 DEF CellSet
  <1>10. ce \in Seq(CellSet) /\ Len(ce) = m /\ \A w \in 1..m : ce[w] = IF w = z THEN h ELSE b[w]
    BY <1>2, <1>4, <1>7, <1>9, ExceptSeq
  <1>11. [obj EXCEPT ![c].cells[z].v = x] = [obj EXCEPT ![c] = s]
    <2>1. [b[z] EXCEPT !.v = x] = h
      BY <1>5, <1>6
    <2>2. [obj[c] EXCEPT !.cells = ce] = s
      BY <1>2, <1>8
    <2>3. [obj EXCEPT ![c].cells[z].v = x] = [obj EXCEPT ![c] = [obj[c] EXCEPT !.cells = [b EXCEPT ![z] = [b[z] EXCEPT !.v = x]]]]
      BY <1>1
    <2> QED BY <1>7, <2>1, <2>2, <2>3
  <1>12. Settled /\ (obj' = obj \/ obj' = [obj EXCEPT ![c] = s]) /\ ~undefined'
    BY <1>3, <1>11, Settles
  <1>13. IsVector(s)
    <2>1. \A w \in 1..m : w > n => b[w].v = 0
      BY <1>1, <1>2 DEF IsVector
    <2>2. \A w \in 1..m : w > n => w # z
      BY <1>2
    <2>3. \A w \in 1..m : w > n => ce[w].v = 0
      BY <1>10, <2>1, <2>2
    <2> QED BY <1>2, <1>8, <1>10, <2>3, BufferOf
  <1>14. AllAlive(obj[c]) => AllAlive(s)
    <2>1. h.alive = a /\ b[z].alive = a
      <3>1. [v |-> x, alive |-> a].alive = a /\ [v |-> y, alive |-> a].alive = a
        OBVIOUS
      <3> QED BY <1>5, <1>6, <3>1, Zenon
    <2>2. SUFFICES ASSUME AllAlive(obj[c]), NEW w \in 1..m PROVE ce[w].alive
      BY <1>8, <1>10 DEF AllAlive
    <2>3. \A u \in 1..m : b[u].alive
      BY <1>1, <1>2, <2>2 DEF AllAlive
    <2>4. CASE w = z
      BY <1>4, <1>10, <2>1, <2>3, <2>4, Zenon
    <2>5. CASE w # z
      BY <1>10, <2>3, <2>5
    <2> QED BY <2>4, <2>5
  <1>15. /\ DOMAIN Container!Contents(obj[c]) = 1..n
         /\ Container!Contents(s) = [Container!Contents(obj[c]) EXCEPT ![z] = x]
    <2>1. Container!Contents(obj[c]) = [w \in 1..n |-> b[w].v]
      BY <1>1 DEF Container!Contents
    <2>2. Container!Contents(s) = [w \in 1..n |-> ce[w].v]
      BY <1>8 DEF Container!Contents
    <2>3. \A w \in 1..n : w \in 1..m
      BY <1>2
    <2>4. \A w \in 1..n : ce[w].v = IF w = z THEN x ELSE b[w].v
      BY <1>9, <1>10, <2>3
    <2> QED BY <2>1, <2>2, <2>4
  <1>16. Changed(c, s)
    BY <1>2, <1>3, <1>12, <1>13, <1>14 DEF Changed
  <1> QED BY <1>15, <1>16

LEMMA BothChange ==
  ASSUME ContainerInv, Settled, NEW c \in Container!Containers, NEW d \in Container!Containers, c # d,
         NEW s, NEW t, IsVector(s), IsVector(t), obj' = obj \/ obj' = [obj EXCEPT ![c] = s, ![d] = t],
         plain => ~undefined' /\ ~leaked', (plain /\ nontrivial) => AllAlive(s) /\ AllAlive(t)
  PROVE  /\ ContainerInv'
         /\ \/ Held(obj)' = Held(obj)
            \/ Held(obj)' = [Held(obj) EXCEPT ![c] = Container!Contents(s), ![d] = Container!Contents(t)]
  <1>1. PICK new : new = [obj EXCEPT ![c] = s, ![d] = t]
    OBVIOUS
  <1>2. obj = [e \in Container!Containers |-> obj[e]]
    BY DEF ContainerInv
  <1>3. new = [e \in Container!Containers |-> IF e = d THEN t ELSE IF e = c THEN s ELSE obj[e]]
    BY <1>1, <1>2
  <1>4. /\ new = [e \in Container!Containers |-> new[e]]
        /\ \A e \in Container!Containers : new[e] = IF e = d THEN t ELSE IF e = c THEN s ELSE obj[e]
    BY <1>3
  <1>5. \A e \in Container!Containers : IsVector(new[e])
    BY <1>4 DEF ContainerInv
  <1>6. (plain /\ nontrivial) => \A e \in Container!Containers : AllAlive(new[e])
    BY <1>4 DEF ContainerInv
  <1>7. obj' = obj \/ obj' = new
    BY <1>1
  <1>8. ContainerInv'
    BY <1>4, <1>5, <1>6, <1>7, BothSettle
  <1>9. Held(new) = [Held(obj) EXCEPT ![c] = Container!Contents(s), ![d] = Container!Contents(t)]
    BY <1>4 DEF Held
  <1>10. Held(obj)' = Held(obj')
    BY DEF Held
  <1> QED BY <1>7, <1>8, <1>9, <1>10

LEMMA MoveChanges ==
  ASSUME ContainerInv, NEW c \in Container!Containers, NEW d \in Container!Containers, Container!move_assign(c, d)
  PROVE  /\ ContainerInv' /\ c # d
         /\ \/ Held(obj)' = Held(obj)
            \/ Held(obj)' = [Held(obj) EXCEPT ![c] = Container!Contents(obj[d]), ![d] = <<>>]
  <1>1. PICK s, t : s = obj[d] /\ t = Container!Empty
    OBVIOUS
  <1>2. /\ c # d /\ leaked' = leaked
        /\ Container!Result(Container!DeadCells(obj[c]), [obj EXCEPT ![c] = s, ![d] = t])
    BY <1>1 DEF Container!move_assign
  <1>3. /\ Settled /\ (obj' = obj \/ obj' = [obj EXCEPT ![c] = s, ![d] = t])
        /\ undefined' => Container!DeadCells(obj[c])
    BY <1>2, Settles
  <1>4. plain => ~undefined' /\ ~leaked'
    BY <1>2, <1>3, NothingDead, VectorsNow
  <1>5. IsVector(t) /\ AllAlive(t) /\ Container!Contents(t) = <<>>
    BY <1>1, EmptyVector
  <1>6. IsVector(s) /\ ((plain /\ nontrivial) => AllAlive(s))
    BY <1>1, VectorsNow
  <1>7. /\ ContainerInv'
        /\ \/ Held(obj)' = Held(obj)
           \/ Held(obj)' = [Held(obj) EXCEPT ![c] = Container!Contents(s), ![d] = Container!Contents(t)]
    BY <1>2, <1>3, <1>4, <1>5, <1>6, BothChange
  <1> QED BY <1>1, <1>2, <1>5, <1>7

LEMMA SwapChanges ==
  ASSUME ContainerInv, NEW c \in Container!Containers, NEW d \in Container!Containers, Container!swap(c, d)
  PROVE  /\ ContainerInv' /\ c # d
         /\ \/ Held(obj)' = Held(obj)
            \/ Held(obj)' = [Held(obj) EXCEPT ![c] = Container!Contents(obj[d]), ![d] = Container!Contents(obj[c])]
  <1>1. PICK s, t : s = obj[d] /\ t = obj[c]
    OBVIOUS
  <1>2. c # d /\ leaked' = leaked /\ Container!Result(FALSE, [obj EXCEPT ![c] = s, ![d] = t])
    BY <1>1 DEF Container!swap
  <1>3. Settled /\ (obj' = obj \/ obj' = [obj EXCEPT ![c] = s, ![d] = t]) /\ ~undefined'
    BY <1>2, Settles
  <1>4. plain => ~undefined' /\ ~leaked'
    BY <1>2, <1>3, VectorsNow
  <1>5. IsVector(t) /\ ((plain /\ nontrivial) => AllAlive(t))
    BY <1>1, VectorsNow
  <1>6. IsVector(s) /\ ((plain /\ nontrivial) => AllAlive(s))
    BY <1>1, VectorsNow
  <1>7. /\ ContainerInv'
        /\ \/ Held(obj)' = Held(obj)
           \/ Held(obj)' = [Held(obj) EXCEPT ![c] = Container!Contents(s), ![d] = Container!Contents(t)]
    BY <1>2, <1>3, <1>4, <1>5, <1>6, BothChange
  <1> QED BY <1>1, <1>2, <1>7

LEMMA FindChanges ==
  ASSUME ContainerInv, NEW c \in Container!Containers, Container!find(c)
  PROVE  ContainerInv' /\ obj' = obj
  <1>1. PICK n \in 0..obj[c].size_ - 1 : it' = Container!Plus(Container!begin(c), n)
    BY DEF Container!find
  <1>2. /\ nontrivial' = nontrivial /\ obj' = obj /\ undefined' = undefined /\ leaked' = leaked /\ plain' = plain
    BY DEF Container!find
  <1>3. obj[c].size_ \in Nat
    BY VectorsNow
  <1>4. it' = [buf |-> obj[c].data_, pos |-> n]
    BY <1>1, <1>3 DEF Container!Plus, Container!begin
  <1>5. Container!PointsInto(obj', it')
    BY <1>2, <1>3, <1>4 DEF Container!PointsInto
  <1>6. it'.pos \in Nat
    BY <1>3, <1>4
  <1> QED BY <1>2, <1>5, <1>6 DEF ContainerInv

(* Every change is one that a sequence promises.                           *)
Offered(c, q) ==
  LET p == Container!Contents(obj[c]) IN
  \/ \E x \in Elements \cup {0} : q = Append(p, x)
  \/ p # <<>> /\ q = SubSeq(p, 1, Len(p) - 1)
  \/ q = <<>>
  \/ \E z \in DOMAIN p, x \in Elements : q = [p EXCEPT ![z] = x]
  \/ q \in [1..2 -> Elements]
  \/ \E d \in Container!Containers : d # c /\ q = Container!Contents(obj[d])

LEMMA SequencesStep ==
  ASSUME NEW c \in Container!Containers, NEW q, Offered(c, q), Held(obj)' = [Held(obj) EXCEPT ![c] = q]
  PROVE  Container!Sequences1!Next
  <1>1. PICK p : p = Container!Contents(obj[c])
    OBVIOUS
  <1>2. /\ [x \in Container!Containers |-> Container!Contents(obj[x])] = Held(obj)
        /\ \A x \in Container!Containers : Held(obj)[x] = Container!Contents(obj[x])
    BY DEF Held
  <1>3. Container!Sequences1!Becomes(c, q)
    BY <1>2 DEF Container!Sequences1!Becomes, Held
  <1>4. CASE \E x \in Elements \cup {0} : q = Append(p, x)
    <2>1. Container!Sequences1!Append1(c)
      BY <1>1, <1>2, <1>3, <1>4 DEF Container!Sequences1!Append1, Container!Default
    <2> QED BY <2>1 DEF Container!Sequences1!Next
  <1>5. CASE p # <<>> /\ q = SubSeq(p, 1, Len(p) - 1)
    <2>1. Container!Sequences1!RemoveLast(c)
      BY <1>1, <1>2, <1>3, <1>5 DEF Container!Sequences1!RemoveLast
    <2> QED BY <2>1 DEF Container!Sequences1!Next
  <1>6. CASE q = <<>>
    <2>1. Container!Sequences1!Erase(c)
      BY <1>3, <1>6 DEF Container!Sequences1!Erase
    <2> QED BY <2>1 DEF Container!Sequences1!Next
  <1>7. CASE \E z \in DOMAIN p, x \in Elements : q = [p EXCEPT ![z] = x]
    <2>1. Container!Sequences1!Overwrite(c)
      BY <1>1, <1>2, <1>3, <1>7 DEF Container!Sequences1!Overwrite
    <2> QED BY <2>1 DEF Container!Sequences1!Next
  <1>8. CASE q \in [1..2 -> Elements]
    <2>1. q = <<q[1], q[2]>> /\ q[1] \in Elements /\ q[2] \in Elements
      BY <1>8
    <2>2. Container!Sequences1!Given(c)
      BY <1>3, <2>1 DEF Container!Sequences1!Given
    <2> QED BY <2>2 DEF Container!Sequences1!Next
  <1>9. CASE \E d \in Container!Containers : d # c /\ q = Container!Contents(obj[d])
    <2>1. PICK d \in Container!Containers : d # c /\ q = Container!Contents(obj[d])
      BY <1>9
    <2>2. Container!Sequences1!Copy(c, d)
      BY <1>2, <1>3, <2>1 DEF Container!Sequences1!Copy
    <2> QED BY <2>1, <2>2 DEF Container!Sequences1!Next
  <1> QED BY <1>1, <1>4, <1>5, <1>6, <1>7, <1>8, <1>9 DEF Offered

SequencesChange == Container!Sequences1!Next \/ Held(obj)' = Held(obj)

LEMMA ChangeIsOffered ==
  ASSUME ContainerInv, NEW c \in Container!Containers, NEW s, Changed(c, s),
         Offered(c, Container!Contents(s)) \/ Container!Contents(s) = Container!Contents(obj[c])
  PROVE  ContainerInv' /\ SequencesChange
  <1>1. ContainerInv'
    BY OneSettles
  <1>2. PICK q : q = Container!Contents(s)
    OBVIOUS
  <1>3. Held(obj)' = Held(obj) \/ Held(obj)' = [Held(obj) EXCEPT ![c] = q]
    BY <1>2, HeldChanges
  <1>4. CASE q = Container!Contents(obj[c])
    <2>1. [Held(obj) EXCEPT ![c] = q] = Held(obj)
      BY <1>4 DEF Held
    <2> QED BY <1>1, <1>3, <2>1 DEF SequencesChange
  <1>5. CASE Offered(c, q)
    BY <1>1, <1>3, <1>5, SequencesStep DEF SequencesChange
  <1> QED BY <1>2, <1>4, <1>5

LEMMA OneOperation ==
  ASSUME ContainerInv, NEW c \in Container!Containers,
         \/ Container!push_back(c) \/ Container!push_back_throws(c) \/ Container!push_back_own(c)
         \/ Container!emplace_back(c) \/ Container!pop_back(c) \/ Container!clear(c)
         \/ Container!shrink_to_fit(c) \/ Container!construct(c) \/ Container!assign_at(c) \/ Container!find(c)
  PROVE  ContainerInv' /\ SequencesChange
  <1>1. CASE Container!push_back(c)
    <2>1. PICK x, s : /\ x \in Elements /\ Changed(c, s)
                      /\ Container!Contents(s) = Append(Container!Contents(obj[c]), x)
      BY <1>1, PushBackChanges
    <2>2. Offered(c, Container!Contents(s))
      BY <2>1 DEF Offered
    <2> QED BY <2>1, <2>2, ChangeIsOffered
  <1>2. CASE Container!push_back_throws(c)
    <2>1. PICK s : Changed(c, s) /\ Container!Contents(s) = Append(Container!Contents(obj[c]), 0)
      BY <1>2, ThrowChanges
    <2>2. Offered(c, Container!Contents(s))
      BY <2>1 DEF Offered
    <2> QED BY <2>1, <2>2, ChangeIsOffered
  <1>3. CASE Container!push_back_own(c)
    <2>1. PICK x, s : /\ x \in Elements \cup {0} /\ Changed(c, s)
                      /\ Container!Contents(s) = Append(Container!Contents(obj[c]), x)
      BY <1>3, OwnChanges
    <2>2. Offered(c, Container!Contents(s))
      BY <2>1 DEF Offered
    <2> QED BY <2>1, <2>2, ChangeIsOffered
  <1>4. CASE Container!emplace_back(c)
    <2>1. PICK x, s : /\ x \in Elements /\ Changed(c, s)
                      /\ Container!Contents(s) = Append(Container!Contents(obj[c]), x)
      BY <1>4, EmplaceChanges
    <2>2. Offered(c, Container!Contents(s))
      BY <2>1 DEF Offered
    <2> QED BY <2>1, <2>2, ChangeIsOffered
  <1>5. CASE Container!pop_back(c)
    <2>1. PICK p : p = Container!Contents(obj[c])
      OBVIOUS
    <2>2. p # <<>> /\ \E s : Changed(c, s) /\ Container!Contents(s) = SubSeq(p, 1, Len(p) - 1)
      BY <1>5, <2>1, PopChanges, Zenon
    <2>3. PICK s : Changed(c, s) /\ Container!Contents(s) = SubSeq(p, 1, Len(p) - 1)
      BY <2>2
    <2>4. Offered(c, Container!Contents(s))
      BY <2>1, <2>2, <2>3, Zenon DEF Offered
    <2> QED BY <2>3, <2>4, ChangeIsOffered
  <1>6. CASE Container!clear(c)
    <2>1. PICK s : Changed(c, s) /\ Container!Contents(s) = <<>>
      BY <1>6, ClearChanges
    <2>2. Offered(c, Container!Contents(s))
      BY <2>1 DEF Offered
    <2> QED BY <2>1, <2>2, ChangeIsOffered
  <1>7. CASE Container!shrink_to_fit(c)
    <2>1. PICK s : Changed(c, s) /\ Container!Contents(s) = Container!Contents(obj[c])
      BY <1>7, ShrinkChanges
    <2> QED BY <2>1, ChangeIsOffered
  <1>8. CASE Container!construct(c)
    <2>1. PICK q, s : q \in [1..2 -> Elements] \cup {<<>>} /\ Changed(c, s) /\ Container!Contents(s) = q
      BY <1>8, ConstructChanges
    <2>2. Offered(c, Container!Contents(s))
      BY <2>1 DEF Offered
    <2> QED BY <2>1, <2>2, ChangeIsOffered
  <1>9. CASE Container!assign_at(c)
    <2>1. PICK z, x, s : /\ z \in DOMAIN Container!Contents(obj[c]) /\ x \in Elements /\ Changed(c, s)
                         /\ Container!Contents(s) = [Container!Contents(obj[c]) EXCEPT ![z] = x]
      BY <1>9, AssignChanges
    <2>2. Offered(c, Container!Contents(s))
      BY <2>1, Zenon DEF Offered
    <2> QED BY <2>1, <2>2, ChangeIsOffered
  <1>10. CASE Container!find(c)
    <2>1. ContainerInv' /\ obj' = obj
      BY <1>10, FindChanges
    <2> QED BY <2>1 DEF SequencesChange, Held
  <1> QED BY <1>1, <1>2, <1>3, <1>4, <1>5, <1>6, <1>7, <1>8, <1>9, <1>10

LEMMA TwoContainers ==
  ASSUME ContainerInv, NEW c \in Container!Containers, NEW d \in Container!Containers,
         Container!copy_assign(c, d) \/ Container!move_assign(c, d) \/ Container!swap(c, d)
  PROVE  ContainerInv' /\ SequencesChange
  <1>1. CASE Container!copy_assign(c, d)
    <2>1. PICK s : Changed(c, s) /\ Container!Contents(s) = Container!Contents(obj[d])
      BY <1>1, CopyChanges
    <2>2. c # d
      BY <1>1 DEF Container!copy_assign
    <2>3. Offered(c, Container!Contents(s))
      BY <2>1, <2>2 DEF Offered
    <2> QED BY <2>1, <2>3, ChangeIsOffered
  <1>2. PICK p, q : p = Container!Contents(obj[c]) /\ q = Container!Contents(obj[d])
    OBVIOUS
  <1>3. /\ [x \in Container!Containers |-> Container!Contents(obj[x])] = Held(obj)
        /\ Held(obj)[c] = p /\ Held(obj)[d] = q
    BY <1>2 DEF Held
  <1>4. CASE Container!move_assign(c, d)
    <2>1. /\ ContainerInv' /\ c # d
          /\ Held(obj)' = Held(obj) \/ Held(obj)' = [Held(obj) EXCEPT ![c] = q, ![d] = <<>>]
      BY <1>2, <1>4, MoveChanges
    <2>2. CASE Held(obj)' = [Held(obj) EXCEPT ![c] = q, ![d] = <<>>]
      <3>1. Container!Sequences1!Move(c, d)
        BY <1>3, <2>2 DEF Container!Sequences1!Move, Held
      <3> QED BY <2>1, <3>1 DEF SequencesChange, Container!Sequences1!Next
    <2> QED BY <2>1, <2>2 DEF SequencesChange
  <1>5. CASE Container!swap(c, d)
    <2>1. /\ ContainerInv' /\ c # d
          /\ Held(obj)' = Held(obj) \/ Held(obj)' = [Held(obj) EXCEPT ![c] = q, ![d] = p]
      BY <1>2, <1>5, SwapChanges
    <2>2. CASE Held(obj)' = [Held(obj) EXCEPT ![c] = q, ![d] = p]
      <3>1. Container!Sequences1!Exchange(c, d)
        BY <1>3, <2>2 DEF Container!Sequences1!Exchange, Held
      <3> QED BY <2>1, <3>1 DEF SequencesChange, Container!Sequences1!Next
    <2> QED BY <2>1, <2>2 DEF SequencesChange
  <1> QED BY <1>1, <1>4, <1>5

LEMMA ContainerStep ==
  ASSUME ContainerInv, [Next]_vars
  PROVE  ContainerInv' /\ SequencesChange
  <1>1. CASE UNCHANGED containerVars
    <2>1. /\ nontrivial' = nontrivial /\ obj' = obj /\ it' = it
          /\ undefined' = undefined /\ leaked' = leaked /\ plain' = plain
      BY <1>1 DEF containerVars
    <2> QED BY <2>1 DEF ContainerInv, SequencesChange, Held
  <1>2. CASE Container!Anything
    <2>1. UNCHANGED containerVars
      BY <1>2 DEF Container!Anything, Container!vars, containerVars
    <2> QED BY <1>1, <2>1
  <1>3. CASE UseContainer
    BY <1>2, <1>3, OneOperation, TwoContainers DEF UseContainer, Container!Next
  <1>4. UseContainer \/ UNCHANGED containerVars
    BY DEF Next, vars, storage, UseCache, UsePool, UseTable, UseBook, UseBucket, UseWheel,
           RunAlgorithm, RunSearch, RunServer
  <1> QED BY <1>1, <1>3, <1>4

(* PlainUseIsSafe: a program that keeps to the operations that respect the *)
(* lifetime of the elements meets no undefined behaviour and leaks nothing,*)
(* whatever its elements, buffers and order of operations.                 *)
THEOREM PlainUseStaysSafe == Spec => []PlainUseIsSafe
  <1>1. ContainerInv /\ [Next]_vars => ContainerInv'
    BY ContainerStep
  <1>2. ContainerInv => PlainUseIsSafe
    BY DEF ContainerInv, PlainUseIsSafe, Container!PlainUseIsSafe, Container!LifetimesExact
  <1> QED BY <1>1, <1>2, ContainerInit, PTL DEF Spec

(* ImplementsSequences: growing, shrinking, copying and moving buffers, the*)
(* containers do to their values what sequences of values would.           *)
THEOREM ContainersAreSequences == Spec => ImplementsSequences
  <1>1. Init => Container!Sequences1!Init
    <2>1. SUFFICES ASSUME Init PROVE Container!Sequences1!Init
      OBVIOUS
    <2>2. \A c \in Container!Containers : obj[c] = Container!Empty
      BY <2>1 DEF Init, Container!Init
    <2>3. \A c \in Container!Containers : Container!Contents(obj[c]) = <<>>
      BY <2>2, EmptyVector
    <2> QED BY <2>3 DEF Container!Sequences1!Init
  <1>2. ContainerInv /\ [Next]_vars => ContainerInv'
    BY ContainerStep
  <1>3. ContainerInv /\ [Next]_vars
          => [Container!Sequences1!Next]_([c \in Container!Containers |-> Container!Contents(obj[c])])
    BY ContainerStep DEF SequencesChange, Held
  <1> QED BY <1>1, <1>2, <1>3, ContainerInit, PTL
          DEF Spec, ImplementsSequences, Container!ImplementsSequences, Container!Sequences1!Spec

(* A push within the capacity writes behind the elements of the buffer.    *)
LEMMA WithinStays ==
  ASSUME ContainerInv, NEW c \in Container!Containers, Container!Within(c)
  PROVE  \E s : /\ obj' = obj \/ obj' = [obj EXCEPT ![c] = s]
                /\ s.data_ = obj[c].data_ /\ s.size_ = obj[c].size_ + 1
                /\ Settled
  <1>1. /\ IsVector(obj[c]) /\ obj[c].size_ \in Nat /\ obj[c].size_ # obj[c].capacity_
        /\ obj[c] = [data_ |-> obj[c].data_, cells |-> obj[c].cells, size_ |-> obj[c].size_, capacity_ |-> obj[c].capacity_]
    BY VectorsNow DEF Container!Within, Container!Full
  <1>2. CASE Container!push_back(c)
    <2>1. PICK x, bad : x \in Elements /\ Container!Result(bad, [obj EXCEPT ![c] = Container!PushBack(obj[c], x)])
      BY <1>2 DEF Container!push_back
    <2>2. PICK s : s = Container!PushBack(obj[c], x)
      OBVIOUS
    <2>3. s.data_ = obj[c].data_ /\ s.size_ = obj[c].size_ + 1
      <3>1. x \in Elements \cup {0}
        BY <2>1
      <3> QED BY <1>1, <2>2, <3>1, PushedBack
    <2>4. Settled /\ (obj' = obj \/ obj' = [obj EXCEPT ![c] = s])
      BY <2>1, <2>2, Settles
    <2> QED BY <2>3, <2>4
  <1>3. CASE Container!push_back_own(c)
    <2>1. PICK z, bad :
            /\ z \in 1..obj[c].size_
            /\ Container!Result(bad, [obj EXCEPT ![c] = Container!PushBack(obj[c], obj[c].cells[z].v)])
      BY <1>3 DEF Container!push_back_own
    <2>2. PICK x, s : x = obj[c].cells[z].v /\ s = Container!PushBack(obj[c], x)
      OBVIOUS
    <2>3. x \in Elements \cup {0}
      <3>1. /\ obj[c].capacity_ \in Nat /\ obj[c].size_ <= obj[c].capacity_
            /\ obj[c].cells \in Seq(CellSet) /\ Len(obj[c].cells) = obj[c].capacity_
        BY VectorsNow
      <3>2. z \in 1..Len(obj[c].cells)
        BY <1>1, <2>1, <3>1
      <3>3. obj[c].cells[z] \in CellSet
        BY <3>1, <3>2, ElementOfSeq
      <3> QED BY <2>2, <3>3 DEF CellSet
    <2>4. s.data_ = obj[c].data_ /\ s.size_ = obj[c].size_ + 1
      BY <1>1, <2>2, <2>3, PushedBack
    <2>5. Settled /\ (obj' = obj \/ obj' = [obj EXCEPT ![c] = s])
      BY <2>1, <2>2, Settles
    <2> QED BY <2>4, <2>5
  <1>4. CASE Container!emplace_back(c)
    <2>1. Container!Grown(obj[c]) = obj[c]
      BY <1>1 DEF Container!Grown
    <2>2. PICK x, bad :
            /\ x \in Elements
            /\ Container!Result(bad, [obj EXCEPT ![c] =
                 [obj[c] EXCEPT !.size_ = obj[c].size_ + 1, !.cells[obj[c].size_ + 1] = Container!Cell(x)]])
      BY <1>4, <2>1, Zenon DEF Container!emplace_back
    <2>3. PICK s : s = [obj[c] EXCEPT !.size_ = obj[c].size_ + 1, !.cells[obj[c].size_ + 1] = Container!Cell(x)]
      BY Zenon
    <2>4. s.data_ = obj[c].data_ /\ s.size_ = obj[c].size_ + 1
      <3>1. obj[c] \in Buffers
        BY <1>1 DEF IsVector
      <3>2. PICK ce, n : /\ ce = [obj[c].cells EXCEPT ![obj[c].size_ + 1] = Container!Cell(x)]
                         /\ n = obj[c].size_ + 1
        OBVIOUS
      <3>3. s = [obj[c] EXCEPT !.size_ = n, !.cells = ce]
        BY <2>3, <3>1, <3>2 DEF Buffers
      <3> QED BY <3>1, <3>2, <3>3 DEF Buffers
    <2>5. Settled /\ (obj' = obj \/ obj' = [obj EXCEPT ![c] = s])
      BY <2>2, <2>3, Settles
    <2> QED BY <2>4, <2>5
  <1> QED BY <1>2, <1>3, <1>4 DEF Container!Within

LEMMA IteratorKept ==
  ASSUME ContainerInv, Settled, Container!PointsInto(obj, it) => Container!PointsInto(obj', it)
  PROVE  it' = it
  BY DEF ContainerInv, Settled

LEMMA IteratorStays ==
  ASSUME ContainerInv,
         \/ \E c \in Container!Containers : Container!Within(c)
         \/ \E c, d \in Container!Containers :
              Container!swap(c, d) \/ (it.buf # obj[c].data_ /\ Container!move_assign(c, d))
  PROVE  it' = it
  <1>1. obj = [e \in Container!Containers |-> obj[e]]
    BY DEF ContainerInv
  <1>2. ASSUME NEW c \in Container!Containers, Container!Within(c)
        PROVE  it' = it
    <2>1. PICK s : /\ obj' = obj \/ obj' = [obj EXCEPT ![c] = s]
                   /\ s.data_ = obj[c].data_ /\ s.size_ = obj[c].size_ + 1
                   /\ Settled
      BY <1>2, WithinStays
    <2>2. obj[c].size_ \in Nat
      BY VectorsNow
    <2>3. ASSUME Container!PointsInto(obj, it), obj' = [obj EXCEPT ![c] = s]
          PROVE  Container!PointsInto(obj', it)
      <3>1. PICK e \in Container!Containers : it.buf = obj[e].data_ /\ it.pos < obj[e].size_
        BY <2>3 DEF Container!PointsInto
      <3>2. CASE e = c
        <4>1. obj'[c] = s
          BY <1>1, <2>3
        <4>2. it.buf = obj'[c].data_
          BY <2>1, <3>1, <3>2, <4>1
        <4>3. it.pos < obj'[c].size_
          <5>1. it.pos \in Nat
            BY DEF ContainerInv
          <5> QED BY <2>1, <2>2, <3>1, <3>2, <4>1, <5>1
        <4> QED BY <4>2, <4>3 DEF Container!PointsInto
      <3>3. CASE e # c
        <4>1. obj'[e] = obj[e]
          BY <1>1, <2>3, <3>3
        <4> QED BY <3>1, <4>1 DEF Container!PointsInto
      <3> QED BY <3>2, <3>3
    <2> QED BY <2>1, <2>3, IteratorKept
  <1>3. ASSUME NEW c \in Container!Containers, NEW d \in Container!Containers, c # d, NEW s, NEW t, s = obj[d], Settled,
               obj' = obj \/ obj' = [obj EXCEPT ![c] = s, ![d] = t], it.buf # obj[c].data_ \/ t = obj[c]
        PROVE  it' = it
    <2>1. ASSUME Container!PointsInto(obj, it), obj' = [obj EXCEPT ![c] = s, ![d] = t]
          PROVE  Container!PointsInto(obj', it)
      <3>1. PICK e \in Container!Containers : it.buf = obj[e].data_ /\ it.pos < obj[e].size_
        BY <2>1 DEF Container!PointsInto
      <3>2. obj'[c] = s /\ obj'[d] = t /\ (e # c /\ e # d => obj'[e] = obj[e])
        BY <1>1, <1>3, <2>1
      <3>3. CASE e = d
        BY <1>3, <3>1, <3>2, <3>3 DEF Container!PointsInto
      <3>4. CASE e = c
        BY <1>3, <3>1, <3>2, <3>4 DEF Container!PointsInto
      <3>5. CASE e # c /\ e # d
        BY <3>1, <3>2, <3>5 DEF Container!PointsInto
      <3> QED BY <3>3, <3>4, <3>5
    <2> QED BY <1>3, <2>1, IteratorKept
  <1>4. ASSUME NEW c \in Container!Containers, NEW d \in Container!Containers, Container!swap(c, d)
        PROVE  it' = it
    <2>1. PICK s, t : s = obj[d] /\ t = obj[c]
      OBVIOUS
    <2>2. c # d /\ Container!Result(FALSE, [obj EXCEPT ![c] = s, ![d] = t])
      BY <1>4, <2>1 DEF Container!swap
    <2>3. Settled /\ (obj' = obj \/ obj' = [obj EXCEPT ![c] = s, ![d] = t])
      BY <2>2, Settles
    <2> QED BY <1>3, <2>1, <2>2, <2>3
  <1>5. ASSUME NEW c \in Container!Containers, NEW d \in Container!Containers,
               it.buf # obj[c].data_, Container!move_assign(c, d)
        PROVE  it' = it
    <2>1. PICK s, t : s = obj[d] /\ t = Container!Empty
      OBVIOUS
    <2>2. c # d /\ Container!Result(Container!DeadCells(obj[c]), [obj EXCEPT ![c] = s, ![d] = t])
      BY <1>5, <2>1 DEF Container!move_assign
    <2>3. Settled /\ (obj' = obj \/ obj' = [obj EXCEPT ![c] = s, ![d] = t])
      BY <2>2, Settles
    <2> QED BY <1>3, <1>5, <2>1, <2>2, <2>3
  <1> QED BY <1>2, <1>4, <1>5

(* IteratorsSurvive: pushes within the capacity, swaps and moves leave the *)
(* element in the buffer an iterator points into, for any element values.  *)
THEOREM IteratorsStayValid == Spec => IteratorsSurvive
  <1>1. ContainerInv /\ [Next]_vars => ContainerInv'
    BY ContainerStep
  <1>2. ContainerInv
          => [(\/ \E c \in Container!Containers : Container!Within(c)
               \/ \E c, d \in Container!Containers :
                    Container!swap(c, d) \/ (it.buf # obj[c].data_ /\ Container!move_assign(c, d)))
              => it' = it]_(Container!vars)
    BY IteratorStays
  <1> QED BY <1>1, <1>2, ContainerInit, PTL DEF Spec, IteratorsSurvive, Container!IteratorsSurvive

----------------------------------------------------------------------------
(* OpenAddressingHashTable, for a hash function h: the cells of a key from *)
(* its home cell on, where its probing stops, and the tables in which each *)
(* entry is where the probing of its key arrives.                          *)
TableCells == {<<>>} \cup (Keys \X Vals)
IsTable(t) == t \in Seq(TableCells) /\ Len(t) \in Nat \ {0}
CellAt(h, n, key, a) == ((h[key] + a - 1) % n) + 1
StopsOf(h, t, key) ==
  {a \in 1..Len(t) : \/ t[CellAt(h, Len(t), key, a)] = <<>>
                     \/ t[CellAt(h, Len(t), key, a)][1] = key}
Passes(h, t, key, a) ==
  \A c \in 1..a - 1 : /\ t[CellAt(h, Len(t), key, c)] # <<>>
                      /\ t[CellAt(h, Len(t), key, c)][1] # key
Arrives(h, t, key, x) ==
  \E a \in 1..Len(t) : CellAt(h, Len(t), key, a) = x /\ Passes(h, t, key, a)
WellPlaced(h, t) == \A x \in 1..Len(t) : t[x] # <<>> => Arrives(h, t, t[x][1], x)
Holding(t, key, v) == \E x \in 1..Len(t) : t[x] = <<key, v>>

(* Every cell is one of the key's, and no other is. *)
LEMMA CellsAround ==
  ASSUME NEW n \in Nat \ {0}, NEW h \in [Keys -> Nat], NEW key \in Keys
  PROVE  /\ \A a \in 1..n : CellAt(h, n, key, a) \in 1..n
         /\ \A x \in 1..n : \E a \in 1..n : CellAt(h, n, key, a) = x
  <1>1. PICK m \in Nat : m = h[key]
    OBVIOUS
  <1>2. ASSUME NEW a \in 1..n
        PROVE  CellAt(h, n, key, a) \in 1..n
    <2>1. PICK y \in Nat : y = m + a - 1
      BY <1>1
    <2>2. PICK b \in 0..n - 1 : y % n = b
      BY Division
    <2>3. CellAt(h, n, key, a) = b + 1
      BY <1>1, <2>1, <2>2 DEF CellAt
    <2> QED BY <2>3
  <1>3. ASSUME NEW x \in 1..n
        PROVE  \E a \in 1..n : CellAt(h, n, key, a) = x
    <2>1. PICK r \in 0..n - 1 : r = x - 1
      BY <1>3
    <2>2. PICK y \in m..m + n - 1 : y % n = r
      <3>1. n \in Nat /\ n >= 1
        OBVIOUS
      <3> QED BY <3>1, OncePerRound
    <2>3. PICK a : a = y - m + 1
      OBVIOUS
    <2>4. a \in 1..n /\ m + a - 1 = y
      BY <2>3
    <2>5. CellAt(h, n, key, a) = r + 1
      BY <1>1, <2>2, <2>4 DEF CellAt
    <2> QED BY <2>1, <2>4, <2>5
  <1> QED BY <1>2, <1>3

(* Where the probing of the code stops. *)
FirstStop(h, t, key, a) ==
  /\ a \in 1..Len(t) /\ Passes(h, t, key, a)
  /\ t[CellAt(h, Len(t), key, a)] = <<>> \/ t[CellAt(h, Len(t), key, a)][1] = key
LEMMA StopsAt ==
  ASSUME NEW t, IsTable(t), NEW key, NEW a, a = Table!Min(Table!Stops(t, key)),
         Table!Stops(t, key) # {}
  PROVE  FirstStop(hasher_, t, key, a) /\ Table!Probe(t, key)[a] = CellAt(hasher_, Len(t), key, a)
  <1>1. PICK n \in Nat : n = Len(t)
    BY DEF IsTable
  <1>2. PICK T : T = Table!Stops(t, key)
    OBVIOUS
  <1>3. \A b \in 1..n : Table!Probe(t, key)[b] = CellAt(hasher_, n, key, b)
    BY <1>1 DEF Table!Probe, CellAt
  <1>4. \A b : b \in T <=> b \in 1..n /\ \/ t[CellAt(hasher_, n, key, b)] = <<>>
                                         \/ t[CellAt(hasher_, n, key, b)][1] = key
    BY <1>1, <1>2, <1>3 DEF Table!Stops
  <1>5. a \in T /\ \A b \in T : a <= b
    <2>1. T \subseteq Nat /\ T # {}
      BY <1>2, <1>4
    <2>2. \E b \in T : \A c \in T : b <= c
      BY <2>1, LeastNumber
    <2> QED BY <1>2, <2>2 DEF Table!Min
  <1>6. Passes(hasher_, t, key, a)
    <2>1. \A c \in 1..a - 1 : c \in 1..n /\ c \notin T
      BY <1>4, <1>5
    <2> QED BY <1>1, <1>4, <2>1 DEF Passes
  <1> QED BY <1>1, <1>3, <1>4, <1>5, <1>6 DEF FirstStop

LEMMA NoStop ==
  ASSUME NEW t, IsTable(t), NEW key
  PROVE  Table!Stops(t, key) = StopsOf(hasher_, t, key)
  <1>1. PICK n \in Nat : n = Len(t)
    BY DEF IsTable
  <1>2. \A b \in 1..n : Table!Probe(t, key)[b] = CellAt(hasher_, n, key, b)
    BY <1>1 DEF Table!Probe, CellAt
  <1> QED BY <1>1, <1>2 DEF Table!Stops, StopsOf

(* The probing of a key arrives nowhere after its first stop, so that no   *)
(* key is in the table twice.                                              *)
LEMMA ArrivesOnce ==
  ASSUME NEW h, NEW t, IsTable(t), NEW key, NEW x, NEW a, Arrives(h, t, key, x), t[x] # <<>>,
         t[x][1] = key, FirstStop(h, t, key, a)
  PROVE  x = CellAt(h, Len(t), key, a)
  <1>1. PICK n \in Nat : n = Len(t)
    BY DEF IsTable
  <1>2. PICK b \in 1..n : CellAt(h, n, key, b) = x /\ Passes(h, t, key, b)
    BY <1>1 DEF Arrives
  <1>3. a \in 1..n /\ Passes(h, t, key, a)
        /\ (t[CellAt(h, n, key, a)] = <<>> \/ t[CellAt(h, n, key, a)][1] = key)
    BY <1>1 DEF FirstStop
  <1>4. ~(b < a)
    BY <1>1, <1>2, <1>3 DEF Passes
  <1>5. ~(a < b)
    BY <1>1, <1>2, <1>3 DEF Passes
  <1>6. a = b
    BY <1>2, <1>3, <1>4, <1>5
  <1> QED BY <1>1, <1>2, <1>6

LEMMA OneCell ==
  ASSUME NEW h, NEW t, IsTable(t), WellPlaced(h, t), NEW x \in 1..Len(t), NEW y \in 1..Len(t),
         t[x] # <<>>, t[y] # <<>>, t[x][1] = t[y][1]
  PROVE  x = y
  <1>1. PICK key : key = t[x][1]
    OBVIOUS
  <1>2. Arrives(h, t, key, x) /\ Arrives(h, t, key, y)
    BY <1>1 DEF WellPlaced
  <1>3. PICK a \in 1..Len(t) : CellAt(h, Len(t), key, a) = y /\ Passes(h, t, key, a)
    BY <1>2 DEF Arrives
  <1>4. FirstStop(h, t, key, a)
    BY <1>1, <1>3 DEF FirstStop
  <1>5. x = CellAt(h, Len(t), key, a)
    BY <1>1, <1>2, <1>4, ArrivesOnce
  <1> QED BY <1>3, <1>5

(* What find returns. *)
LEMMA FindsHeld ==
  ASSUME NEW t, IsTable(t), WellPlaced(hasher_, t), hasher_ \in [Keys -> Nat], NEW key \in Keys
  PROVE  /\ \A v : Holding(t, key, v) => Table!find(t, key) = v
         /\ (\A v : ~Holding(t, key, v)) => Table!find(t, key) = 0
  <1>1. ASSUME NEW x \in 1..Len(t), t[x] # <<>>
        PROVE  t[x] \in Keys \X Vals /\ t[x] = <<t[x][1], t[x][2]>>
    <2>1. t[x] \in TableCells
      BY ElementOfSeq DEF IsTable
    <2> QED BY <1>1, <2>1 DEF TableCells
  <1>2. PICK T, a : T = Table!Stops(t, key) /\ a = Table!Min(T)
    OBVIOUS
  <1>3. PICK n \in Nat : n = Len(t)
    BY DEF IsTable
  <1>4. ASSUME T # {}
        PROVE  /\ FirstStop(hasher_, t, key, a)
               /\ Table!Probe(t, key)[a] = CellAt(hasher_, n, key, a)
    BY <1>2, <1>3, <1>4, StopsAt
  <1>5. ASSUME NEW x \in 1..n, t[x] # <<>>, t[x][1] = key
        PROVE  T # {} /\ x = CellAt(hasher_, n, key, a)
    <2>1. Arrives(hasher_, t, key, x)
      BY <1>3, <1>5 DEF WellPlaced
    <2>2. PICK b \in 1..n : CellAt(hasher_, n, key, b) = x
      BY <1>3, <2>1 DEF Arrives
    <2>3. b \in StopsOf(hasher_, t, key)
      BY <1>3, <1>5, <2>2 DEF StopsOf
    <2>4. T # {}
      BY <1>2, <2>3, NoStop
    <2> QED BY <1>3, <1>4, <1>5, <2>1, <2>4, ArrivesOnce
  <1>6. ASSUME NEW v, Holding(t, key, v)
        PROVE  Table!find(t, key) = v
    <2>1. PICK x \in 1..n : t[x] = <<key, v>>
      BY <1>3, <1>6 DEF Holding
    <2>2. t[x] # <<>> /\ t[x][1] = key /\ t[x][2] = v
      BY <2>1
    <2>3. T # {} /\ t[Table!Probe(t, key)[a]] = t[x]
      BY <1>4, <1>5, <2>2
    <2> QED BY <1>2, <2>2, <2>3 DEF Table!find
  <1>7. ASSUME \A v : ~Holding(t, key, v)
        PROVE  Table!find(t, key) = 0
    <2>1. CASE T = {}
      BY <1>2, <2>1 DEF Table!find, Table!NoValue
    <2>2. CASE T # {}
      <3>1. a \in 1..n /\ (t[CellAt(hasher_, n, key, a)] = <<>> \/ t[CellAt(hasher_, n, key, a)][1] = key)
        BY <1>3, <1>4, <2>2 DEF FirstStop
      <3>2. PICK x : x = CellAt(hasher_, n, key, a)
        OBVIOUS
      <3>3. x \in 1..n => t[x] = <<>>
        BY <1>1, <1>3, <1>7, <3>1, <3>2 DEF Holding
      <3>4. x \in 1..n
        BY <1>3, <3>1, <3>2, CellsAround DEF IsTable
      <3> QED BY <1>2, <1>4, <2>2, <3>2, <3>3, <3>4 DEF Table!find, Table!NoValue
    <2> QED BY <2>1, <2>2
  <1> QED BY <1>6, <1>7

(* One cell is written. *)
Rewritten(S, s, x, e, u) ==
  /\ u \in Seq(S) /\ Len(u) = Len(s) /\ u[x] = e
  /\ \A y \in 1..Len(s) : y # x => u[y] = s[y]
LEMMA CellWritten ==
  ASSUME NEW S, NEW s \in Seq(S), NEW x \in 1..Len(s), NEW e \in S
  PROVE  Rewritten(S, s, x, e, [s EXCEPT ![x] = e])
  BY ExceptSeq DEF Rewritten

(* insert of a key, where the probing of the key stops: the key has the    *)
(* new value, the others theirs, and the probing of every key arrives.     *)
Placed(h, t, key, v, u) ==
  /\ IsTable(u) /\ Len(u) = Len(t) /\ WellPlaced(h, u)
  /\ \A w : Holding(u, key, w) <=> w = v
  /\ \A other, w : other # key => (Holding(u, other, w) <=> Holding(t, other, w))
LEMMA PlacedRight ==
  ASSUME NEW h, h = hasher_, h \in [Keys -> Nat], NEW t, IsTable(t), WellPlaced(h, t),
         NEW key \in Keys, NEW v \in Vals, StopsOf(h, t, key) # {},
         NEW u, u = Table!Place(t, <<key, v>>)
  PROVE  Placed(h, t, key, v, u)
  <1>1. PICK n \in Nat \ {0} : n = Len(t)
    BY DEF IsTable
  <1>2. PICK e : e = <<key, v>>
    OBVIOUS
  <1>3. e \in TableCells /\ e # <<>> /\ e[1] = key /\ e[2] = v
    BY <1>2 DEF TableCells
  <1>4. PICK a, x : a = Table!Min(Table!Stops(t, key)) /\ x = CellAt(h, n, key, a)
    OBVIOUS
  <1>5. FirstStop(h, t, key, a) /\ Table!Probe(t, key)[a] = x
    BY <1>1, <1>4, NoStop, StopsAt
  <1>6. /\ a \in 1..n /\ Passes(h, t, key, a) /\ (t[x] = <<>> \/ t[x][1] = key)
    BY <1>1, <1>4, <1>5 DEF FirstStop
  <1>7. x \in 1..n
    BY <1>4, <1>6, CellsAround
  <1>8. u = [t EXCEPT ![x] = e]
    BY <1>2, <1>3, <1>4, <1>5 DEF Table!Place
  <1>9. u \in Seq(TableCells) /\ Len(u) = n /\ \A y \in 1..n : u[y] = IF y = x THEN e ELSE t[y]
    <2>1. t \in Seq(TableCells) /\ x \in 1..Len(t)
      BY <1>1, <1>7 DEF IsTable
    <2>2. e \in TableCells
      BY <1>3
    <2>3. Rewritten(TableCells, t, x, e, [t EXCEPT ![x] = e])
      BY <2>1, <2>2, CellWritten
    <2>4. Rewritten(TableCells, t, x, e, u)
      BY <1>8, <2>3
    <2> QED BY <1>1, <1>7, <2>4 DEF Rewritten
  <1>10. IsTable(u)
    BY <1>9 DEF IsTable
  <1>11. ASSUME NEW y \in 1..n, u[y] # <<>>
         PROVE  Arrives(h, u, u[y][1], y)
    <2>1. CASE y = x
      <3>1. \A c \in 1..a - 1 : CellAt(h, n, key, c) # x /\ CellAt(h, n, key, c) \in 1..n
        <4>1. \A c \in 1..a - 1 : c \in 1..n
          BY <1>6
        <4>2. \A c \in 1..n : CellAt(h, n, key, c) \in 1..n
          BY CellsAround
        <4> QED BY <1>1, <1>6, <4>1, <4>2 DEF Passes
      <3>2. Passes(h, u, key, a)
        BY <1>1, <1>6, <1>9, <3>1 DEF Passes
      <3> QED BY <1>3, <1>4, <1>6, <1>9, <2>1, <3>2 DEF Arrives
    <2>2. CASE y # x
      <3>1. PICK other : other = t[y][1]
        OBVIOUS
      <3>2. t[y] # <<>> /\ u[y] = t[y]
        BY <1>9, <1>11, <2>2
      <3>3. PICK b \in 1..n : CellAt(h, n, other, b) = y /\ Passes(h, t, other, b)
        BY <1>1, <3>1, <3>2 DEF WellPlaced, Arrives
      <3>4. other \in Keys
        <4>1. t[y] \in TableCells
          BY <1>1, ElementOfSeq DEF IsTable
        <4> QED BY <3>1, <3>2, <4>1 DEF TableCells
      <3>5. \A c \in 1..b - 1 : CellAt(h, n, other, c) \in 1..n
        <4>1. \A c \in 1..b - 1 : c \in 1..n
          BY <1>1
        <4>2. \A c \in 1..n : CellAt(h, n, other, c) \in 1..n
          BY <3>4, CellsAround
        <4> QED BY <4>1, <4>2
      <3>6. Passes(h, u, other, b)
        <4>1. SUFFICES ASSUME NEW c \in 1..b - 1, NEW y2, y2 = CellAt(h, n, other, c)
                       PROVE  u[y2] # <<>> /\ u[y2][1] # other
          BY <1>1, <1>9 DEF Passes
        <4>2. y2 \in 1..n /\ t[y2] # <<>> /\ t[y2][1] # other
          BY <1>1, <3>3, <3>5, <4>1 DEF Passes
        <4> QED BY <1>3, <1>6, <1>9, <4>2
      <3> QED BY <1>9, <3>1, <3>2, <3>3, <3>6 DEF Arrives
    <2> QED BY <2>1, <2>2
  <1>12. WellPlaced(h, u)
    BY <1>9, <1>11 DEF WellPlaced
  <1>13. ASSUME NEW w
         PROVE  Holding(u, key, w) <=> w = v
    <2>1. u[x] = <<key, v>>
      BY <1>2, <1>7, <1>9
    <2>2. ASSUME NEW y \in 1..n, u[y] = <<key, w>>
          PROVE  w = v
      <3>0. \A z : <<key, z>> # <<>> /\ <<key, z>>[1] = key
        OBVIOUS
      <3>1. u[x] # <<>> /\ u[y] # <<>> /\ u[x][1] = key /\ u[y][1] = key
        BY <2>1, <2>2, <3>0
      <3>2. y = x
        BY <1>7, <1>9, <1>10, <1>12, <3>1, OneCell
      <3> QED BY <2>1, <2>2, <3>2
    <2> QED BY <1>7, <1>9, <2>1, <2>2 DEF Holding
  <1>14. ASSUME NEW other, other # key, NEW w
         PROVE  Holding(u, other, w) <=> Holding(t, other, w)
    <2>1. \A y \in 1..n : u[y] = <<other, w>> <=> t[y] = <<other, w>>
      <3>1. SUFFICES ASSUME NEW y \in 1..n PROVE u[y] = <<other, w>> <=> t[y] = <<other, w>>
        OBVIOUS
      <3>2. <<other, w>> # <<>> /\ <<other, w>>[1] = other
        OBVIOUS
      <3> QED BY <1>3, <1>6, <1>9, <1>14, <3>2
    <2> QED BY <1>1, <1>9, <2>1 DEF Holding
  <1> QED BY <1>1, <1>9, <1>10, <1>12, <1>13, <1>14 DEF Placed

(* A table with more cells than keys has an empty one, where the probing   *)
(* of every key stops.                                                     *)
LEMMA HasRoom ==
  ASSUME NEW h \in [Keys -> Nat], NEW t, IsTable(t), WellPlaced(h, t), NEW S, IsFiniteSet(S),
         \A x \in 1..Len(t) : t[x] # <<>> => t[x][1] \in S, Cardinality(S) < Len(t),
         NEW key \in Keys
  PROVE  StopsOf(h, t, key) # {}
  <1>1. PICK n \in Nat \ {0} : n = Len(t)
    BY DEF IsTable
  <1>2. PICK x \in 1..n : t[x] = <<>>
    <2>1. ASSUME \A x \in 1..n : t[x] # <<>>
          PROVE  FALSE
      <3>1. PICK f : f = [x \in 1..n |-> t[x][1]]
        OBVIOUS
      <3>2. f \in [1..n -> S]
        BY <1>1, <2>1, <3>1
      <3>3. \A x, y \in 1..n : f[x] = f[y] => x = y
        BY <1>1, <2>1, <3>1, OneCell
      <3>4. f \in Injection(1..n, S)
        BY <3>2, <3>3 DEF Injection, IsInjective
      <3>5. Cardinality(1..n) <= Cardinality(S)
        BY <3>4, FS_Injection
      <3>6. Cardinality(1..n) = n /\ Cardinality(S) \in Nat
        BY FS_Interval, FS_CardinalityType
      <3> QED BY <1>1, <3>5, <3>6
    <2> QED BY <2>1
  <1>3. PICK a \in 1..n : CellAt(h, n, key, a) = x
    BY CellsAround
  <1> QED BY <1>1, <1>2, <1>3 DEF StopsOf

(* rehash: the new table after the first n cells of the old one.           *)
Moves(t, m, f) ==
  f = [n \in 0..m |-> IF n = 0 THEN [x \in 1..2 * Len(t) |-> <<>>]
                      ELSE IF t[n] = <<>> THEN f[n - 1] ELSE Table!Place(f[n - 1], t[n])]
LEMMA MovesExist ==
  ASSUME NEW t, NEW m \in Nat
  PROVE  \E f : Moves(t, m, f)
  <1> DEFINE T == {n \in Nat : \A f : ~Moves(t, n, f)}
  <1>1. ASSUME T # {}
        PROVE  FALSE
    <2>1. \E n \in T : \A c \in T : n <= c
      <3>1. T \subseteq Nat
        OBVIOUS
      <3> HIDE DEF T
      <3> QED BY <1>1, <3>1, LeastNumber
    <2>2. PICK n \in T : \A c \in T : n <= c
      BY <2>1
    <2>3. n \in Nat /\ \A f : ~Moves(t, n, f)
      OBVIOUS
    <2>4. CASE n = 0
      <3>1. PICK z : z = [x \in 1..2 * Len(t) |-> <<>>]
        OBVIOUS
      <3>2. PICK f : f = [y \in 0..0 |-> z]
        OBVIOUS
      <3>3. \A y \in 0..0 : y = 0
        OBVIOUS
      <3>4. Moves(t, 0, f)
        BY <3>1, <3>2, <3>3 DEF Moves
      <3> QED BY <2>3, <2>4, <3>4
    <2>5. CASE n # 0
      <3>1. n - 1 \in Nat /\ n - 1 \notin T
        BY <2>2, <2>3, <2>5
      <3>2. PICK f : Moves(t, n - 1, f)
        BY <3>1
      <3>3. PICK z : z = IF t[n] = <<>> THEN f[n - 1] ELSE Table!Place(f[n - 1], t[n])
        OBVIOUS
      <3>4. PICK g : g = [y \in 0..n |-> IF y = n THEN z ELSE f[y]]
        OBVIOUS
      <3>5. ASSUME NEW y \in 0..n
            PROVE  g[y] = IF y = 0 THEN [x \in 1..2 * Len(t) |-> <<>>]
                          ELSE IF t[y] = <<>> THEN g[y - 1] ELSE Table!Place(g[y - 1], t[y])
        <4>1. CASE y = n
          <5>1. n - 1 \in 0..n /\ n - 1 # n
            BY <2>3, <2>5
          <5>2. g[n] = z /\ g[n - 1] = f[n - 1]
            BY <2>3, <3>4, <5>1
          <5> QED BY <2>5, <3>3, <4>1, <5>2
        <4>2. CASE y # n
          <5>1. y \in 0..n - 1 /\ (y # 0 => y - 1 \in 0..n /\ y - 1 # n)
            BY <2>3, <4>2
          <5>2. g[y] = f[y] /\ (y # 0 => g[y - 1] = f[y - 1])
            BY <3>4, <4>2, <5>1
          <5>3. f[y] = IF y = 0 THEN [x \in 1..2 * Len(t) |-> <<>>]
                       ELSE IF t[y] = <<>> THEN f[y - 1] ELSE Table!Place(f[y - 1], t[y])
            BY <3>2, <5>1 DEF Moves
          <5> QED BY <5>2, <5>3
        <4> QED BY <4>1, <4>2
      <3>6. Moves(t, n, g)
        BY <3>4, <3>5 DEF Moves
      <3> QED BY <2>3, <3>6
    <2> QED BY <2>4, <2>5
  <1> QED BY <1>1

LEMMA RehashMoves ==
  ASSUME NEW t, Len(t) \in Nat
  PROVE  \E f : Moves(t, Len(t), f) /\ Table!rehash(t) = f[Len(t)]
  <1> DEFINE Made == CHOOSE f : Moves(t, Len(t), f)
  <1>1. Moves(t, Len(t), Made)
    BY MovesExist
  <1>2. Table!rehash(t) = Made[Len(t)]
    BY DEF Table!rehash, Moves
  <1> QED BY <1>1, <1>2

(* It is placed well and holds what those cells hold. *)
MovedWell(h, t, n, u) ==
  /\ IsTable(u) /\ Len(u) = 2 * Len(t) /\ WellPlaced(h, u)
  /\ \A key, v : Holding(u, key, v) <=> \E x \in 1..n : t[x] = <<key, v>>
LEMMA MovedStart ==
  ASSUME NEW h, NEW t, IsTable(t), NEW u, u = [x \in 1..2 * Len(t) |-> <<>>]
  PROVE  MovedWell(h, t, 0, u)
  <1>1. PICK m \in Nat : m = 2 * Len(t) /\ m # 0
    BY DEF IsTable
  <1>2. u \in [1..m -> TableCells]
    BY <1>1 DEF TableCells
  <1>3. u \in Seq(TableCells) /\ Len(u) = m
    BY <1>2, SequenceOf
  <1>4. \A x \in 1..m : u[x] = <<>>
    BY <1>1
  <1>5. \A key, v : <<key, v>> # <<>>
    OBVIOUS
  <1>6. \A key, v : ~Holding(u, key, v)
    BY <1>3, <1>4, <1>5 DEF Holding
  <1>7. WellPlaced(h, u)
    BY <1>3, <1>4 DEF WellPlaced
  <1>8. \A key, v : ~\E x \in 1..0 : t[x] = <<key, v>>
    OBVIOUS
  <1>9. IsTable(u) /\ Len(u) = 2 * Len(t)
    BY <1>1, <1>3 DEF IsTable
  <1> QED BY <1>6, <1>7, <1>8, <1>9 DEF MovedWell

CellsOf(t) == \A x \in 1..Len(t) : t[x] # <<>> => /\ t[x][1] \in Keys /\ t[x][2] \in Vals
                                                  /\ t[x] = <<t[x][1], t[x][2]>>
LEMMA CellsHold == ASSUME NEW t, IsTable(t) PROVE CellsOf(t)
  <1>1. SUFFICES ASSUME NEW x \in 1..Len(t), t[x] # <<>>
                 PROVE  /\ t[x][1] \in Keys /\ t[x][2] \in Vals /\ t[x] = <<t[x][1], t[x][2]>>
    BY DEF CellsOf
  <1>2. t[x] \in TableCells
    BY <1>1, ElementOfSeq DEF IsTable
  <1> QED BY <1>1, <1>2 DEF TableCells

LEMMA MovedNext ==
  ASSUME NEW h, h = hasher_, h \in [Keys -> Nat], NEW t, IsTable(t), WellPlaced(h, t),
         NEW S, IsFiniteSet(S), \A x \in 1..Len(t) : t[x] # <<>> => t[x][1] \in S,
         Cardinality(S) <= Len(t), NEW n \in 1..Len(t), NEW s, MovedWell(h, t, n - 1, s),
         NEW u, u = IF t[n] = <<>> THEN s ELSE Table!Place(s, t[n])
  PROVE  MovedWell(h, t, n, u)
  <1>1. PICK m \in Nat \ {0} : m = Len(t)
    BY DEF IsTable
  <1>2. /\ IsTable(s) /\ Len(s) = 2 * m /\ WellPlaced(h, s)
        /\ \A key, v : Holding(s, key, v) <=> \E x \in 1..n - 1 : t[x] = <<key, v>>
    BY <1>1 DEF MovedWell
  <1>3. \A key, v : <<key, v>> # <<>> /\ <<key, v>>[1] = key /\ <<key, v>>[2] = v
    OBVIOUS
  <1>4. n \in 1..m /\ \A x : x \in 1..n <=> x \in 1..n - 1 \/ x = n
    BY <1>1
  <1>5. CASE t[n] = <<>>
    <2>1. ASSUME NEW key, NEW v
          PROVE  Holding(s, key, v) <=> \E x \in 1..n : t[x] = <<key, v>>
      BY <1>2, <1>3, <1>4, <1>5
    <2>2. u = s
      BY <1>5
    <2> QED BY <1>1, <1>2, <2>1, <2>2 DEF MovedWell
  <1>6. CASE t[n] # <<>>
    <2>1. PICK key, v : key = t[n][1] /\ v = t[n][2]
      OBVIOUS
    <2>2. key \in Keys /\ v \in Vals /\ t[n] = <<key, v>>
      BY <1>6, <2>1, CellsHold DEF CellsOf
    <2>3. u = Table!Place(s, <<key, v>>)
      BY <1>6, <2>2
    <2>4. \A x \in 1..Len(s) : s[x] # <<>> => s[x][1] \in S
      <3>1. SUFFICES ASSUME NEW x \in 1..Len(s), s[x] # <<>> PROVE s[x][1] \in S
        OBVIOUS
      <3>2. s[x] = <<s[x][1], s[x][2]>>
        BY <1>2, <3>1, CellsHold DEF CellsOf
      <3>3. PICK y \in 1..n - 1 : t[y] = <<s[x][1], s[x][2]>>
        BY <1>2, <3>1, <3>2 DEF Holding
      <3>4. y \in 1..m /\ t[y] # <<>> /\ t[y][1] = s[x][1]
        BY <1>3, <1>4, <3>3
      <3> QED BY <1>1, <3>4
    <2>5. Cardinality(S) < Len(s)
      <3>1. Cardinality(S) \in Nat /\ Cardinality(S) <= m
        BY <1>1, FS_CardinalityType
      <3> QED BY <1>2, <3>1
    <2>6. StopsOf(h, s, key) # {}
      BY <1>2, <2>2, <2>4, <2>5, HasRoom
    <2>7. Placed(h, s, key, v, u)
      BY <1>2, <2>2, <2>3, <2>6, PlacedRight
    <2>8. ASSUME NEW w
          PROVE  Holding(u, key, w) <=> \E x \in 1..n : t[x] = <<key, w>>
      <3>1. Holding(u, key, w) <=> w = v
        BY <2>7 DEF Placed
      <3>2. ASSUME NEW x \in 1..n, t[x] = <<key, w>>
            PROVE  w = v
        <4>1. x \in 1..Len(t) /\ t[x] # <<>> /\ t[x][1] = t[n][1] /\ t[x][2] = w
          BY <1>1, <1>3, <1>4, <2>1, <3>2
        <4>2. x = n
          BY <1>1, <1>4, <1>6, <4>1, OneCell
        <4> QED BY <2>1, <4>1, <4>2
      <3> QED BY <1>4, <2>2, <3>1, <3>2
    <2>9. ASSUME NEW other, other # key, NEW w
          PROVE  Holding(u, other, w) <=> \E x \in 1..n : t[x] = <<other, w>>
      <3>1. Holding(u, other, w) <=> Holding(s, other, w)
        BY <2>7, <2>9 DEF Placed
      <3>2. t[n] # <<other, w>>
        BY <1>3, <2>2, <2>9
      <3> QED BY <1>2, <1>4, <3>1, <3>2
    <2>10. IsTable(u) /\ Len(u) = 2 * Len(t) /\ WellPlaced(h, u)
      BY <1>1, <1>2, <2>7 DEF Placed
    <2> QED BY <2>8, <2>9, <2>10 DEF MovedWell
  <1> QED BY <1>5, <1>6

LEMMA RehashRight ==
  ASSUME NEW h, h = hasher_, h \in [Keys -> Nat], NEW t, IsTable(t), WellPlaced(h, t),
         NEW S, IsFiniteSet(S), \A x \in 1..Len(t) : t[x] # <<>> => t[x][1] \in S,
         Cardinality(S) <= Len(t)
  PROVE  MovedWell(h, t, Len(t), Table!rehash(t))
  <1>1. PICK m \in Nat : m = Len(t)
    BY DEF IsTable
  <1>2. PICK f : Moves(t, m, f) /\ Table!rehash(t) = f[m]
    BY <1>1, RehashMoves
  <1>3. \A n \in 0..m : f[n] = IF n = 0 THEN [x \in 1..2 * Len(t) |-> <<>>]
                               ELSE IF t[n] = <<>> THEN f[n - 1] ELSE Table!Place(f[n - 1], t[n])
    BY <1>2 DEF Moves
  <1> DEFINE T == {n \in 0..m : ~MovedWell(h, t, n, f[n])}
  <1>4. ASSUME T # {}
        PROVE  FALSE
    <2>1. \E n \in T : \A c \in T : n <= c
      <3>1. T \subseteq Nat
        OBVIOUS
      <3> HIDE DEF T
      <3> QED BY <1>4, <3>1, LeastNumber
    <2>2. PICK n \in T : \A c \in T : n <= c
      BY <2>1
    <2>3. n \in 0..m /\ ~MovedWell(h, t, n, f[n])
      OBVIOUS
    <2>4. n # 0
      <3>1. ASSUME n = 0
            PROVE  FALSE
        <4>1. f[0] = [x \in 1..2 * Len(t) |-> <<>>]
          BY <1>3, <2>3, <3>1
        <4>2. MovedWell(h, t, 0, f[0])
          BY <4>1, MovedStart
        <4> QED BY <2>3, <3>1, <4>2
      <3> QED BY <3>1
    <2>5. n - 1 \in 0..m /\ n - 1 \notin T /\ n \in 1..m
      BY <2>2, <2>3, <2>4
    <2>6. MovedWell(h, t, n - 1, f[n - 1])
      BY <2>5
    <2>7. PICK s, u : s = f[n - 1] /\ u = f[n]
      OBVIOUS
    <2>8. u = IF t[n] = <<>> THEN s ELSE Table!Place(s, t[n])
      BY <1>3, <2>3, <2>4, <2>7
    <2>9. MovedWell(h, t, n, u)
      <3>1. n \in 1..Len(t) /\ MovedWell(h, t, n - 1, s)
        BY <1>1, <2>5, <2>6, <2>7
      <3> HIDE DEF T
      <3> QED BY <2>8, <3>1, MovedNext
    <2> QED BY <2>3, <2>7, <2>9
  <1>5. m \in 0..m
    OBVIOUS
  <1> QED BY <1>1, <1>2, <1>4, <1>5

(* The table holds the last value of every key, and has as many cells as   *)
(* keys at least, so that the one doubled has more.                        *)
KeysOf(c) == {key \in Keys : c[key] # 0}
HashInv ==
  /\ hasher_ \in [Keys -> Nat] /\ IsTable(table_) /\ WellPlaced(hasher_, table_)
  /\ contents \in [Keys -> Vals \cup {0}]
  /\ \A key \in Keys, v \in Vals : Holding(table_, key, v) <=> contents[key] = v
  /\ IsFiniteSet(KeysOf(contents)) /\ size_ = Cardinality(KeysOf(contents))
  /\ size_ <= Len(table_)

LEMMA HashInit == Init => HashInv
  <1> SUFFICES ASSUME Init PROVE HashInv
    OBVIOUS
  <1>1. /\ hasher_ \in [Keys -> Hashes] /\ size_ = 0 /\ contents = [key \in Keys |-> 0]
    BY DEF Init, Table!Init, Table!NoValue
  <1>2. PICK n \in Capacities : table_ = [x \in 1..n |-> <<>>]
    BY DEF Init, Table!Init
  <1>3. n \in Nat \ {0} /\ hasher_ \in [Keys -> Nat]
    BY <1>1, CapacitiesAssumption
  <1>4. table_ \in [1..n -> TableCells]
    BY <1>2 DEF TableCells
  <1>5. table_ \in Seq(TableCells) /\ Len(table_) = n
    BY <1>3, <1>4, SequenceOf
  <1>6. \A x \in 1..n : table_[x] = <<>>
    BY <1>2
  <1>7. \A key, v : <<key, v>> # <<>>
    OBVIOUS
  <1>8. IsTable(table_) /\ WellPlaced(hasher_, table_) /\ \A key, v : ~Holding(table_, key, v)
    BY <1>3, <1>5, <1>6, <1>7 DEF IsTable, WellPlaced, Holding
  <1>9. KeysOf(contents) = {}
    BY <1>1 DEF KeysOf
  <1>10. IsFiniteSet(KeysOf(contents)) /\ Cardinality(KeysOf(contents)) = 0
    BY <1>9, FS_EmptySet
  <1>11. \A key \in Keys, v \in Vals : contents[key] # v
    BY <1>1, ValuesAssumption
  <1> QED BY <1>1, <1>3, <1>5, <1>8, <1>10, <1>11 DEF HashInv

(* So find returns that value. *)
LEMMA FindsContents ==
  ASSUME NEW t, IsTable(t), WellPlaced(hasher_, t), hasher_ \in [Keys -> Nat],
         NEW c \in [Keys -> Vals \cup {0}], NEW key \in Keys,
         \A v \in Vals : Holding(t, key, v) <=> c[key] = v
  PROVE  Table!find(t, key) = c[key]
  <1>1. CASE c[key] \in Vals
    BY <1>1, FindsHeld
  <1>2. CASE c[key] = 0
    <2>1. ASSUME NEW v, Holding(t, key, v)
          PROVE  v \in Vals
      <3>1. PICK x \in 1..Len(t) : t[x] = <<key, v>>
        BY <2>1 DEF Holding
      <3>2. t[x] # <<>> /\ t[x][2] = v
        BY <3>1
      <3> QED BY <3>2, CellsHold DEF CellsOf
    <2>2. \A v : ~Holding(t, key, v)
      BY <1>2, <2>1, ValuesAssumption
    <2> QED BY <1>2, <2>2, FindsHeld
  <1> QED BY <1>1, <1>2

LEMMA HashInsert ==
  ASSUME HashInv, Table!Next
  PROVE  HashInv'
  <1>1. PICK key \in Keys, v \in Vals : Table!insert(key, v)
    BY DEF Table!Next
  <1>2. PICK h, t, S : h = hasher_ /\ t = table_ /\ S = KeysOf(contents)
    OBVIOUS
  <1>3. /\ h \in [Keys -> Nat] /\ IsTable(t) /\ WellPlaced(h, t)
        /\ contents \in [Keys -> Vals \cup {0}]
        /\ \A other \in Keys, w \in Vals : Holding(t, other, w) <=> contents[other] = w
        /\ IsFiniteSet(S) /\ size_ = Cardinality(S) /\ size_ <= Len(t)
    BY <1>2 DEF HashInv
  <1>4. PICK m \in Nat \ {0} : m = Len(t)
    BY <1>3 DEF IsTable
  <1>5. size_ \in Nat
    BY <1>3, FS_CardinalityType
  <1>6. PICK u : u = IF size_ * 2 >= m THEN Table!rehash(t) ELSE t
    OBVIOUS
  <1>7. /\ table_' = Table!Place(u, <<key, v>>) /\ hasher_' = h
        /\ size_' = IF Table!find(u, key) = 0 THEN size_ + 1 ELSE size_
        /\ contents' = [contents EXCEPT ![key] = v]
    BY <1>1, <1>2, <1>4, <1>6 DEF Table!insert, Table!NoValue
  <1>8. ASSUME NEW x \in 1..Len(t), t[x] # <<>>
        PROVE  t[x][1] \in S
    <2>1. t[x][1] \in Keys /\ t[x][2] \in Vals /\ t[x] = <<t[x][1], t[x][2]>>
      BY <1>3, <1>8, CellsHold DEF CellsOf
    <2>2. Holding(t, t[x][1], t[x][2])
      BY <2>1 DEF Holding
    <2>3. contents[t[x][1]] = t[x][2]
      BY <1>3, <2>1, <2>2
    <2> QED BY <1>2, <2>1, <2>3, ValuesAssumption DEF KeysOf
  <1>9. /\ IsTable(u) /\ WellPlaced(h, u) /\ size_ < Len(u)
        /\ \A other, w : Holding(u, other, w) <=> Holding(t, other, w)
    <2>1. CASE size_ * 2 >= m
      <3>1. MovedWell(h, t, m, u)
        BY <1>2, <1>3, <1>4, <1>6, <1>8, <2>1, RehashRight
      <3>2. IsTable(u) /\ WellPlaced(h, u) /\ Len(u) = 2 * m
        BY <1>4, <3>1 DEF MovedWell
      <3>3. \A other, w : Holding(u, other, w) <=> Holding(t, other, w)
        BY <1>4, <3>1 DEF MovedWell, Holding
      <3>4. size_ < 2 * m
        BY <1>3, <1>4, <1>5
      <3> QED BY <3>2, <3>3, <3>4
    <2>2. CASE ~(size_ * 2 >= m)
      <3>1. u = t /\ size_ < m
        BY <1>4, <1>5, <1>6, <2>2
      <3> QED BY <1>3, <1>4, <3>1
    <2> QED BY <2>1, <2>2
  <1>10. \A x \in 1..Len(u) : u[x] # <<>> => u[x][1] \in S
    <2>1. SUFFICES ASSUME NEW x \in 1..Len(u), u[x] # <<>> PROVE u[x][1] \in S
      OBVIOUS
    <2>2. u[x] = <<u[x][1], u[x][2]>>
      BY <1>9, <2>1, CellsHold DEF CellsOf
    <2>3. Holding(t, u[x][1], u[x][2])
      BY <1>9, <2>1, <2>2 DEF Holding
    <2>4. PICK y \in 1..Len(t) : t[y] = <<u[x][1], u[x][2]>>
      BY <2>3 DEF Holding
    <2>5. t[y] # <<>> /\ t[y][1] = u[x][1]
      BY <2>4
    <2> QED BY <1>8, <2>5
  <1>11. PICK z : z = table_'
    OBVIOUS
  <1>12. Placed(h, u, key, v, z)
    <2>1. StopsOf(h, u, key) # {}
      BY <1>3, <1>9, <1>10, HasRoom
    <2> QED BY <1>2, <1>3, <1>7, <1>9, <1>11, <2>1, PlacedRight
  <1>13. Table!find(u, key) = contents[key]
    <2>1. PICK c : c = contents
      OBVIOUS
    <2>2. c \in [Keys -> Vals \cup {0}] /\ \A w \in Vals : Holding(u, key, w) <=> c[key] = w
      BY <1>3, <1>9, <2>1
    <2>3. IsTable(u) /\ WellPlaced(hasher_, u) /\ hasher_ \in [Keys -> Nat]
      BY <1>2, <1>3, <1>9
    <2> QED BY <2>1, <2>2, <2>3, FindsContents
  <1>14. /\ contents' \in [Keys -> Vals \cup {0}] /\ contents'[key] = v
         /\ \A other \in Keys : other # key => contents'[other] = contents[other]
    BY <1>3, <1>7
  <1>15. ASSUME NEW other \in Keys, NEW w \in Vals
         PROVE  Holding(z, other, w) <=> contents'[other] = w
    <2>1. CASE other = key
      <3>1. Holding(z, key, w) <=> w = v
        BY <1>12 DEF Placed
      <3> QED BY <1>14, <2>1, <3>1
    <2>2. CASE other # key
      <3>1. Holding(z, other, w) <=> Holding(u, other, w)
        BY <1>12, <2>2 DEF Placed
      <3> QED BY <1>3, <1>9, <1>14, <2>2, <3>1
    <2> QED BY <2>1, <2>2
  <1>16. KeysOf(contents') = S \cup {key}
    <2>1. v # 0
      BY ValuesAssumption
    <2> QED BY <1>2, <1>14, <2>1 DEF KeysOf
  <1>17. /\ IsFiniteSet(S \cup {key})
         /\ Cardinality(S \cup {key}) = IF key \in S THEN Cardinality(S) ELSE Cardinality(S) + 1
    BY <1>3, FS_AddElement
  <1>18. key \in S <=> contents[key] # 0
    BY <1>2 DEF KeysOf
  <1>19. size_' = Cardinality(S \cup {key})
    BY <1>3, <1>7, <1>13, <1>17, <1>18
  <1>20. IsTable(z) /\ Len(z) = Len(u) /\ WellPlaced(h, z)
    BY <1>12 DEF Placed
  <1>21. size_' <= Len(z)
    <2>1. Len(u) \in Nat
      BY <1>9 DEF IsTable
    <2> QED BY <1>5, <1>7, <1>9, <1>20, <2>1
  <1> QED BY <1>3, <1>7, <1>11, <1>14, <1>15, <1>16, <1>17, <1>19, <1>20, <1>21 DEF HashInv

LEMMA HashStep ==
  ASSUME HashInv, [Next]_vars
  PROVE  HashInv'
  <1>1. CASE UseTable
    BY <1>1, HashInsert DEF UseTable
  <1>2. CASE UNCHANGED tableVars
    BY <1>2 DEF tableVars, HashInv
  <1>3. UseTable \/ UNCHANGED tableVars
    BY DEF Next, vars, storage, UseContainer, UseCache, UsePool, UseBook, UseBucket, UseWheel,
           RunAlgorithm, RunSearch, RunServer
  <1> QED BY <1>1, <1>2, <1>3

LEMMA TableCardinality == \A S : Table!Cardinality(S) = Cardinality(S)
  BY DEF Table!Cardinality, Cardinality, IsFiniteSet, Table!IsFiniteSet

(* TableIsMap: whatever the hash function and the capacities, however many *)
(* keys share their cells and however often the table was doubled.         *)
THEOREM EveryKeyIsFound == Spec => []TableIsMap
  <1>1. HashInv => TableIsMap
    <2> SUFFICES ASSUME HashInv PROVE Table!TableIsMap
      BY DEF TableIsMap
    <2>1. ASSUME NEW key \in Keys
          PROVE  Table!find(table_, key) = contents[key]
      <3>1. PICK t, c : t = table_ /\ c = contents
        OBVIOUS
      <3>2. /\ IsTable(t) /\ WellPlaced(hasher_, t) /\ hasher_ \in [Keys -> Nat]
            /\ c \in [Keys -> Vals \cup {0}]
            /\ \A v \in Vals : Holding(t, key, v) <=> c[key] = v
        BY <3>1 DEF HashInv
      <3> QED BY <3>1, <3>2, FindsContents
    <2>2. size_ = Table!Cardinality({key \in Keys : contents[key] # 0})
      BY TableCardinality DEF HashInv, KeysOf
    <2> QED BY <2>1, <2>2 DEF Table!TableIsMap, Table!Quantify, Table!NoValue
  <1>2. HashInv /\ [Next]_vars => HashInv'
    BY HashStep
  <1> QED BY <1>1, <1>2, HashInit, PTL DEF Spec
=============================================================================
