------------------------- MODULE RTMPPlaylistProofs -------------------------
(***************************************************************************)
(* What holds of RTMPPlaylist for any playlists, points and bounds.        *)
(*                                                                         *)
(* The timeline is a recursion over the items: that it is a function, and  *)
(* what it depends on, is proved from the least counterexample.  The       *)
(* invariant is about InsertItem, which calls itself with an index it has  *)
(* taken back: the point it looks for stays in the playlist, so it ends at *)
(* the item that plays and the index is the one of that item again.        *)
(***************************************************************************)
EXTENDS RTMPPlaylist, SequenceTheorems, WellFoundedInduction, TLAPS

Item == [id : 1..MaxId, kind : Kinds, dur : Int]

Stream == [item : 1..MaxId, kind : Kinds, in : {"none", "file", "live"},
           at : 0..MaxHead, end : -1..MaxHead, paused : BOOLEAN, gop : BOOLEAN]

-----------------------------------------------------------------------------
(* The timeline.                                                           *)

\* A set of naturals that is not empty, of counterexamples say, has a first.
LEMMA LeastNatural ==
    ASSUME NEW S \in SUBSET Nat, S # {}
    PROVE  \E n \in S : \A m \in S : n <= m
<1> DEFINE R == OpToRel(<, Nat)
<1>1. IsWellFoundedOn(R, Nat)
  BY NatLessThanWellFounded
<1>2. PICK n \in S : \A m \in S : <<m, n>> \notin R
  BY <1>1, WFMin
<1>3. \A m, k \in Nat : m < k => <<m, k>> \in R
  BY DEF OpToRel
<1> HIDE DEF R
<1>4. \A m \in S : ~ (m < n)
  BY <1>2, <1>3, Zenon
<1> QED
  BY <1>4

\* Where the item after one that starts at a and plays for d starts.
After(a, d) == IF a < 0 \/ d < 0 THEN -1 ELSE a + d

\* The recursion of the timeline as a function that exists.
LEMMA Starts ==
    ASSUME NEW s \in Seq(Item)
    PROVE  /\ PlaylistStarts(s) \in [1..Len(s) -> Int]
           /\ \A i \in 1..Len(s) : PlaylistStarts(s)[i] =
                IF i = 1 THEN 0 ELSE After(PlaylistStarts(s)[i - 1], s[i - 1].dur)
<1>1. PICK n \in Nat : n = Len(s)
  OBVIOUS
<1> DEFINE d(i) == s[i].dur
           IsStart(f, m) == /\ f \in [1..m -> Int]
                            /\ \A i \in 1..m : f[i] = IF i = 1 THEN 0 ELSE After(f[i - 1], d(i - 1))
           Missing == {m \in 0..n : ~ \E f : IsStart(f, m)}
<1>2. \A i \in 1..n : d(i) \in Int
  <2> SUFFICES ASSUME NEW i \in 1..n PROVE s[i].dur \in Int
    OBVIOUS
  <2>1. s[i] \in Item
    BY <1>1, ElementOfSeq
  <2> QED BY <2>1 DEF Item
<1> HIDE DEF d
<1>3. \A a, b \in Int : After(a, b) \in Int
  BY DEF After
<1>4. Missing = {}
  <2> SUFFICES ASSUME Missing # {} PROVE FALSE
    OBVIOUS
  <2>1. PICK m \in Missing : \A k \in Missing : m <= k
    <3>1. Missing \in SUBSET Nat
      OBVIOUS
    <3> HIDE DEF Missing
    <3> QED BY <3>1, LeastNatural
  <2>2. m # 0
    <3>1. IsStart([i \in 1..0 |-> 0], 0)
      OBVIOUS
    <3> QED BY <3>1
  <2> HIDE DEF IsStart
  <2>3. m \in 1..n /\ m - 1 \in 0..n /\ m - 1 \in Nat
    BY <2>1, <2>2
  <2>4. PICK f : IsStart(f, m - 1)
    BY <2>1, <2>3
  <2> USE DEF IsStart
  <2> DEFINE last == IF m = 1 THEN 0 ELSE After(f[m - 1], d(m - 1))
             g == [i \in 1..m |-> IF i = m THEN last ELSE f[i]]
  <2>5. last \in Int
    <3>1. CASE m = 1
      BY <3>1
    <3>2. CASE m # 1
      <4>1. m - 1 \in 1..m - 1 /\ m - 1 \in 1..n
        BY <3>2, <2>3
      <4>2. f[m - 1] \in Int /\ d(m - 1) \in Int
        BY <4>1, <2>4, <1>2
      <4> QED BY <3>2, <4>2, <1>3
    <3> QED BY <3>1, <3>2
  <2> HIDE DEF last
  <2>6. g \in [1..m -> Int]
    BY <2>3, <2>4, <2>5
  <2>7. ASSUME NEW i \in 1..m PROVE g[i] = IF i = 1 THEN 0 ELSE After(g[i - 1], d(i - 1))
    <3>1. CASE i = m
      <4>1. i # 1 => g[i - 1] = f[i - 1]
        BY <3>1, <2>3
      <4>2. g[i] = last
        BY <3>1, <2>3
      <4> HIDE DEF g
      <4> QED BY <3>1, <4>1, <4>2 DEF last
    <3>2. CASE i # m
      <4>1. i \in 1..m - 1
        BY <3>2, <2>3
      <4>2. g[i] = f[i] /\ (i # 1 => g[i - 1] = f[i - 1])
        BY <4>1, <2>3
      <4> HIDE DEF g
      <4> QED BY <4>1, <4>2, <2>4
    <3> QED BY <3>1, <3>2
  <2> HIDE DEF g
  <2>8. IsStart(g, m)
    BY <2>6, <2>7
  <2> QED BY <2>8, <2>1
<1>5. PICK f : IsStart(f, n)
  BY <1>4
<1> DEFINE body(g) == [i \in 1..Len(s) |-> IF i = 1 THEN 0
                                           ELSE IF g[i - 1] < 0 \/ s[i - 1].dur < 0 THEN -1
                                           ELSE g[i - 1] + s[i - 1].dur]
           start == CHOOSE g : g = body(g)
<1>6. \A g : body(g) = [i \in 1..n |-> IF i = 1 THEN 0 ELSE After(g[i - 1], d(i - 1))]
  BY <1>1 DEF After, d
<1>7. f = body(f)
  <2> HIDE DEF body
  <2> QED BY <1>5, <1>6
<1>8. start = body(start)
  <2> HIDE DEF body
  <2> QED BY <1>7
<1>9. PlaylistStarts(s) = start
  BY DEF PlaylistStarts
<1> HIDE DEF body, start
<1>10. start = [i \in 1..n |-> IF i = 1 THEN 0 ELSE After(start[i - 1], d(i - 1))]
  BY <1>8, <1>6
<1>11. PICK t : t = start
  OBVIOUS
<1>12. t = [i \in 1..n |-> IF i = 1 THEN 0 ELSE After(t[i - 1], d(i - 1))]
  BY <1>10, <1>11
<1>13. DOMAIN t = 1..n
  BY <1>12
<1>14. \A i \in 1..n : t[i] = IF i = 1 THEN 0 ELSE After(t[i - 1], d(i - 1))
  BY <1>12
<1>15. \A i \in 1..n : t[i] \in Int
  <2> DEFINE Bad == {i \in 1..n : t[i] \notin Int}
  <2> SUFFICES ASSUME Bad # {} PROVE FALSE
    OBVIOUS
  <2>1. PICK k \in Bad : \A j \in Bad : k <= j
    <3>1. Bad \in SUBSET Nat
      OBVIOUS
    <3> HIDE DEF Bad
    <3> QED BY <3>1, LeastNatural
  <2>2. k # 1
    BY <1>14
  <2>3. k - 1 \in 1..n /\ k - 1 \notin Bad
    BY <2>1, <2>2
  <2> QED BY <2>1, <2>2, <2>3, <1>2, <1>3, <1>14
<1>16. t \in [1..n -> Int]
  BY <1>12, <1>13, <1>15
<1> QED
  BY <1>1, <1>9, <1>11, <1>14, <1>16 DEF d

\* What comes after an item does not change when it starts.
LEMMA SameStart ==
    ASSUME NEW s \in Seq(Item), NEW u \in Seq(Item), NEW n \in 1..Len(s), n \in 1..Len(u),
           \A j \in 1..n - 1 : s[j].dur = u[j].dur
    PROVE  PlaylistStarts(s)[n] = PlaylistStarts(u)[n]
<1>1. PICK f : f = PlaylistStarts(s)
  OBVIOUS
<1>2. PICK g : g = PlaylistStarts(u)
  OBVIOUS
<1>3. /\ \A i \in 1..n : f[i] = IF i = 1 THEN 0 ELSE After(f[i - 1], s[i - 1].dur)
      /\ \A i \in 1..n : g[i] = IF i = 1 THEN 0 ELSE After(g[i - 1], u[i - 1].dur)
  <2>1. Len(s) \in Nat /\ Len(u) \in Nat
    OBVIOUS
  <2>2. \A i \in 1..n : i \in 1..Len(s) /\ i \in 1..Len(u)
    BY <2>1
  <2>3. \A i \in 1..Len(s) : f[i] = IF i = 1 THEN 0 ELSE After(f[i - 1], s[i - 1].dur)
    BY <1>1, Starts
  <2>4. \A i \in 1..Len(u) : g[i] = IF i = 1 THEN 0 ELSE After(g[i - 1], u[i - 1].dur)
    BY <1>2, Starts
  <2> QED BY <2>2, <2>3, <2>4
<1> n \in Nat
  OBVIOUS
<1> DEFINE Bad == {i \in 1..n : f[i] # g[i]}
<1> SUFFICES ASSUME Bad # {} PROVE FALSE
  BY <1>1, <1>2
<1>4. PICK k \in Bad : \A j \in Bad : k <= j
  <2>1. Bad \in SUBSET Nat
    OBVIOUS
  <2> HIDE DEF Bad
  <2> QED BY <2>1, LeastNatural
<1>5. k # 1
  BY <1>3
<1>6. k - 1 \in 1..n - 1 /\ k - 1 \notin Bad /\ k - 1 \in 1..n
  BY <1>4, <1>5
<1>7. f[k - 1] = g[k - 1] /\ s[k - 1].dur = u[k - 1].dur
  BY <1>6
<1>8. f[k] = g[k]
  BY <1>3, <1>5, <1>7
<1> QED BY <1>4, <1>8

-----------------------------------------------------------------------------
(* What an insertion makes of the items.                                   *)

LEMMA ItemsBefore ==
    ASSUME NEW s \in Seq(Item), NEW i \in 1..Len(s), NEW a, a = SubSeq(s, 1, i - 1)
    PROVE  a \in Seq(Item) /\ Len(a) = i - 1 /\ \A j \in 1..i - 1 : a[j] = s[j]
<1>1. PICK n \in Nat : n = Len(s)
  OBVIOUS
<1>2. i \in 1..n /\ \A j \in 1..n : s[j] \in Item
  BY <1>1, ElementOfSeq
<1>3. \A j \in 1..i - 1 : s[j] \in Item
  BY <1>2
<1>4. i - 1 \in Int /\ (1 <= i - 1 => i - 1 - 1 + 1 = i - 1) /\ (~ (1 <= i - 1) => i - 1 = 0)
  BY <1>2
<1>5. /\ a \in Seq(Item)
      /\ Len(a) = IF 1 <= i - 1 THEN i - 1 - 1 + 1 ELSE 0
      /\ \A j \in 1..i - 1 - 1 + 1 : a[j] = s[1 + j - 1]
  BY <1>3, <1>4, SubSeqProperties
<1>6. ASSUME NEW j \in 1..i - 1 PROVE a[j] = s[j]
  <2>1. j \in 1..i - 1 - 1 + 1 /\ 1 + j - 1 = j
    BY <1>2
  <2> QED BY <1>5, <2>1
<1> QED BY <1>4, <1>5, <1>6

LEMMA ItemsFrom ==
    ASSUME NEW s \in Seq(Item), NEW n \in Nat, n = Len(s), NEW m \in 1..n + 1,
           NEW c, c = SubSeq(s, m, n)
    PROVE  c \in Seq(Item) /\ Len(c) = n - m + 1 /\ \A j \in m..n : c[j - m + 1] = s[j]
<1>1. \A j \in m..n : s[j] \in Item
  BY ElementOfSeq
<1>2. m \in Int /\ n \in Int /\ (~ (m <= n) => n - m + 1 = 0)
  OBVIOUS
<1>3. /\ c \in Seq(Item)
      /\ Len(c) = IF m <= n THEN n - m + 1 ELSE 0
      /\ \A j \in 1..n - m + 1 : c[j] = s[m + j - 1]
  BY <1>1, <1>2, SubSeqProperties
<1>4. ASSUME NEW j \in m..n PROVE c[j - m + 1] = s[j]
  <2>1. j - m + 1 \in 1..n - m + 1 /\ m + (j - m + 1) - 1 = j
    OBVIOUS
  <2> QED BY <1>3, <2>1
<1> QED BY <1>2, <1>3, <1>4

\* x is put before the item at i.
PutAt(u, s, i, x) ==
    /\ u \in Seq(Item) /\ Len(u) = Len(s) + 1
    /\ \A j \in 1..i - 1 : u[j] = s[j]
    /\ u[i] = x
    /\ \A j \in i..Len(s) : u[j + 1] = s[j]

LEMMA InsertPuts ==
    ASSUME NEW s \in Seq(Item), NEW i \in 1..Len(s), NEW x \in Item
    PROVE  PutAt(Insert(s, i, <<x>>), s, i, x)
<1>1. PICK n \in Nat : n = Len(s)
  OBVIOUS
<1>2. i \in 1..n /\ \A j \in 1..n : s[j] \in Item
  BY <1>1, ElementOfSeq
<1>3. PICK a : a = SubSeq(s, 1, i - 1)
  OBVIOUS
<1>4. PICK c : c = SubSeq(s, i, n)
  OBVIOUS
<1>5. /\ a \in Seq(Item) /\ Len(a) = i - 1
      /\ \A j \in 1..i - 1 : a[j] = s[j]
  BY <1>3, ItemsBefore
<1>6. /\ c \in Seq(Item) /\ Len(c) = n - i + 1
      /\ \A j \in i..n : c[j - i + 1] = s[j]
  BY <1>1, <1>2, <1>4, ItemsFrom
<1>7. PICK b : b = <<x>>
  OBVIOUS
<1>8. b \in Seq(Item) /\ Len(b) = 1 /\ b[1] = x
  BY <1>7
<1>9. PICK d : d = a \o b
  OBVIOUS
<1>10. /\ d \in Seq(Item) /\ Len(d) = i
       /\ \A j \in 1..i - 1 : d[j] = s[j]
       /\ d[i] = x
  <2>1. /\ d \in Seq(Item) /\ Len(d) = Len(a) + Len(b)
        /\ \A j \in 1..Len(a) + Len(b) : d[j] = IF j <= Len(a) THEN a[j] ELSE b[j - Len(a)]
    <3>1. a \in Seq(Item) /\ b \in Seq(Item)
      BY <1>5, <1>8
    <3> QED BY <1>9, <3>1, ConcatProperties
  <2>2. Len(a) + Len(b) = i
    BY <1>2, <1>5, <1>8
  <2>3. \A j \in 1..i : d[j] = IF j <= i - 1 THEN a[j] ELSE b[j - (i - 1)]
    BY <1>5, <2>1, <2>2
  <2>4. \A j \in 1..i - 1 : j \in 1..i /\ j <= i - 1
    BY <1>2
  <2>5. i \in 1..i /\ ~ (i <= i - 1) /\ i - (i - 1) = 1
    BY <1>2
  <2>6. d[i] = x
    BY <1>8, <2>3, <2>5
  <2>7. \A j \in 1..i - 1 : d[j] = s[j]
    BY <1>5, <2>3, <2>4
  <2> QED BY <2>1, <2>2, <2>6, <2>7
<1>11. PICK u : u = d \o c
  OBVIOUS
<1>12. /\ u \in Seq(Item) /\ Len(u) = n + 1
       /\ \A j \in 1..n + 1 : u[j] = IF j <= i THEN d[j] ELSE c[j - i]
  <2>1. /\ u \in Seq(Item) /\ Len(u) = Len(d) + Len(c)
        /\ \A j \in 1..Len(d) + Len(c) : u[j] = IF j <= Len(d) THEN d[j] ELSE c[j - Len(d)]
    <3>1. c \in Seq(Item) /\ d \in Seq(Item)
      BY <1>6, <1>10
    <3> QED BY <1>11, <3>1, ConcatProperties
  <2>2. Len(d) + Len(c) = n + 1
    BY <1>2, <1>6, <1>10
  <2> QED BY <1>10, <2>1, <2>2
<1>13. ASSUME NEW j \in i..n PROVE u[j + 1] = s[j]
  <2>1. j + 1 \in 1..n + 1 /\ ~ (j + 1 <= i) /\ j + 1 - i = j - i + 1
    BY <1>2
  <2>2. u[j + 1] = c[j + 1 - i]
    BY <1>12, <2>1
  <2> QED BY <1>6, <2>1, <2>2
<1>14. ASSUME NEW j \in 1..i - 1 PROVE u[j] = s[j]
  <2>1. j \in 1..n + 1 /\ j <= i
    BY <1>2
  <2> QED BY <1>10, <1>12, <2>1
<1>15. u[i] = x
  <2>1. i \in 1..n + 1 /\ i <= i
    BY <1>2
  <2> QED BY <1>10, <1>12, <2>1
<1>16. u = Insert(s, i, <<x>>)
  BY <1>1, <1>3, <1>4, <1>7, <1>9, <1>11 DEF Insert
<1> QED BY <1>1, <1>12, <1>13, <1>14, <1>15, <1>16 DEF PutAt

\* The item at i makes room for three.
CutAt(u, s, i, x, y, z) ==
    /\ u \in Seq(Item) /\ Len(u) = Len(s) + 2
    /\ \A j \in 1..i - 1 : u[j] = s[j]
    /\ u[i] = x /\ u[i + 1] = y /\ u[i + 2] = z
    /\ \A j \in i + 1..Len(s) : u[j + 2] = s[j]

LEMMA ThreeCut ==
    ASSUME NEW s \in Seq(Item), NEW i \in 1..Len(s), NEW x \in Item, NEW y \in Item, NEW z \in Item
    PROVE  CutAt(SubSeq(s, 1, i - 1) \o <<x, y, z>> \o SubSeq(s, i + 1, Len(s)), s, i, x, y, z)
<1>1. PICK n \in Nat : n = Len(s)
  OBVIOUS
<1>2. i \in 1..n /\ \A j \in 1..n : s[j] \in Item
  BY <1>1, ElementOfSeq
<1>3. PICK a : a = SubSeq(s, 1, i - 1)
  OBVIOUS
<1>4. PICK c : c = SubSeq(s, i + 1, n)
  OBVIOUS
<1>5. /\ a \in Seq(Item) /\ Len(a) = i - 1
      /\ \A j \in 1..i - 1 : a[j] = s[j]
  BY <1>3, ItemsBefore
<1>6. /\ c \in Seq(Item) /\ Len(c) = n - i
      /\ \A j \in i + 1..n : c[j - i] = s[j]
  <2>1. PICK m \in 1..n + 1 : m = i + 1
    BY <1>2
  <2>2. /\ c \in Seq(Item) /\ Len(c) = n - m + 1
        /\ \A j \in m..n : c[j - m + 1] = s[j]
    BY <1>1, <1>4, <2>1, ItemsFrom
  <2>3. n - m + 1 = n - i /\ \A j \in i + 1..n : j - m + 1 = j - i
    BY <1>2, <2>1
  <2> QED BY <2>1, <2>2, <2>3
<1>7. PICK b : b = <<x, y, z>>
  OBVIOUS
<1>8. b \in Seq(Item) /\ Len(b) = 3 /\ b[1] = x /\ b[2] = y /\ b[3] = z
  BY <1>7
<1>9. PICK d : d = a \o b
  OBVIOUS
<1>10. /\ d \in Seq(Item) /\ Len(d) = i + 2
       /\ \A j \in 1..i - 1 : d[j] = s[j]
       /\ d[i] = x /\ d[i + 1] = y /\ d[i + 2] = z
  <2>1. /\ d \in Seq(Item) /\ Len(d) = Len(a) + Len(b)
        /\ \A j \in 1..Len(a) + Len(b) : d[j] = IF j <= Len(a) THEN a[j] ELSE b[j - Len(a)]
    <3>1. a \in Seq(Item) /\ b \in Seq(Item)
      BY <1>5, <1>8
    <3> QED BY <1>9, <3>1, ConcatProperties
  <2>2. Len(a) + Len(b) = i + 2
    BY <1>2, <1>5, <1>8
  <2>3. \A j \in 1..i + 2 : d[j] = IF j <= i - 1 THEN a[j] ELSE b[j - (i - 1)]
    BY <2>1, <2>2, <1>5
  <2>4. \A j \in 1..i - 1 : j \in 1..i + 2 /\ j <= i - 1
    BY <1>2
  <2>5. /\ i \in 1..i + 2 /\ ~ (i <= i - 1) /\ i - (i - 1) = 1
        /\ i + 1 \in 1..i + 2 /\ ~ (i + 1 <= i - 1) /\ i + 1 - (i - 1) = 2
        /\ i + 2 \in 1..i + 2 /\ ~ (i + 2 <= i - 1) /\ i + 2 - (i - 1) = 3
    BY <1>2
  <2>6. d[i] = b[i - (i - 1)] /\ d[i + 1] = b[i + 1 - (i - 1)] /\ d[i + 2] = b[i + 2 - (i - 1)]
    BY <2>3, <2>5
  <2>7. d[i] = x /\ d[i + 1] = y /\ d[i + 2] = z
    BY <1>8, <2>5, <2>6
  <2>8. \A j \in 1..i - 1 : d[j] = s[j]
    BY <1>5, <2>3, <2>4
  <2> QED BY <2>1, <2>2, <2>7, <2>8
<1>11. PICK u : u = d \o c
  OBVIOUS
<1>12. /\ u \in Seq(Item) /\ Len(u) = n + 2
       /\ \A j \in 1..n + 2 : u[j] = IF j <= i + 2 THEN d[j] ELSE c[j - (i + 2)]
  <2>1. /\ u \in Seq(Item) /\ Len(u) = Len(d) + Len(c)
        /\ \A j \in 1..Len(d) + Len(c) : u[j] = IF j <= Len(d) THEN d[j] ELSE c[j - Len(d)]
    <3>1. c \in Seq(Item) /\ d \in Seq(Item)
      BY <1>6, <1>10
    <3> QED BY <1>11, <3>1, ConcatProperties
  <2>2. Len(d) + Len(c) = n + 2
    BY <1>2, <1>6, <1>10
  <2> QED BY <1>10, <2>1, <2>2
<1>13. ASSUME NEW j \in i + 1..n PROVE u[j + 2] = s[j]
  <2>1. j + 2 \in 1..n + 2 /\ ~ (j + 2 <= i + 2) /\ j + 2 - (i + 2) = j - i
    BY <1>2
  <2>2. u[j + 2] = c[j + 2 - (i + 2)]
    BY <1>12, <2>1
  <2> QED BY <1>6, <2>1, <2>2
<1>14. ASSUME NEW j \in 1..i - 1 PROVE u[j] = s[j]
  <2>1. j \in 1..n + 2 /\ j <= i + 2
    BY <1>2
  <2> QED BY <1>10, <1>12, <2>1
<1>15. u[i] = x /\ u[i + 1] = y /\ u[i + 2] = z
  <2>1. /\ i \in 1..n + 2 /\ i <= i + 2
        /\ i + 1 \in 1..n + 2 /\ i + 1 <= i + 2
        /\ i + 2 \in 1..n + 2 /\ i + 2 <= i + 2
    BY <1>2
  <2>2. u[i] = d[i] /\ u[i + 1] = d[i + 1] /\ u[i + 2] = d[i + 2]
    BY <1>12, <2>1
  <2> QED BY <1>10, <2>2
<1>16. u = SubSeq(s, 1, i - 1) \o <<x, y, z>> \o SubSeq(s, i + 1, Len(s))
  BY <1>1, <1>3, <1>4, <1>7, <1>9, <1>11
<1> QED BY <1>1, <1>12, <1>13, <1>14, <1>15, <1>16 DEF CutAt

-----------------------------------------------------------------------------
(* What is at a point.                                                     *)

\* An item from a, that plays for d, has the point t.
Has(a, d, t) == t < 0 \/ a < 0 \/ d < 0 \/ (a <= t /\ (d = 0 \/ t < a + d))

LEMMA AtPoint ==
    ASSUME NEW s \in Seq(Item), NEW t
    PROVE  /\ ItemAt(s, t) \in 0..Len(s)
           /\ ItemAt(s, t) # 0 => Has(PlaylistStarts(s)[ItemAt(s, t)], s[ItemAt(s, t)].dur, t)
           /\ \A i \in 1..Len(s) : Has(PlaylistStarts(s)[i], s[i].dur, t) => ItemAt(s, t) # 0
<1> DEFINE at == {i \in 1..Len(s) : ContainsTimestamp(s, i, t)}
           first == CHOOSE i \in at : \A j \in at : i <= j
<1>1. \A i \in at : i \in 1..Len(s) /\ Has(PlaylistStarts(s)[i], s[i].dur, t)
  BY DEF ContainsTimestamp, Has
<1>2. \A i \in 1..Len(s) : Has(PlaylistStarts(s)[i], s[i].dur, t) => i \in at
  BY DEF ContainsTimestamp, Has
<1>3. ItemAt(s, t) = IF at = {} THEN 0 ELSE first
  BY DEF ItemAt
<1>4. Len(s) \in Nat /\ at \in SUBSET Nat
  OBVIOUS
<1> HIDE DEF at
<1>5. at # {} => first \in at
  BY <1>4, LeastNatural
<1> HIDE DEF first
<1>6. CASE at = {}
  BY <1>2, <1>3, <1>4, <1>6
<1>7. CASE at # {}
  <2>1. ItemAt(s, t) = first /\ first \in at
    BY <1>3, <1>5, <1>7
  <2>2. first \in 1..Len(s) /\ Has(PlaylistStarts(s)[first], s[first].dur, t)
    BY <1>1, <2>1
  <2>3. first \in 0..Len(s) /\ first # 0
    BY <1>4, <2>2
  <2> QED BY <2>1, <2>2, <2>3
<1> QED BY <1>6, <1>7

\* The two or three items that take the place of one that has a point: one of
\* them has it.
LEMMA PutHas ==
    ASSUME NEW a \in Int, NEW d \in Int, NEW e \in Int, NEW t \in Int, Has(a, d, t)
    PROVE  Has(a, e, t) \/ Has(After(a, e), d, t)
BY DEF Has, After

LEMMA CutHas ==
    ASSUME NEW a \in Int, NEW d \in Int, NEW e \in Int, NEW p \in Int, NEW t \in Int, Has(a, d, t)
    PROVE  \/ Has(a, p, t) \/ Has(After(a, p), e, t)
           \/ Has(After(After(a, p), e), IF d >= 0 THEN d - p ELSE d, t)
<1>1. CASE d < 0
  BY <1>1 DEF Has
<1>2. CASE d >= 0 /\ (a < 0 \/ p < 0)
  BY <1>2 DEF Has
<1>3. CASE d >= 0 /\ a >= 0 /\ p >= 0
  <2>1. After(a, p) = a + p
    BY <1>3 DEF After
  <2>2. CASE e < 0
    BY <2>2 DEF Has
  <2>3. CASE e >= 0
    <3>1. After(After(a, p), e) = a + p + e
      BY <1>3, <2>1, <2>3 DEF After
    <3> QED BY <1>3, <2>1, <2>3, <3>1 DEF Has
  <2> QED BY <2>2, <2>3
<1> QED BY <1>1, <1>2, <1>3

LEMMA StillThere ==
    ASSUME NEW s \in Seq(Item), NEW u \in Seq(Item), NEW t \in Int, NEW i \in 1..Len(s),
           i = ItemAt(s, t), NEW x \in Item,
           \/ PutAt(u, s, i, x)
           \/ \E p \in Int, y \in Item, z \in Item :
                 /\ CutAt(u, s, i, y, x, z)
                 /\ y.dur = p
                 /\ z.dur = IF s[i].dur >= 0 THEN s[i].dur - p ELSE s[i].dur
    PROVE  ItemAt(u, t) # 0
<1>1. PICK n \in Nat : n = Len(s)
  OBVIOUS
<1>2. i \in 1..n /\ i # 0 /\ Len(u) \in Nat
  BY <1>1
<1>3. PICK a : a = PlaylistStarts(s)[i]
  OBVIOUS
<1>4. PICK f : f = PlaylistStarts(u)
  OBVIOUS
<1>5. a \in Int /\ s[i] \in Item
  <2>1. PlaylistStarts(s) \in [1..Len(s) -> Int]
    BY Starts
  <2> QED BY <1>3, <2>1, ElementOfSeq
<1>6. PICK d \in Int : d = s[i].dur
  BY <1>5 DEF Item
<1>7. Has(a, d, t)
  BY <1>2, <1>3, <1>6, AtPoint
<1>8. \A k \in 1..Len(u) : Has(f[k], u[k].dur, t) => ItemAt(u, t) # 0
  BY <1>4, AtPoint
<1>9. ASSUME i \in 1..Len(u), \A j \in 1..i - 1 : u[j] = s[j] PROVE f[i] = a
  BY <1>3, <1>4, <1>9, SameStart
<1>10. ASSUME NEW k \in 1..Len(u), k # 1 PROVE f[k] = After(f[k - 1], u[k - 1].dur)
  BY <1>4, <1>10, Starts
<1>11. PICK e \in Int : e = x.dur
  BY DEF Item
<1>12. CASE PutAt(u, s, i, x)
  <2>1. Len(u) = n + 1 /\ (\A j \in 1..i - 1 : u[j] = s[j]) /\ u[i] = x /\ u[i + 1] = s[i]
    BY <1>1, <1>2, <1>12 DEF PutAt
  <2>2. i \in 1..Len(u) /\ i + 1 \in 1..Len(u) /\ i + 1 # 1 /\ i + 1 - 1 = i
    BY <1>2, <2>1
  <2>3. f[i] = a
    BY <1>9, <2>1, <2>2
  <2>4. f[i + 1] = After(a, e)
    BY <1>10, <1>11, <2>1, <2>2, <2>3
  <2>5. Has(a, e, t) \/ Has(After(a, e), d, t)
    BY <1>5, <1>7, PutHas
  <2> QED BY <1>6, <1>8, <1>11, <2>1, <2>2, <2>3, <2>4, <2>5
<1>13. ASSUME NEW p \in Int, NEW y \in Item, NEW z \in Item, CutAt(u, s, i, y, x, z),
              y.dur = p, z.dur = IF d >= 0 THEN d - p ELSE d
       PROVE  ItemAt(u, t) # 0
  <2>1. /\ Len(u) = n + 2 /\ \A j \in 1..i - 1 : u[j] = s[j]
        /\ u[i] = y /\ u[i + 1] = x /\ u[i + 2] = z
    BY <1>1, <1>13 DEF CutAt
  <2>2. /\ i \in 1..Len(u) /\ i + 1 \in 1..Len(u) /\ i + 1 # 1 /\ i + 1 - 1 = i
        /\ i + 2 \in 1..Len(u) /\ i + 2 # 1 /\ i + 2 - 1 = i + 1
    BY <1>2, <2>1
  <2>3. f[i] = a
    BY <1>9, <2>1, <2>2
  <2>4. f[i + 1] = After(a, p)
    BY <1>10, <1>13, <2>1, <2>2, <2>3
  <2>5. f[i + 2] = After(After(a, p), e)
    BY <1>10, <1>11, <2>1, <2>2, <2>4
  <2>6. \/ Has(a, p, t) \/ Has(After(a, p), e, t)
        \/ Has(After(After(a, p), e), IF d >= 0 THEN d - p ELSE d, t)
    BY <1>5, <1>7, CutHas
  <2> QED BY <1>8, <1>11, <1>13, <2>1, <2>2, <2>3, <2>4, <2>5, <2>6
<1> QED BY <1>6, <1>12, <1>13

-----------------------------------------------------------------------------
(* The invariant.                                                          *)

States == {"NOT_STARTED", "PLAYING", "PAUSED", "FINISHED"}
Protocols == {"up", "enqueued", "gone"}

Listed == items \in Seq(Item) /\ Len(items) <= MaxItems

Numbered ==
    cur \in Int /\ head \in 0..MaxHead /\ born \in 0..MaxId
    /\ state \in States /\ protocol \in Protocols

\* An out stream o that plays an item of s, in a playlist that is in state st.
Good(o, s, st) ==
    /\ o \in Stream
    /\ o.item \in Ids(s)
    /\ o.in = "file" => o.kind = "file" /\ (st = "PLAYING" => ~o.paused /\ ~o.gop)

Shown == out = NULL \/ Good(out, items, state)

\* What playing the item at k leaves as out stream.
Playing(o, s, k, st) == o = NULL \/ (Good(o, s, st) /\ o.item = s[k].id)

\* An item plays, the one at the index, or all have.
Placed(c, s, o) ==
    c \in 1..Len(s) + 1 /\ (o # NULL => c \in 1..Len(s) /\ o.item = s[c].id)

\* An insertion takes the index back, until it finds the item that plays.
Indexed == inserting = NULL \/ inserting.count = 0 => Placed(cur, items, out)

Given ==
    inserting # NULL => inserting \in [point : Points, kind : Kinds, dur : Int, count : Nat]

\* What was inserted or split at a point still is there: the next call finds it.
Landed == inserting # NULL /\ inserting.count > 0 => ItemAt(items, inserting.point) # 0

IInv == Listed /\ Numbered /\ Shown /\ Indexed /\ Given /\ Landed

LEMMA Typed == IInv => TypeOK /\ StreamOfItem /\ PlayingFileRuns /\ PlayedIsCurrent
<1> SUFFICES ASSUME IInv PROVE TypeOK /\ StreamOfItem /\ PlayingFileRuns /\ PlayedIsCurrent
  OBVIOUS
<1>1. TypeOK
  BY DEF IInv, Listed, Numbered, Shown, Good, TypeOK, Item, Stream, States, Protocols
<1>2. out # NULL => out.item \in Ids(items)
  BY DEF IInv, Shown, Good
<1>3. PlayingFileRuns
  BY DEF IInv, Shown, Good, PlayingFileRuns
<1>4. PlayedIsCurrent
  BY DEF IInv, Indexed, Placed, PlayedIsCurrent, HasCurrent
<1> QED BY <1>1, <1>2, <1>3, <1>4 DEF StreamOfItem

LEMMA InitInv == Init => IInv
<1> SUFFICES ASSUME Init PROVE IInv
  OBVIOUS
<1>1. Listed /\ Numbered
  BY PlaylistAssumption DEF Init, Listed, Numbered, States, Protocols
<1>2. Shown /\ Given /\ Landed
  BY DEF Init, Shown, Given, Landed
<1>3. Indexed
  BY DEF Init, Indexed, Placed
<1> QED BY <1>1, <1>2, <1>3 DEF IInv

\* Between two requests.
LEMMA Rests ==
    ASSUME inserting' = NULL, Listed', Numbered', Shown', Placed(cur', items', out')
    PROVE  IInv'
BY DEF IInv, Indexed, Given, Landed

LEMMA Bounds == MaxId \in Nat /\ MaxHead \in Nat /\ MaxItems \in Nat
BY PlaylistAssumption

LEMMA IdOf ==
    ASSUME NEW s \in Seq(Item), NEW k \in 1..Len(s)
    PROVE  s[k] \in Item /\ s[k].id \in Ids(s) /\ s[k].dur \in Int
<1>1. s[k] \in Item
  BY ElementOfSeq
<1> QED BY <1>1 DEF Ids, Item

LEMMA IdsKept ==
    ASSUME NEW s, NEW u, \A k \in 1..Len(s) : \E j \in 1..Len(u) : u[j].id = s[k].id
    PROVE  Ids(s) \subseteq Ids(u)
BY DEF Ids

LEMMA EndOf ==
    ASSUME NEW item, NEW from \in 0..MaxHead, NEW length \in Int
    PROVE  Ends(item, from, length) \in -1..MaxHead
<1>1. CASE ~ (length >= 0)
  BY <1>1, Bounds DEF Ends
<1>2. CASE length >= 0
  BY <1>2, Bounds DEF Ends, Least
<1> QED BY <1>1, <1>2

LEMMA Plays ==
    ASSUME NEW s \in Seq(Item), NEW k \in 1..Len(s), NEW from \in 0..MaxHead, NEW length \in Int,
           NEW gop \in BOOLEAN, NEW st, st = "PLAYING" => ~gop, protocol \in Protocols,
           \/ ItemPlays(s[k], from, length, gop)
           \/ \E refused \in BOOLEAN : ItemFails(s[k], from, refused)
    PROVE  Playing(out', s, k, st) /\ protocol' \in Protocols
<1>1. PICK item \in Item : item = s[k] /\ item.id \in Ids(s)
  BY IdOf
<1>2. item.id \in 1..MaxId /\ item.kind \in Kinds
  BY DEF Item
<1>3. CASE ItemPlays(s[k], from, length, gop)
  <2>1. out' \in Streams(item, from, length, gop) /\ protocol' = protocol
    BY <1>1, <1>3 DEF ItemPlays
  <2>2. PICK e \in -1..MaxHead : e = Ends(item, from, length)
    BY EndOf
  <2>3. /\ out' \in Stream /\ out'.item = item.id /\ out'.kind = item.kind
        /\ out'.gop = gop /\ out'.paused = FALSE
        /\ out'.in = "file" => item.kind = "file"
    BY <1>2, <2>1, <2>2 DEF Streams, Stream
  <2> QED BY <1>1, <2>1, <2>3 DEF Playing, Good
<1>4. ASSUME NEW refused \in BOOLEAN, ItemFails(s[k], from, refused)
      PROVE  Playing(out', s, k, st) /\ protocol' \in Protocols
  <2>1. out' = NULL \/ out' = Unfed(item, from)
    BY <1>1, <1>4 DEF ItemFails
  <2>2. -1 \in -1..MaxHead
    BY Bounds
  <2>3. /\ Unfed(item, from) \in Stream /\ Unfed(item, from).item = item.id
        /\ Unfed(item, from).in = "none"
    BY <1>2, <2>2 DEF Unfed, Stream
  <2>4. protocol' \in Protocols
    BY <1>4 DEF ItemFails, Protocols
  <2> QED BY <1>1, <2>1, <2>3, <2>4 DEF Playing, Good
<1> QED BY <1>3, <1>4

LEMMA Started ==
    ASSUME NEW s \in Seq(Item), NEW k \in 1..Len(s), NEW from \in 0..MaxHead, NEW length \in Int,
           NEW gop \in BOOLEAN, NEW st, st = "PLAYING" => ~gop, protocol \in Protocols,
           Play(s[k], from, length, gop)
    PROVE  Playing(out', s, k, st) /\ protocol' \in Protocols
BY Plays DEF Play

-----------------------------------------------------------------------------
(* The requests.                                                           *)

LEMMA Served ==
    ASSUME IInv, Serving
    PROVE  /\ inserting = NULL /\ protocol = "up" /\ Placed(cur, items, out)
           /\ Listed /\ Numbered /\ Shown /\ Len(items) \in Nat
BY DEF IInv, Serving, Indexed, Listed

LEMMA Appended ==
    ASSUME NEW s \in Seq(Item), NEW l \in Lists, born \in 0..MaxId, born + Len(l) <= MaxId
    PROVE  /\ Append_(s, l) \in Seq(Item)
           /\ Len(l) \in Nat /\ Len(l) >= 1 /\ Len(Append_(s, l)) = Len(s) + Len(l)
           /\ \A j \in 1..Len(s) : Append_(s, l)[j] = s[j]
<1>1. l \in Seq([kind : Kinds, dur : Int]) /\ Len(l) > 0
  BY PlaylistAssumption
<1>2. PICK n \in Nat : n = Len(l)
  BY <1>1
<1>3. PICK new : new = [k \in 1..n |-> [id |-> born + k, kind |-> l[k].kind, dur |-> l[k].dur]]
  OBVIOUS
<1>4. ASSUME NEW k \in 1..n PROVE [id |-> born + k, kind |-> l[k].kind, dur |-> l[k].dur] \in Item
  <2>1. l[k] \in [kind : Kinds, dur : Int]
    BY <1>1, <1>2, ElementOfSeq
  <2>2. born + k \in 1..MaxId
    BY <1>2, Bounds
  <2> QED BY <2>1, <2>2 DEF Item
<1>5. new \in [1..n -> Item]
  BY <1>3, <1>4
<1>6. new \in Seq(Item) /\ Len(new) = n
  BY <1>5
<1>7. PICK u : u = s \o new
  OBVIOUS
<1>8. u = Append_(s, l)
  BY <1>2, <1>3, <1>7 DEF Append_
<1>9. PICK m \in Nat : m = Len(s)
  OBVIOUS
<1>10. /\ u \in Seq(Item) /\ Len(u) = m + n
       /\ \A i \in 1..m + n : u[i] = IF i <= m THEN s[i] ELSE new[i - m]
  BY <1>6, <1>7, <1>9, ConcatProperties
<1>11. \A j \in 1..m : u[j] = s[j]
  BY <1>10
<1>12. n >= 1
  BY <1>1, <1>2
<1> QED BY <1>2, <1>8, <1>9, <1>10, <1>11, <1>12

LEMMA PlayResetInv ==
    ASSUME IInv, NEW l \in Lists, PlayReset(l)
    PROVE  IInv'
<1>1. Listed /\ Numbered /\ inserting' = NULL /\ protocol = "up"
  BY Served DEF PlayReset
<1>2. born \in 0..MaxId /\ born + Len(l) <= MaxId
  BY <1>1 DEF Numbered, PlayReset
<1>3. PICK u : u = items'
  OBVIOUS
<1>4. PICK none : none = <<>> /\ none \in Seq(Item) /\ Len(none) = 0
  BY EmptySeq
<1>5. u \in Seq(Item) /\ Len(l) \in Nat /\ Len(u) = Len(l) /\ Len(u) >= 1
  <2>1. u = Append_(none, l)
    BY <1>3, <1>4 DEF PlayReset
  <2>2. u \in Seq(Item) /\ Len(l) \in Nat /\ Len(l) >= 1 /\ Len(u) = Len(none) + Len(l)
    BY <1>2, <1>4, <2>1, Appended
  <2> QED BY <1>4, <2>2
<1>6. Listed'
  BY <1>3, <1>5 DEF Listed, PlayReset
<1>7. 1 \in 1..Len(u) /\ 1 \in 1..Len(u) + 1 /\ 0 \in 0..MaxHead
  BY <1>5, Bounds
<1>8. Playing(out', u, 1, "PLAYING") /\ protocol' \in Protocols
  <2>1. Play(u[1], 0, u[1].dur, FALSE)
    BY <1>3 DEF PlayReset
  <2>2. u[1].dur \in Int
    BY <1>5, <1>7, IdOf
  <2> QED BY <1>1, <1>5, <1>7, <2>1, <2>2, Started DEF Protocols
<1>9. Numbered'
  <2>1. born' \in 0..MaxId
    BY <1>2, <1>5, Bounds DEF PlayReset
  <2> QED BY <1>7, <1>8, <2>1 DEF Numbered, PlayReset, States
<1>10. Shown' /\ Placed(cur', items', out')
  BY <1>3, <1>7, <1>8 DEF Shown, Placed, Playing, PlayReset
<1> QED BY <1>1, <1>6, <1>9, <1>10, Rests

LEMMA PlayAppendInv ==
    ASSUME IInv, NEW l \in Lists, PlayAppend(l)
    PROVE  IInv'
<1>1. /\ Listed /\ Numbered /\ Shown /\ Placed(cur, items, out)
      /\ inserting' = NULL /\ protocol = "up"
  BY Served DEF PlayAppend
<1>2. born \in 0..MaxId /\ born + Len(l) <= MaxId
  BY <1>1 DEF Numbered, PlayAppend
<1>3. PICK u : u = items'
  OBVIOUS
<1>4. PICK m \in Nat : m = Len(items)
  BY <1>1 DEF Listed
<1>5. /\ u \in Seq(Item) /\ Len(l) \in Nat /\ Len(u) = m + Len(l) /\ Len(l) >= 1
      /\ \A j \in 1..m : u[j] = items[j]
  <2>1. u = Append_(items, l) /\ items \in Seq(Item)
    BY <1>1, <1>3 DEF PlayAppend, Listed
  <2> QED BY <1>2, <1>4, <2>1, Appended
<1>6. Listed'
  BY <1>3, <1>4, <1>5 DEF Listed, PlayAppend
<1>7. /\ cur \in 1..m + 1 /\ cur' = cur /\ head' = head /\ head \in 0..MaxHead
      /\ out # NULL => cur \in 1..m /\ out.item = items[cur].id
  BY <1>1, <1>4 DEF Placed, Numbered, PlayAppend
<1>8. cur \in 1..Len(u) /\ cur \in 1..Len(u) + 1
  BY <1>5, <1>7
<1>9. ASSUME out' # NULL => out'.item = u[cur].id PROVE Placed(cur', items', out')
  BY <1>3, <1>7, <1>8, <1>9 DEF Placed
<1>10. born' \in 0..MaxId
  BY <1>2, <1>5, Bounds DEF PlayAppend
<1>11. CASE state \in {"NOT_STARTED", "FINISHED"}
  <2>1. state' = "PLAYING" /\ Play(u[cur], head, u[cur].dur, FALSE)
    BY <1>3, <1>11 DEF PlayAppend
  <2>2. u[cur].dur \in Int
    BY <1>5, <1>8, IdOf
  <2>3. Playing(out', u, cur, "PLAYING") /\ protocol' \in Protocols
    BY <1>1, <1>5, <1>7, <1>8, <2>1, <2>2, Started DEF Protocols
  <2>4. Shown' /\ Placed(cur', items', out')
    BY <1>3, <1>9, <2>1, <2>3 DEF Shown, Playing
  <2>5. Numbered'
    BY <1>1, <1>7, <1>10, <2>1, <2>3 DEF Numbered, States
  <2> QED BY <1>1, <1>6, <2>4, <2>5, Rests
<1>12. CASE state \notin {"NOT_STARTED", "FINISHED"}
  <2>1. UNCHANGED <<state, out, protocol>>
    BY <1>12 DEF PlayAppend
  <2>2. Numbered'
    BY <1>1, <1>7, <1>10, <2>1 DEF Numbered
  <2>3. Ids(items) \subseteq Ids(u)
    <3>1. \A k \in 1..m : k \in 1..Len(u) /\ u[k].id = items[k].id
      BY <1>5
    <3> QED BY <1>4, <3>1, IdsKept
  <2>4. Shown'
    BY <1>1, <1>3, <2>1, <2>3 DEF Shown, Good
  <2>5. out' # NULL => out'.item = u[cur].id
    BY <1>5, <1>7, <2>1
  <2>6. Placed(cur', items', out')
    BY <1>9, <2>5
  <2> QED BY <1>1, <1>6, <2>2, <2>4, <2>6, Rests
<1> QED BY <1>11, <1>12

\* A request that leaves the items.
LEMMA Paused ==
    ASSUME NEW o \in Stream, NEW paused \in BOOLEAN, NEW gop \in BOOLEAN
    PROVE  /\ [o EXCEPT !.paused = paused] \in Stream
           /\ [o EXCEPT !.paused = paused, !.gop = gop] \in Stream
BY DEF Stream

LEMMA PauseInv == ASSUME IInv, Pause PROVE IInv'
<1>1. /\ Listed /\ Numbered /\ Shown /\ Placed(cur, items, out)
      /\ inserting' = NULL /\ protocol = "up"
  BY Served DEF Pause
<1>2. UNCHANGED <<items, cur, head, born>> /\ state' \in {state, "PAUSED"}
  BY DEF Pause, Refuse
<1>3. protocol' \in Protocols
  BY <1>1 DEF Pause, Refuse, Protocols
<1>4. Listed' /\ Numbered'
  BY <1>1, <1>2, <1>3 DEF Listed, Numbered, States
<1>5. CASE out' = out
  BY <1>1, <1>2, <1>4, <1>5, Rests DEF Shown, Good, Placed
<1>6. CASE out # NULL /\ out' = [out EXCEPT !.paused = TRUE] /\ state' = "PAUSED"
  <2>1. Good(out, items, state) /\ out \in Stream
    BY <1>1, <1>6 DEF Shown, Good
  <2>2. out' \in Stream /\ out'.item = out.item /\ out'.in = out.in /\ out'.kind = out.kind
    BY <1>6, <2>1, Paused DEF Stream
  <2>3. Good(out', items', state')
    BY <1>2, <1>6, <2>1, <2>2 DEF Good
  <2>4. Shown' /\ Placed(cur', items', out')
    BY <1>1, <1>2, <1>6, <2>2, <2>3 DEF Shown, Placed
  <2> QED BY <1>1, <1>4, <2>4, Rests
<1>7. \/ out' = out
      \/ out # NULL /\ out' = [out EXCEPT !.paused = TRUE] /\ state' = "PAUSED"
  BY DEF Pause, Refuse
<1> QED BY <1>5, <1>6, <1>7

LEMMA ResumeInv == ASSUME IInv, Resume PROVE IInv'
<1>1. /\ Listed /\ Numbered /\ Shown /\ Placed(cur, items, out)
      /\ inserting' = NULL /\ protocol = "up"
  BY Served DEF Resume
<1>2. /\ UNCHANGED <<items, cur, head, born>>
      /\ \/ out' = out /\ (state' = "PLAYING" => state = "PLAYING" \/ out = NULL \/ out.in = "none")
         \/ out # NULL /\ state' = "PLAYING" /\ out' = Resumed
      /\ state' \in {state, "PLAYING", "FINISHED"} /\ protocol' \in {protocol, "enqueued"}
  <2>1. CASE state = "NOT_STARTED" \/ (state \in {"PLAYING", "FINISHED"} /\ out # NULL /\ out.in # "none")
    BY <2>1 DEF Resume
  <2>2. CASE state = "PAUSED" /\ ~HasCurrent(items, cur)
    BY <2>2 DEF Resume
  <2>3. CASE state = "PAUSED" /\ HasCurrent(items, cur) /\ out # NULL /\ out.in # "none"
    BY <2>3 DEF Resume
  <2>4. CASE ~ (\/ state = "NOT_STARTED" \/ (state = "PAUSED" /\ ~HasCurrent(items, cur))
                \/ (state = "PAUSED" /\ HasCurrent(items, cur) /\ out # NULL /\ out.in # "none")
                \/ (state \in {"PLAYING", "FINISHED"} /\ out # NULL /\ out.in # "none"))
    BY <2>4, <1>1 DEF Resume, Refuse, Numbered, States
  <2> QED BY <2>1, <2>2, <2>3, <2>4
<1>3. Listed' /\ Numbered'
  BY <1>1, <1>2 DEF Listed, Numbered, States, Protocols
<1>4. CASE out' = out /\ (state' = "PLAYING" => state = "PLAYING" \/ out = NULL \/ out.in = "none")
  <2>1. Shown'
    BY <1>1, <1>2, <1>4 DEF Shown, Good
  <2> QED BY <1>1, <1>2, <1>3, <1>4, <2>1, Rests
<1>5. CASE out # NULL /\ state' = "PLAYING" /\ out' = Resumed
  <2>1. Good(out, items, state) /\ out \in Stream
    BY <1>1, <1>5 DEF Shown, Good
  <2>2. PICK g \in BOOLEAN : g = (out.gop /\ out.in # "file")
    BY <2>1 DEF Stream
  <2>3. out' = [out EXCEPT !.paused = FALSE, !.gop = g]
    BY <1>5, <2>2 DEF Resumed
  <2>4. /\ out' \in Stream /\ out'.item = out.item /\ out'.in = out.in /\ out'.kind = out.kind
        /\ out'.paused = FALSE /\ out'.gop = g
    BY <2>1, <2>3, Paused DEF Stream
  <2>5. Good(out', items', state')
    BY <1>2, <2>1, <2>2, <2>4 DEF Good
  <2>6. Shown' /\ Placed(cur', items', out')
    BY <1>1, <1>2, <1>5, <2>4, <2>5 DEF Shown, Placed
  <2> QED BY <1>1, <1>3, <2>6, Rests
<1> QED BY <1>2, <1>4, <1>5

LEMMA SeekInv == ASSUME IInv, NEW t \in Points, Seek(t) PROVE IInv'
<1>1. /\ Listed /\ Numbered /\ Shown /\ Placed(cur, items, out)
      /\ inserting' = NULL /\ protocol = "up"
  BY Served DEF Seek
<1>2. UNCHANGED <<items, state, born>> /\ t \in 0..MaxHead
  BY PlaylistAssumption DEF Seek
<1>3. CASE items = <<>>
  <2>1. UNCHANGED <<items, cur, head, out, state, born>> /\ protocol' = "enqueued"
    BY <1>3 DEF Seek, Refuse
  <2>2. Listed' /\ Numbered' /\ Shown' /\ Placed(cur', items', out')
    BY <1>1, <2>1 DEF Listed, Numbered, Protocols, Shown, Good, Placed
  <2> QED BY <1>1, <2>2, Rests
<1>4. CASE items # <<>>
  <2>1. PICK n \in Nat : n = Len(items) /\ n # 0
    BY <1>1, <1>4 DEF Listed
  <2>2. PICK i : i = IF ItemAt(items, t) = 0 THEN Len(items) ELSE ItemAt(items, t)
    OBVIOUS
  <2>3. ItemAt(items, t) \in 0..n
    BY <1>1, <2>1, AtPoint DEF Listed
  <2>4. i \in 1..n /\ i \in 1..n + 1
    BY <2>1, <2>2, <2>3
  <2>5. PICK start \in Int : start = PlaylistStarts(items)[i]
    <3>1. PlaylistStarts(items) \in [1..n -> Int]
      BY <1>1, <2>1, Starts DEF Listed
    <3> QED BY <2>4, <3>1
  <2>6. PICK d \in Int : d = items[i].dur
    BY <1>1, <2>1, <2>4, IdOf DEF Listed
  <2>7. PICK left : left = IF start >= 0 /\ d >= 0 THEN d - (t - start) ELSE d
    OBVIOUS
  <2>8. left \in Int
    BY <1>2, <2>7, Bounds
  <2>9. /\ cur' = i /\ head' = t
        /\ IF start >= 0 /\ d >= 0 /\ left < 0 THEN out' = NULL /\ protocol' = "enqueued"
           ELSE Play(items[i], t, left, state = "PAUSED")
    BY <1>4, <2>2, <2>5, <2>6, <2>7 DEF Seek
  <2>10. Listed'
    BY <1>1, <1>2 DEF Listed
  <2>11. Playing(out', items, i, state) /\ protocol' \in Protocols
    <3>1. CASE start >= 0 /\ d >= 0 /\ left < 0
      BY <2>9, <3>1 DEF Protocols, Playing
    <3>2. CASE ~ (start >= 0 /\ d >= 0 /\ left < 0)
      <4>1. Play(items[i], t, left, state = "PAUSED")
        BY <2>9, <3>2
      <4>2. PICK gop \in BOOLEAN : gop = (state = "PAUSED")
        OBVIOUS
      <4>3. Play(items[i], t, left, gop) /\ (state = "PLAYING" => ~gop)
        BY <4>1, <4>2
      <4>4. items \in Seq(Item) /\ protocol \in Protocols /\ i \in 1..Len(items)
        BY <1>1, <2>1, <2>4 DEF Listed, Protocols
      <4> QED BY <1>2, <2>8, <4>3, <4>4, Started
    <3> QED BY <3>1, <3>2
  <2>12. Shown' /\ Placed(cur', items', out')
    BY <1>2, <2>1, <2>4, <2>9, <2>11 DEF Shown, Placed, Playing
  <2>13. Numbered'
    BY <1>1, <1>2, <2>4, <2>9, <2>11 DEF Numbered
  <2> QED BY <1>1, <2>10, <2>12, <2>13, Rests
<1> QED BY <1>3, <1>4

LEMMA SwitchInv ==
    ASSUME IInv, NEW changed \in SUBSET Int, NEW t \in Points, NEW new \in [kind : Kinds, dur : Int],
           changed = {} \/ (\E i \in changed : changed = {i}), Switch(changed, new, t)
    PROVE  IInv'
<1>1. /\ Listed /\ Numbered /\ Shown /\ Placed(cur, items, out)
      /\ inserting' = NULL /\ protocol = "up" /\ out # NULL
  BY Served DEF Switch
<1>2. PICK n \in Nat : n = Len(items)
  BY <1>1 DEF Listed
<1>3. state' = state /\ t \in 0..MaxHead /\ head' = t /\ born + n <= MaxId /\ born' = born + n
  BY <1>2, PlaylistAssumption DEF Switch
<1>4. cur \in 1..n /\ n \in 1..n
  BY <1>1, <1>2 DEF Placed
<1>5. cur' \in 1..n
  <2>1. PICK last : last = IF changed = {} THEN cur
                           ELSE CHOOSE i \in changed : \A j \in changed : j <= i
    OBVIOUS
  <2>2. last \in 1..n
    <3>1. CASE changed = {}
      BY <1>4, <2>1, <3>1
    <3>2. ASSUME NEW i \in changed, changed = {i} PROVE last \in 1..n
      <4>1. \E k \in changed : \A j \in changed : j <= k
        BY <3>2
      <4>2. last \in changed
        BY <2>1, <3>2, <4>1
      <4> QED BY <1>2, <4>2 DEF Switch
    <3> QED BY <3>1, <3>2
  <2>3. cur' = IF last < n THEN last ELSE n
    BY <1>2, <2>1 DEF Switch, Least
  <2> QED BY <1>4, <2>2, <2>3
<1>6. PICK u : u = items'
  OBVIOUS
<1>7. u \in Seq(Item) /\ Len(u) = n
  <2>1. u = [i \in 1..n |->
                   [id |-> born + i,
                    kind |-> IF i \in changed THEN new.kind ELSE items[i].kind,
                    dur |-> IF i \in changed THEN new.dur ELSE items[i].dur]]
    BY <1>2, <1>6 DEF Switch
  <2>2. ASSUME NEW i \in 1..n
        PROVE  [id |-> born + i,
                kind |-> IF i \in changed THEN new.kind ELSE items[i].kind,
                dur |-> IF i \in changed THEN new.dur ELSE items[i].dur] \in Item
    <3>1. items[i] \in Item
      BY <1>1, <1>2, IdOf DEF Listed
    <3>2. born + i \in 1..MaxId
      BY <1>1, <1>2, <1>3, Bounds DEF Numbered
    <3> QED BY <3>1, <3>2 DEF Item
  <2>3. u \in [1..n -> Item]
    BY <2>1, <2>2
  <2> QED BY <2>3
<1>8. Listed'
  BY <1>1, <1>2, <1>6, <1>7 DEF Listed
<1>10. PICK c \in 1..Len(u) : c = cur' /\ c \in 1..Len(u) + 1
  BY <1>5, <1>7
<1>11. Playing(out', u, c, state) /\ protocol' \in Protocols
  <2>0. IF state \in {"PLAYING", "PAUSED"} /\ HasCurrent(u, c)
        THEN Play(u[c], t, u[c].dur, state = "PAUSED")
        ELSE out' = NULL /\ protocol' = "enqueued"
    <3>1. IF state \in {"PLAYING", "PAUSED"} /\ HasCurrent(items', cur')
          THEN Play(items'[cur'], t, items'[cur'].dur, state = "PAUSED")
          ELSE out' = NULL /\ protocol' = "enqueued"
      BY DEF Switch
    <3> QED BY <1>6, <1>10, <3>1
  <2>1. CASE state \in {"PLAYING", "PAUSED"} /\ HasCurrent(u, c)
    <3>1. PICK gop \in BOOLEAN : gop = (state = "PAUSED")
      OBVIOUS
    <3>2. Play(u[c], t, u[c].dur, gop) /\ (state = "PLAYING" => ~gop)
      BY <2>0, <2>1, <3>1
    <3>3. u[c].dur \in Int
      BY <1>7, IdOf
    <3>4. u \in Seq(Item) /\ t \in 0..MaxHead /\ protocol \in Protocols
      BY <1>1, <1>3, <1>7 DEF Protocols
    <3> QED BY <3>2, <3>3, <3>4, Started
  <2>2. CASE ~ (state \in {"PLAYING", "PAUSED"} /\ HasCurrent(u, c))
    BY <2>0, <2>2 DEF Protocols, Playing
  <2> QED BY <2>1, <2>2
<1>12. Shown' /\ Placed(cur', items', out')
  BY <1>3, <1>6, <1>10, <1>11 DEF Shown, Placed, Playing
<1>13. Numbered'
  <2>1. born' \in 0..MaxId
    BY <1>1, <1>3, Bounds DEF Numbered
  <2>2. cur' \in Int
    BY <1>5
  <2> QED BY <1>1, <1>3, <1>11, <2>1, <2>2 DEF Numbered
<1> QED BY <1>1, <1>8, <1>12, <1>13, Rests

LEMMA EmptyPlaylist ==
    ASSUME Numbered, items' = <<>>, cur' = 1, head' = 0, out' = NULL, state' = "NOT_STARTED",
           born' = born, protocol' \in Protocols, inserting' = NULL
    PROVE  IInv'
<1>1. <<>> \in Seq(Item) /\ Len(<<>>) = 0 /\ 0 <= MaxItems /\ 0 \in 0..MaxHead
  BY Bounds
<1>2. Listed'
  BY <1>1 DEF Listed
<1>3. Numbered'
  BY <1>1 DEF Numbered, States
<1>4. Shown'
  BY DEF Shown
<1>5. Placed(cur', items', out')
  BY <1>1 DEF Placed
<1> QED BY <1>2, <1>3, <1>4, <1>5, Rests

LEMMA CleanedInv == ASSUME IInv, Stop \/ SendFails \/ Deleted PROVE IInv'
<1>1. Numbered /\ Cleanup /\ born' = born /\ inserting' = NULL
  BY DEF IInv, Stop, SendFails, Deleted, Serving
<1>2. protocol' \in Protocols
  BY DEF IInv, Numbered, Protocols, Stop, SendFails, Deleted
<1> QED BY <1>1, <1>2, EmptyPlaylist DEF Cleanup

LEMMA CloseInv == ASSUME IInv, CloseStream \/ EnqueueForDelete PROVE IInv'
<1>1. /\ Listed /\ Numbered /\ Shown /\ Placed(cur, items, out)
      /\ inserting' = NULL
  BY Served DEF CloseStream, EnqueueForDelete
<1>2. /\ UNCHANGED <<items, cur, state, head, born>> /\ (out' = NULL \/ out' = out)
      /\ protocol' \in Protocols
  BY <1>1 DEF CloseStream, EnqueueForDelete, Numbered, Protocols
<1>3. Listed' /\ Numbered' /\ Shown' /\ Placed(cur', items', out')
  BY <1>1, <1>2 DEF Listed, Numbered, Shown, Good, Placed
<1> QED BY <1>1, <1>3, Rests

-----------------------------------------------------------------------------
(* The streams.                                                            *)

\* A stream that has fed what it had rests, or the next item plays.
LEMMA CompletedInv ==
    ASSUME Listed, Numbered, Shown, Placed(cur, items, out), inserting = NULL, out # NULL,
           NEW at \in 0..MaxHead, NEW rest \in Stream, rest.item \in Ids(items),
           rest.item = out.item,
           rest.in = "file" => rest.kind = "file" /\ out.kind = "file",
           StreamCompleted(at, rest)
    PROVE  IInv'
<1>1. UNCHANGED <<items, born, inserting>>
  BY DEF StreamCompleted
<1>2. Listed'
  BY <1>1 DEF Listed
<1>3. PICK n \in Nat : n = Len(items)
  BY DEF Listed
<1>4. /\ cur \in 1..n /\ protocol \in Protocols /\ items \in Seq(Item) /\ cur \in 1..n + 1
      /\ rest.item = items[cur].id
  BY <1>3 DEF Placed, Numbered, Listed
<1>5. CASE out.kind = "live" /\ out.end < 0
  <2>1. out' = rest /\ UNCHANGED <<cur, state, head, protocol>>
    BY <1>5 DEF StreamCompleted
  <2>2. Numbered'
    BY <1>1, <2>1 DEF Numbered
  <2>3. Good(out', items, state')
    BY <1>5, <2>1 DEF Good
  <2>4. Shown'
    BY <1>1, <2>3 DEF Shown
  <2>5. Placed(cur', items', out')
    BY <1>1, <1>3, <1>4, <2>1 DEF Placed
  <2> QED BY <1>1, <1>2, <2>2, <2>4, <2>5, Rests
<1>6. CASE ~ (out.kind = "live" /\ out.end < 0) /\ state \in {"PAUSED", "NOT_STARTED"}
  <2>1. out' = rest /\ head' = at /\ UNCHANGED <<cur, state, protocol>>
    BY <1>6 DEF StreamCompleted, ItemCompleted
  <2>2. Numbered'
    BY <1>1, <2>1 DEF Numbered
  <2>3. Good(out', items, state')
    BY <1>6, <2>1 DEF Good
  <2>4. Shown'
    BY <1>1, <2>3 DEF Shown
  <2>5. Placed(cur', items', out')
    BY <1>1, <1>3, <1>4, <2>1 DEF Placed
  <2> QED BY <1>1, <1>2, <2>2, <2>4, <2>5, Rests
<1>7. CASE ~ (out.kind = "live" /\ out.end < 0) /\ state \notin {"PAUSED", "NOT_STARTED"}
  <2>1. PICK c : c = cur + 1
    OBVIOUS
  <2>2. c \in Int /\ c \in 1..n + 1
    BY <1>4, <2>1
  <2>3. ItemCompleted(at, rest)
    BY <1>7 DEF StreamCompleted
  <2>4. head' = at /\ cur' = c
    BY <1>7, <2>1, <2>3 DEF ItemCompleted
  <2>5. IF HasCurrent(items, c)
        THEN /\ \/ ItemPlays(items[c], at, items[c].dur, FALSE)
                \/ ItemFails(items[c], at, FALSE)
             /\ UNCHANGED state
        ELSE state' = "FINISHED" /\ out' = NULL /\ UNCHANGED protocol
    BY <1>7, <2>1, <2>3 DEF ItemCompleted
  <2>6. CASE HasCurrent(items, c)
    <3>1. c \in 1..Len(items)
      BY <2>6 DEF HasCurrent
    <3>2. items[c].dur \in Int
      BY <1>4, <3>1, IdOf
    <3>3. \/ ItemPlays(items[c], at, items[c].dur, FALSE)
          \/ \E refused \in BOOLEAN : ItemFails(items[c], at, refused)
      BY <2>5, <2>6
    <3>4. Playing(out', items, c, state) /\ protocol' \in Protocols
      BY <1>4, <3>1, <3>2, <3>3, Plays
    <3>5. state' = state
      BY <2>5, <2>6
    <3>6. Numbered'
      BY <1>1, <2>2, <2>4, <3>4, <3>5 DEF Numbered
    <3>7. Shown'
      BY <1>1, <3>4, <3>5 DEF Shown, Playing
    <3>8. Placed(cur', items', out')
      BY <1>1, <1>3, <2>2, <2>4, <3>1, <3>4 DEF Placed, Playing
    <3> QED BY <1>1, <1>2, <3>6, <3>7, <3>8, Rests
  <2>7. CASE ~HasCurrent(items, c)
    <3>1. state' = "FINISHED" /\ out' = NULL /\ protocol' = protocol
      BY <2>5, <2>7
    <3>2. Numbered'
      BY <1>1, <2>2, <2>4, <3>1 DEF Numbered, States
    <3>3. Shown'
      BY <3>1 DEF Shown
    <3>4. Placed(cur', items', out')
      BY <1>1, <1>3, <2>2, <2>4, <3>1 DEF Placed
    <3> QED BY <1>1, <1>2, <3>2, <3>3, <3>4, Rests
  <2> QED BY <2>6, <2>7
<1> QED BY <1>5, <1>6, <1>7

LEMMA Fields ==
    ASSUME NEW o \in Stream
    PROVE  /\ o.at \in 0..MaxHead /\ o.end \in -1..MaxHead /\ o.at \in Int /\ o.end \in Int
           /\ \A at \in 0..MaxHead : [o EXCEPT !.at = at] \in Stream
           /\ \A in \in {"none", "file", "live"} : [o EXCEPT !.in = in] \in Stream
           /\ [o EXCEPT !.paused = TRUE, !.gop = FALSE] \in Stream
           /\ [o EXCEPT !.gop = FALSE, !.paused = TRUE] \in Stream
<1>1. o.at \in 0..MaxHead /\ o.end \in -1..MaxHead
  BY DEF Stream
<1>2. o.at \in Int /\ o.end \in Int
  BY <1>1, Bounds
<1>3. ASSUME NEW at \in 0..MaxHead PROVE [o EXCEPT !.at = at] \in Stream
  BY DEF Stream
<1>4. ASSUME NEW in \in {"none", "file", "live"} PROVE [o EXCEPT !.in = in] \in Stream
  BY DEF Stream
<1>5. [o EXCEPT !.paused = TRUE, !.gop = FALSE] \in Stream
  BY DEF Stream
<1>6. [o EXCEPT !.gop = FALSE, !.paused = TRUE] \in Stream
  BY DEF Stream
<1> QED BY <1>1, <1>2, <1>3, <1>4, <1>5, <1>6

LEMMA StreamingInv == ASSUME IInv, Streaming PROVE IInv'
<1>1. /\ Listed /\ Numbered /\ Shown /\ Placed(cur, items, out)
      /\ inserting = NULL /\ out # NULL /\ Len(items) \in Nat
  BY Served DEF Streaming, Frame, EndOfItem, LiveBegins, LiveEnds
<1>2. Good(out, items, state) /\ out \in Stream /\ out.item \in Ids(items)
  BY <1>1 DEF Shown, Good
<1>3. out.in = "file" => out.kind = "file"
  BY <1>2 DEF Good
<1>4. /\ out.at \in 0..MaxHead
      /\ DOMAIN out = {"item", "kind", "in", "at", "end", "paused", "gop"}
  BY <1>2 DEF Stream
<1>5. CASE LiveBegins
  <2>1. /\ out' = [out EXCEPT !.in = "live"]
        /\ UNCHANGED <<items, cur, state, head, born, inserting, protocol>>
    BY <1>5 DEF LiveBegins
  <2>2. out' \in Stream /\ out'.item = out.item /\ out'.in = "live"
    BY <1>2, <1>4, <2>1, Fields
  <2>3. Listed' /\ Numbered' /\ Placed(cur', items', out')
    BY <1>1, <2>1 DEF Listed, Numbered, Placed
  <2>4. Shown'
    BY <1>2, <2>1, <2>2 DEF Shown, Good
  <2> QED BY <1>1, <2>1, <2>3, <2>4, Rests
<1>6. CASE LiveEnds
  <2>1. PICK rest : rest = [out EXCEPT !.in = "none"]
    OBVIOUS
  <2>2. rest \in Stream /\ rest.item = out.item /\ rest.in = "none"
    BY <1>2, <1>4, <2>1, Fields
  <2>3. StreamCompleted(out.at, rest)
    BY <1>6, <2>1 DEF LiveEnds
  <2> QED BY <1>1, <1>2, <1>4, <2>2, <2>3, CompletedInv
<1>7. CASE EndOfItem
  <2>1. PICK rest : rest = [out EXCEPT !.paused = TRUE, !.gop = FALSE]
    OBVIOUS
  <2>2. rest \in Stream /\ rest.item = out.item /\ rest.in = out.in /\ rest.kind = out.kind
    BY <1>2, <1>4, <2>1, Fields
  <2>3. StreamCompleted(out.at, rest)
    BY <1>7, <2>1 DEF EndOfItem
  <2> QED BY <1>1, <1>2, <1>3, <1>4, <2>2, <2>3, CompletedInv
<1>8. CASE Frame
  <2>1. PICK at : at = out.at + 1
    OBVIOUS
  <2>2. at \in 0..MaxHead
    <3>1. PICK n \in -1..MaxHead : n = out.end
      BY <1>2, Fields
    <3>2. out.at < (IF n < 0 THEN MaxHead ELSE n)
      BY <1>8, <3>1 DEF Frame, MoreToFeed
    <3> QED BY <1>4, <2>1, <3>1, <3>2, Bounds
  <2>3. PICK fed : fed = [out EXCEPT !.at = at]
    OBVIOUS
  <2>4. /\ fed \in Stream /\ fed.at = at /\ fed.item = out.item /\ fed.in = out.in
        /\ fed.kind = out.kind /\ fed.paused = out.paused /\ fed.gop = out.gop
    BY <1>2, <1>4, <2>2, <2>3, Fields
  <2>5. fed = [out EXCEPT !.at = @ + 1]
    BY <2>1, <2>3
  <2>6. CASE out.gop
    <3>1. PICK rest : rest = [fed EXCEPT !.gop = FALSE, !.paused = TRUE]
      OBVIOUS
    <3>2. /\ rest \in Stream /\ rest.item = fed.item /\ rest.in = fed.in /\ rest.kind = fed.kind
      BY <2>4, <3>1, Fields DEF Stream
    <3>3. StreamCompleted(at, rest)
      BY <1>8, <2>4, <2>5, <2>6, <3>1 DEF Frame
    <3> QED BY <1>1, <1>2, <1>3, <2>2, <2>4, <3>2, <3>3, CompletedInv
  <2>7. CASE ~out.gop
    <3>1. out' = fed /\ UNCHANGED <<items, cur, state, head, born, inserting, protocol>>
      BY <1>8, <2>5, <2>7 DEF Frame
    <3>2. Listed' /\ Numbered' /\ Placed(cur', items', out')
      BY <1>1, <2>4, <3>1 DEF Listed, Numbered, Placed
    <3>3. Shown'
      BY <1>2, <2>4, <3>1 DEF Shown, Good
    <3> QED BY <1>1, <3>1, <3>2, <3>3, Rests
  <2> QED BY <2>6, <2>7
<1> QED BY <1>5, <1>6, <1>7, <1>8 DEF Streaming

-----------------------------------------------------------------------------
(* InsertItem.                                                             *)

\* w is what an insertion at i makes of s: x before the item, or in it.
Grows(w, s, i, x) ==
    \/ w.by = 0 /\ PutAt(w.items, s, i, x)
    \/ w.by = 1 /\ \E p \in Int, y \in Item, z \in Item :
                      /\ CutAt(w.items, s, i, y, x, z)
                      /\ y.id = s[i].id /\ y.dur = p
                      /\ z.dur = IF s[i].dur >= 0 THEN s[i].dur - p ELSE s[i].dur

LEMMA InsertedGrows ==
    ASSUME Listed, Numbered, Shown, Given, inserting # NULL, NEW i \in 1..Len(items),
           born + 1 + Inserted(i).by <= MaxId
    PROVE  /\ InsertedItem(born + 1) \in Item
           /\ Grows(Inserted(i), items, i, InsertedItem(born + 1))
<1>0. Inserted(i).by \in {0, 1}
  BY DEF Inserted
<1>1. PICK b \in 1..MaxId : b = born + 1 /\ b + Inserted(i).by <= MaxId
  BY <1>0, Bounds DEF Numbered
<1>2. PICK x : x = InsertedItem(b)
  OBVIOUS
<1>3. x \in Item
  BY <1>2 DEF InsertedItem, Given, Item
<1>4. items \in Seq(Item)
  BY DEF Listed
<1>5. PICK it \in Item : it = items[i]
  BY <1>4, IdOf
<1>6. PICK d \in Int : d = it.dur
  BY DEF Item
<1>7. PICK p : p = AlreadyPlayed(i)
  OBVIOUS
<1>8. p \in Int
  <2>1. PlaylistStarts(items)[i] \in Int
    <3>1. PlaylistStarts(items) \in [1..Len(items) -> Int]
      BY <1>4, Starts
    <3> QED BY <3>1
  <2>2. out # NULL => out.at \in Int
    BY Fields DEF Shown, Good
  <2> QED BY <1>7, <2>1, <2>2 DEF AlreadyPlayed
<1>9. CASE inserting.point = PlaylistStarts(items)[i] \/ p = 0
  <2>1. Inserted(i) = [items |-> Insert(items, i, <<x>>), by |-> 0]
    BY <1>1, <1>2, <1>7, <1>9 DEF Inserted
  <2>2. PutAt(Insert(items, i, <<x>>), items, i, x)
    BY <1>3, <1>4, InsertPuts
  <2>3. Inserted(i).by = 0 /\ Inserted(i).items = Insert(items, i, <<x>>)
    BY <2>1
  <2> QED BY <1>1, <1>2, <1>3, <2>2, <2>3 DEF Grows
<1>10. CASE ~ (inserting.point = PlaylistStarts(items)[i] \/ p = 0)
  <2>1. PICK y : y = [items[i] EXCEPT !.dur = p]
    OBVIOUS
  <2>2. PICK z : z = [items[i] EXCEPT !.id = b + 1, !.dur = IF @ >= 0 THEN @ - p ELSE @]
    OBVIOUS
  <2>3. PICK u : u = SubSeq(items, 1, i - 1) \o <<y, x, z>> \o SubSeq(items, i + 1, Len(items))
    OBVIOUS
  <2>4. Inserted(i) = [items |-> Split(i, p, b), by |-> 1]
    BY <1>1, <1>7, <1>10 DEF Inserted
  <2>5. Split(i, p, b) = u
    BY <1>2, <2>1, <2>2, <2>3 DEF Split
  <2>6. Inserted(i).by = 1 /\ Inserted(i).items = u
    BY <2>4, <2>5
  <2>7. y \in Item /\ y.id = it.id /\ y.dur = p
    BY <1>5, <1>8, <2>1 DEF Item
  <2>8. PICK e : e \in Int /\ e = IF d >= 0 THEN d - p ELSE d
    <3>1. (IF d >= 0 THEN d - p ELSE d) \in Int
      BY <1>8
    <3> QED BY <3>1
  <2>9. z = [it EXCEPT !.id = b + 1, !.dur = e]
    BY <1>5, <1>6, <2>2, <2>8
  <2>10. z \in Item /\ z.dur = e
    <3>1. b + 1 \in 1..MaxId
      BY <1>1, <2>6, Bounds
    <3> QED BY <2>8, <2>9, <3>1 DEF Item
  <2>11. CutAt(u, items, i, y, x, z)
    BY <1>3, <1>4, <2>3, <2>7, <2>10, ThreeCut
  <2>12. \E q \in Int, v \in Item, w \in Item :
            /\ CutAt(u, items, i, v, x, w)
            /\ v.id = items[i].id /\ v.dur = q
            /\ w.dur = IF items[i].dur >= 0 THEN items[i].dur - q ELSE items[i].dur
    BY <1>5, <1>6, <1>8, <2>7, <2>8, <2>10, <2>11
  <2>13. Grows(Inserted(i), items, i, x)
    BY <2>6, <2>12 DEF Grows
  <2> QED BY <1>1, <1>2, <1>3, <2>13
<1> QED BY <1>9, <1>10

\* Where the items are after it.
Grown(u, s, n, i, by) ==
    /\ u \in Seq(Item) /\ by \in {0, 1} /\ Len(u) = n + 1 + by
    /\ \A j \in 1..n : u[IF j < i \/ (j = i /\ by = 1) THEN j ELSE j + 1 + by].id = s[j].id

LEMMA GrownItems ==
    ASSUME NEW s \in Seq(Item), NEW i \in 1..Len(s), NEW x \in Item, NEW w, Grows(w, s, i, x)
    PROVE  Grown(w.items, s, Len(s), i, w.by)
<1>1. PICK n \in Nat : n = Len(s)
  OBVIOUS
<1>2. i \in 1..n
  BY <1>1
<1>3. PICK u : u = w.items
  OBVIOUS
<1>4. CASE w.by = 0 /\ PutAt(w.items, s, i, x)
  <2>1. /\ u \in Seq(Item) /\ Len(u) = n + 1
        /\ \A j \in 1..i - 1 : u[j] = s[j]
        /\ \A j \in i..n : u[j + 1] = s[j]
    BY <1>1, <1>3, <1>4 DEF PutAt
  <2>2. \A j \in 1..n : u[IF j < i THEN j ELSE j + 1] = s[j]
    <3> TAKE j \in 1..n
    <3>1. CASE j < i
      <4>1. j \in 1..i - 1
        BY <1>2, <3>1
      <4> QED BY <2>1, <3>1, <4>1
    <3>2. CASE ~ (j < i)
      <4>1. j \in i..n
        BY <1>2, <3>2
      <4> QED BY <2>1, <3>2, <4>1
    <3> QED BY <3>1, <3>2
  <2>3. \A j \in 1..n : (IF j < i \/ (j = i /\ w.by = 1) THEN j ELSE j + 1 + w.by)
                          = (IF j < i THEN j ELSE j + 1)
                        /\ (IF j < i THEN j ELSE j + 1 + w.by) = (IF j < i THEN j ELSE j + 1)
    BY <1>4
  <2>4. w.by = 0 /\ Len(u) = n + 1 + w.by
    BY <1>4, <2>1
  <2> QED BY <1>1, <1>3, <2>1, <2>2, <2>3, <2>4 DEF Grown
<1>5. ASSUME w.by = 1, NEW p \in Int, NEW y \in Item, NEW z \in Item,
             CutAt(w.items, s, i, y, x, z), y.id = s[i].id, y.dur = p,
             z.dur = IF s[i].dur >= 0 THEN s[i].dur - p ELSE s[i].dur
      PROVE  Grown(w.items, s, Len(s), i, w.by)
  <2>1. /\ u \in Seq(Item) /\ Len(u) = n + 2
        /\ \A j \in 1..i - 1 : u[j] = s[j]
        /\ u[i] = y /\ u[i + 2] = z
        /\ \A j \in i + 1..n : u[j + 2] = s[j]
    BY <1>1, <1>3, <1>5 DEF CutAt
  <2>2. ASSUME NEW j \in 1..n, j # i PROVE u[IF j < i THEN j ELSE j + 2] = s[j]
    <3>1. CASE j < i
      <4>1. j \in 1..i - 1
        BY <1>2, <3>1
      <4> QED BY <2>1, <3>1, <4>1
    <3>2. CASE ~ (j < i)
      <4>1. j \in i + 1..n
        BY <1>2, <2>2, <3>2
      <4> QED BY <2>1, <3>2, <4>1
    <3> QED BY <3>1, <3>2
  <2>3. \A j \in 1..n : /\ j + 1 + w.by = j + 2
                        /\ j # i => (j < i \/ (j = i /\ w.by = 1) <=> j < i)
    BY <1>5
  <2>4. Len(u) = n + 1 + w.by
    BY <1>5, <2>1
  <2>5. \A j \in 1..n : u[IF j < i \/ (j = i /\ w.by = 1) THEN j ELSE j + 1 + w.by].id = s[j].id
    <3> TAKE j \in 1..n
    <3>1. CASE j = i
      BY <1>5, <2>1, <3>1
    <3>2. CASE j # i
      BY <2>2, <2>3, <3>2
    <3> QED BY <3>1, <3>2
  <2> QED BY <1>1, <1>3, <1>5, <2>1, <2>4, <2>5 DEF Grown
<1> QED BY <1>4, <1>5 DEF Grows

LEMMA GrownIds ==
    ASSUME NEW s \in Seq(Item), NEW i \in 1..Len(s), NEW x \in Item, NEW w, Grows(w, s, i, x)
    PROVE  Ids(s) \subseteq Ids(w.items)
<1>1. PICK n \in Nat : n = Len(s)
  OBVIOUS
<1>2. PICK u : u = w.items
  OBVIOUS
<1>3. PICK by : by = w.by
  OBVIOUS
<1>4. Grown(u, s, n, i, by)
  BY <1>1, <1>2, <1>3, GrownItems
<1>5. \A j \in 1..n : (IF j < i \/ (j = i /\ by = 1) THEN j ELSE j + 1 + by) \in 1..Len(u)
  BY <1>4 DEF Grown
<1>6. \A k \in 1..n : \E j \in 1..Len(u) : u[j].id = s[k].id
  BY <1>4, <1>5 DEF Grown
<1> QED BY <1>1, <1>2, <1>6, IdsKept

LEMMA InsertBeginsInv ==
    ASSUME IInv, NEW t \in Points, NEW new \in [kind : Kinds, dur : Int], InsertBegins(t, new)
    PROVE  IInv'
<1>1. /\ Listed /\ Numbered /\ Shown /\ Placed(cur, items, out)
      /\ UNCHANGED <<items, cur, state, head, out, born, protocol>>
  BY Served DEF InsertBegins
<1>2. inserting' = [point |-> t, kind |-> new.kind, dur |-> new.dur, count |-> 0]
  BY DEF InsertBegins
<1>3. inserting' \in [point : Points, kind : Kinds, dur : Int, count : Nat] /\ inserting'.count = 0
  BY <1>2
<1>4. Given' /\ Landed'
  BY <1>3 DEF Given, Landed
<1>5. Indexed'
  BY <1>1 DEF Indexed, Placed
<1>6. Listed' /\ Numbered' /\ Shown'
  BY <1>1 DEF Listed, Numbered, Shown, Good
<1> QED BY <1>4, <1>5, <1>6 DEF IInv

LEMMA InsertBeyondInv == ASSUME IInv, InsertBeyond PROVE IInv'
<1>1. Listed /\ Numbered /\ Shown /\ Indexed /\ Given /\ Landed /\ inserting # NULL
  BY DEF IInv, InsertBeyond
<1>2. inserting.count \in Nat /\ ~ (inserting.count > 0)
  BY <1>1 DEF Given, Landed, InsertBeyond
<1>3. Placed(cur, items, out)
  BY <1>1, <1>2 DEF Indexed
<1>4. PICK x : x = InsertedItem(born + 1)
  OBVIOUS
<1>5. born + 1 \in 1..MaxId /\ born + 1 \in 0..MaxId
  BY <1>1, Bounds DEF InsertBeyond, Numbered
<1>6. x \in Item
  BY <1>1, <1>4, <1>5 DEF InsertedItem, Given, Item
<1>7. PICK n \in Nat : n = Len(items)
  BY <1>1 DEF Listed
<1>8. PICK u : u = items'
  OBVIOUS
<1>9. u \in Seq(Item) /\ Len(u) = n + 1 /\ \A j \in 1..n : u[j] = items[j]
  <2>1. u = Append(items, x) /\ items \in Seq(Item)
    BY <1>1, <1>4, <1>8 DEF InsertBeyond, Listed
  <2> QED BY <1>6, <1>7, <2>1, AppendProperties
<1>10. Listed'
  BY <1>7, <1>8, <1>9, Bounds DEF Listed, InsertBeyond
<1>11. UNCHANGED <<cur, state, head, out, protocol>> /\ born' = born + 1 /\ inserting' = NULL
  BY DEF InsertBeyond
<1>12. Numbered'
  BY <1>1, <1>5, <1>11 DEF Numbered
<1>13. Ids(items) \subseteq Ids(u)
  <2>1. \A k \in 1..n : k \in 1..Len(u) /\ u[k].id = items[k].id
    BY <1>9
  <2> QED BY <1>7, <2>1, IdsKept
<1>14. Shown'
  BY <1>1, <1>8, <1>11, <1>13 DEF Shown, Good
<1>15. Placed(cur', items', out')
  <2>1. cur \in 1..n + 1 /\ (out # NULL => cur \in 1..n /\ out.item = items[cur].id)
    BY <1>3, <1>7 DEF Placed
  <2>2. cur \in 1..Len(u) + 1 /\ (out # NULL => cur \in 1..Len(u) /\ out.item = u[cur].id)
    BY <1>9, <2>1
  <2> QED BY <1>8, <1>11, <2>2 DEF Placed
<1> QED BY <1>10, <1>11, <1>12, <1>14, <1>15, Rests

\* What the two calls that insert share.
LEMMA Insertion ==
    ASSUME IInv, NEW i, i = ItemAt(items, inserting.point), i # 0, inserting # NULL,
           born + 1 + Inserted(i).by <= MaxId, born' = born + 1 + Inserted(i).by,
           items' = Inserted(i).items,
           Len(Inserted(i).items) <= MaxItems
    PROVE  /\ i \in 1..Len(items) /\ InsertedItem(born + 1) \in Item
           /\ Grows(Inserted(i), items, i, InsertedItem(born + 1))
           /\ Grown(items', items, Len(items), i, Inserted(i).by)
           /\ Listed' /\ born' \in 0..MaxId /\ Ids(items) \subseteq Ids(items')
<1>1. Listed /\ Numbered /\ Shown /\ Given /\ items \in Seq(Item)
  BY DEF IInv, Listed
<1>2. i \in 1..Len(items)
  <2>1. ItemAt(items, inserting.point) \in 0..Len(items) /\ Len(items) \in Nat
    BY <1>1, AtPoint
  <2> QED BY <2>1
<1>3. PICK w : w = Inserted(i)
  OBVIOUS
<1>4. PICK x : x = InsertedItem(born + 1)
  OBVIOUS
<1>5. x \in Item /\ Grows(w, items, i, x)
  BY <1>1, <1>2, <1>3, <1>4, InsertedGrows
<1>6. Grown(w.items, items, Len(items), i, w.by) /\ Ids(items) \subseteq Ids(w.items)
  BY <1>1, <1>2, <1>5, GrownItems, GrownIds
<1>7. w.items \in Seq(Item) /\ w.by \in {0, 1}
  BY <1>6 DEF Grown
<1>8. Listed'
  BY <1>3, <1>7 DEF Listed
<1>9. born' \in 0..MaxId
  BY <1>1, <1>3, <1>7, Bounds DEF Numbered
<1> QED BY <1>2, <1>3, <1>4, <1>5, <1>6, <1>8, <1>9

LEMMA InsertAtCurrentInv == ASSUME IInv, InsertAtCurrent PROVE IInv'
<1>1. Listed /\ Numbered /\ inserting # NULL /\ cur = ItemAt(items, inserting.point)
  BY DEF IInv, InsertAtCurrent, AtCurrent
<1>2. PICK i : i = ItemAt(items, inserting.point)
  OBVIOUS
<1>3. PICK by : by = Inserted(i).by
  OBVIOUS
<1>4. PICK u : u = Inserted(i).items
  OBVIOUS
<1>5. PICK c : c = cur + by
  OBVIOUS
<1>6. /\ i # 0 /\ i = cur /\ Len(u) <= MaxItems /\ born + 1 + by <= MaxId
      /\ items' = u /\ cur' = c /\ born' = born + 1 + by
      /\ inserting' = NULL /\ UNCHANGED <<state, head>>
  BY <1>1, <1>2, <1>3, <1>4, <1>5 DEF InsertAtCurrent, AtCurrent
<1>7. PICK start : start = PlaylistStarts(u)[c]
  OBVIOUS
<1>8. PICK from : from = IF start < 0 THEN 0 ELSE Least(start, MaxHead)
  OBVIOUS
<1>9. \/ ItemPlays(u[c], from, u[c].dur, state = "PAUSED")
      \/ ItemFails(u[c], from, FALSE)
  BY <1>1, <1>2, <1>3, <1>4, <1>5, <1>7, <1>8 DEF InsertAtCurrent
<1>10. PICK n \in Nat : n = Len(items)
  BY <1>1 DEF Listed
<1>11. i \in 1..n /\ Grown(u, items, n, i, by) /\ Listed' /\ born' \in 0..MaxId
  <2>1. /\ i \in 1..Len(items) /\ Grown(items', items, Len(items), i, Inserted(i).by)
        /\ Listed' /\ born' \in 0..MaxId
    BY <1>1, <1>2, <1>3, <1>4, <1>6, Insertion
  <2> QED BY <1>3, <1>6, <1>10, <2>1
<1>12. u \in Seq(Item) /\ c \in 1..Len(u) /\ c \in 1..Len(u) + 1 /\ c \in Int
  BY <1>5, <1>6, <1>11 DEF Grown
<1>13. start \in Int
  <2>1. PlaylistStarts(u) \in [1..Len(u) -> Int]
    BY <1>12, Starts
  <2> QED BY <1>7, <1>12, <2>1
<1>14. from \in 0..MaxHead
  BY <1>8, <1>13, Bounds DEF Least
<1>15. PICK gop \in BOOLEAN : gop = (state = "PAUSED")
  OBVIOUS
<1>16. Playing(out', u, c, state) /\ protocol' \in Protocols
  <2>1. /\ \/ ItemPlays(u[c], from, u[c].dur, gop)
           \/ \E refused \in BOOLEAN : ItemFails(u[c], from, refused)
        /\ state = "PLAYING" => ~gop
    BY <1>9, <1>15
  <2>2. u[c].dur \in Int
    BY <1>12, IdOf
  <2>3. protocol \in Protocols
    BY <1>1 DEF Numbered
  <2> QED BY <1>12, <1>14, <2>1, <2>2, <2>3, Plays
<1>17. Numbered'
  BY <1>1, <1>6, <1>11, <1>12, <1>16 DEF Numbered
<1>18. Shown' /\ Placed(cur', items', out')
  BY <1>6, <1>12, <1>16 DEF Shown, Placed, Playing
<1> QED BY <1>6, <1>11, <1>17, <1>18, Rests

LEMMA InsertElsewhereInv == ASSUME IInv, InsertElsewhere PROVE IInv'
<1>1. Listed /\ Numbered /\ Shown /\ Given /\ inserting # NULL
  BY DEF IInv, InsertElsewhere, Elsewhere
<1>2. PICK i : i = ItemAt(items, inserting.point)
  OBVIOUS
<1>3. PICK w : w = Inserted(i)
  OBVIOUS
<1>4. /\ i # 0 /\ Len(w.items) <= MaxItems /\ born + 1 + w.by <= MaxId
      /\ items' = w.items /\ cur' = cur + w.by - 1 /\ born' = born + 1 + w.by
      /\ inserting' = [inserting EXCEPT !.count = @ + 1]
      /\ UNCHANGED <<state, head, out, protocol>>
  BY <1>2, <1>3 DEF InsertElsewhere, Elsewhere
<1>5. PICK x : x = InsertedItem(born + 1)
  OBVIOUS
<1>6. /\ i \in 1..Len(items) /\ x \in Item /\ Grows(w, items, i, x)
      /\ Grown(w.items, items, Len(items), i, w.by)
      /\ Listed' /\ born' \in 0..MaxId /\ Ids(items) \subseteq Ids(w.items)
  BY <1>1, <1>2, <1>3, <1>4, <1>5, Insertion
<1>7. w.by \in {0, 1} /\ w.items \in Seq(Item) /\ items \in Seq(Item)
  BY <1>1, <1>6 DEF Grown, Listed
<1>8. Numbered'
  BY <1>1, <1>4, <1>6, <1>7 DEF Numbered
<1>9. Shown'
  BY <1>1, <1>4, <1>6 DEF Shown, Good
<1>10. inserting \in [point : Points, kind : Kinds, dur : Int, count : Nat]
  BY <1>1 DEF Given
<1>11. PICK t \in Points : t = inserting.point
  BY <1>10
<1>12. /\ inserting' \in [point : Points, kind : Kinds, dur : Int, count : Nat]
       /\ inserting'.point = t /\ inserting'.count > 0
  BY <1>4, <1>10, <1>11
<1>13. Given'
  BY <1>12 DEF Given
<1>14. Indexed'
  <2>1. ~ (inserting'.count = 0)
    BY <1>12
  <2>2. inserting' # NULL
    BY <1>12, PlaylistAssumption
  <2> QED BY <2>1, <2>2 DEF Indexed
<1>15. Landed'
  <2>1. t \in Int
    BY PlaylistAssumption
  <2>2. \/ PutAt(w.items, items, i, x)
        \/ \E p \in Int, y \in Item, z \in Item :
              /\ CutAt(w.items, items, i, y, x, z)
              /\ y.dur = p
              /\ z.dur = IF items[i].dur >= 0 THEN items[i].dur - p ELSE items[i].dur
    BY <1>6 DEF Grows
  <2>3. ItemAt(w.items, t) # 0
    BY <1>2, <1>6, <1>7, <1>11, <2>1, <2>2, StillThere
  <2> QED BY <1>4, <1>12, <2>3 DEF Landed
<1> QED BY <1>6, <1>8, <1>9, <1>13, <1>14, <1>15 DEF IInv

LEMMA StepInv == IInv /\ [Next]_vars => IInv'
<1> SUFFICES ASSUME IInv, [Next]_vars PROVE IInv'
  OBVIOUS
<1>1. ASSUME NEW l \in Lists PROVE l[1] \in [kind : Kinds, dur : Int]
  <2>1. l \in Seq([kind : Kinds, dur : Int]) /\ Len(l) > 0
    BY PlaylistAssumption
  <2>2. Len(l) \in Nat
    BY <2>1, LenProperties
  <2>3. 1 \in 1..Len(l)
    BY <2>1, <2>2
  <2> QED BY <2>1, <2>3, ElementOfSeq
<1>2. CASE Request
  <2>1. ASSUME NEW l \in Lists, PlayReset(l) \/ PlayAppend(l) PROVE IInv'
    BY <2>1, PlayResetInv, PlayAppendInv
  <2>2. CASE Pause \/ Resume \/ Stop \/ CloseStream
    BY <2>2, PauseInv, ResumeInv, CleanedInv, CloseInv
  <2>3. ASSUME NEW t \in Points, Seek(t) PROVE IInv'
    BY <2>3, SeekInv
  <2>4. ASSUME NEW t \in Points, NEW l \in Lists, NEW changed \in {{}, {1}, {cur}},
               Switch(changed, l[1], t)
        PROVE  IInv'
    <3>1. cur \in Int
      BY DEF IInv, Numbered
    <3>2. changed \in SUBSET Int /\ (changed = {} \/ \E i \in changed : changed = {i})
      BY <3>1
    <3> QED BY <1>1, <2>4, <3>2, SwitchInv
  <2>5. ASSUME NEW t \in Points, NEW l \in Lists, InsertBegins(t, l[1]) PROVE IInv'
    BY <1>1, <2>5, InsertBeginsInv
  <2> QED BY <1>2, <2>1, <2>2, <2>3, <2>4, <2>5 DEF Request
<1>3. CASE InsertItem
  BY <1>3, InsertBeyondInv, InsertAtCurrentInv, InsertElsewhereInv DEF InsertItem
<1>4. CASE Streaming
  BY <1>4, StreamingInv
<1>5. CASE SendFails \/ EnqueueForDelete \/ Deleted
  BY <1>5, CleanedInv, CloseInv
<1>6. CASE UNCHANGED vars
  BY <1>6 DEF vars, IInv, Listed, Numbered, Shown, Good, Indexed, Placed, Given, Landed
<1> QED BY <1>2, <1>3, <1>4, <1>5, <1>6 DEF Next

LEMMA Invariance == Spec => []IInv
BY InitInv, StepInv, PTL DEF Spec

\* The out stream never keeps a pointer to an item that is gone, and every
\* variable its type: in particular every start is a number and the index,
\* whenever an item is taken by it, one of an item (Cleanup, Switch,
\* InsertItem, SignalItemCompleted).
THEOREM NoDanglingItem == Spec => []StreamOfItem
<1>1. IInv => StreamOfItem
  BY Typed
<1> QED BY <1>1, Invariance, PTL

\* Nothing that pauses the file that plays outlives the resume: neither Pause
\* nor the single GOP of a seek or a switch in pause.
THEOREM FilePlays == Spec => []PlayingFileRuns
<1>1. IInv => PlayingFileRuns
  BY Typed
<1> QED BY <1>1, Invariance, PTL

\* Between the requests the out stream plays the item at the index, for any
\* items, points and insertions: InsertItem, which takes the index back and
\* calls itself, ends with the index at the item it plays.
THEOREM IndexFollows == Spec => []PlayedIsCurrent
<1>1. IInv => PlayedIsCurrent
  BY Typed
<1> QED BY <1>1, Invariance, PTL
=============================================================================
