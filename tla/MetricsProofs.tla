--------------------------- MODULE MetricsProofs ---------------------------
(***************************************************************************)
(* Lemmas about the operators of Metrics: sums over finite sets, least and *)
(* greatest elements, and the ranking of contents.                         *)
(***************************************************************************)
EXTENDS Metrics, FiniteSetTheorems, TLAPS

-----------------------------------------------------------------------------
(* Finite sets.                                                            *)

LEMMA DisjointUnion ==
    ASSUME NEW S, IsFiniteSet(S), NEW T, IsFiniteSet(T), S \cap T = {}
    PROVE  /\ IsFiniteSet(S \cup T)
           /\ Cardinality(S) \in Nat /\ Cardinality(T) \in Nat
           /\ Cardinality(S \cup T) = Cardinality(S) + Cardinality(T)
  <1>1. Cardinality(S) \in Nat /\ Cardinality(T) \in Nat
    BY FS_CardinalityType
  <1>2. Cardinality(S \cap T) = 0
    BY FS_EmptySet
  <1>3. /\ IsFiniteSet(S \cup T)
        /\ Cardinality(S \cup T) = Cardinality(S) + Cardinality(T) - Cardinality(S \cap T)
    BY FS_Union, Zenon
  <1> QED
    BY <1>1, <1>2, <1>3

LEMMA UnionIsSmaller ==
    ASSUME NEW S, IsFiniteSet(S), NEW T, IsFiniteSet(T)
    PROVE  /\ Cardinality(S) \in Nat /\ Cardinality(T) \in Nat /\ Cardinality(S \cup T) \in Nat
           /\ Cardinality(S \cup T) <= Cardinality(S) + Cardinality(T)
  <1>1. /\ IsFiniteSet(S \cup T)
        /\ Cardinality(S \cup T) = Cardinality(S) + Cardinality(T) - Cardinality(S \cap T)
    BY FS_Union, Zenon
  <1>2. IsFiniteSet(S \cap T)
    BY FS_Intersection
  <1>3. /\ Cardinality(S) \in Nat /\ Cardinality(T) \in Nat
        /\ Cardinality(S \cup T) \in Nat /\ Cardinality(S \cap T) \in Nat
    BY <1>1, <1>2, FS_CardinalityType
  <1> QED
    BY <1>1, <1>3

(* Among subsets of a finite set there is one without smaller ones.        *)
LEMMA SmallestSet ==
    ASSUME NEW D, IsFiniteSet(D), NEW sets, sets \subseteq SUBSET D, sets # {}
    PROVE  \E s \in sets : \A t \in sets : <<t, s>> \notin StrictSubsetOrdering(D)
  <1>1. IsWellFoundedOn(StrictSubsetOrdering(D), SUBSET D)
    BY FS_FiniteSubsetsOfFinite, FS_StrictSubsetOrderingWellFounded
  <1> QED
    BY <1>1, WFMin

LEMMA FiniteFour ==
    ASSUME NEW a, NEW b, NEW c, NEW d
    PROVE  IsFiniteSet({a, b, c, d})
  <1>1. IsFiniteSet({a} \cup {b})
    BY FS_Singleton, FS_AddElement
  <1>2. IsFiniteSet(({a} \cup {b}) \cup {c})
    BY <1>1, FS_AddElement
  <1>3. IsFiniteSet((({a} \cup {b}) \cup {c}) \cup {d})
    BY <1>2, FS_AddElement
  <1>4. (({a} \cup {b}) \cup {c}) \cup {d} = {a, b, c, d}
    OBVIOUS
  <1> QED
    BY <1>3, <1>4

LEMMA FiniteImage ==
    ASSUME NEW S, IsFiniteSet(S), NEW f
    PROVE  IsFiniteSet({f[x] : x \in S}) /\ Cardinality({f[x] : x \in S}) <= Cardinality(S)
  <1> DEFINE g == [x \in S |-> f[x]]
             T == {f[x] : x \in S}
  <1>1. g \in Surjection(S, T)
    BY DEF Surjection
  <1> HIDE DEF g
  <1> QED
    BY <1>1, FS_Surjection

-----------------------------------------------------------------------------
(* A sum takes one element at a time out of a set, whichever CHOOSE gives. *)

SumOf(f, D) == MapThenSumSet(LAMBDA x : f[x], D)

TakesOne(h, f, D) ==
    h = [s \in SUBSET D |->
            IF s = {} THEN 0
            ELSE f[CHOOSE x \in s : TRUE] + h[s \ {CHOOSE x \in s : TRUE}]]

(* Only one function does, by the smallest set on which two would differ.  *)
LEMMA SumIsUnique ==
    ASSUME NEW D, IsFiniteSet(D), NEW f, NEW h, TakesOne(h, f, D), NEW k, TakesOne(k, f, D)
    PROVE  k = h
  <1> DEFINE differ == {s \in SUBSET D : k[s] # h[s]}
  <1>1. SUFFICES ASSUME differ # {} PROVE FALSE
    BY DEF TakesOne
  <1>2. PICK s \in differ : \A t \in differ : <<t, s>> \notin StrictSubsetOrdering(D)
    <2>1. differ \subseteq SUBSET D
      OBVIOUS
    <2> HIDE DEF differ
    <2> QED
      BY <1>1, <2>1, SmallestSet
  <1>3. s # {}
    BY DEF TakesOne
  <1> DEFINE x == CHOOSE x \in s : TRUE
             t == s \ {x}
  <1>4. x \in s
    BY <1>3
  <1>5. t \in SUBSET D /\ k[s] = f[x] + k[t] /\ h[s] = f[x] + h[t]
    BY <1>3 DEF TakesOne
  <1>6. t \notin differ
    <2>1. <<t, s>> \in StrictSubsetOrdering(D)
      BY <1>4 DEF StrictSubsetOrdering
    <2> QED
      BY <1>2, <2>1
  <1> QED
    BY <1>5, <1>6

LEMMA SumIsFold ==
    ASSUME NEW D, IsFiniteSet(D), NEW f, NEW h, TakesOne(h, f, D)
    PROVE  SumOf(f, D) = h[D]
  <1> DEFINE iter == CHOOSE k : k = [s \in SUBSET D |->
                         IF s = {} THEN 0
                         ELSE f[CHOOSE x \in s : TRUE] + k[s \ {CHOOSE x \in s : TRUE}]]
  <1>1. SumOf(f, D) = iter[D]
    BY DEF SumOf, MapThenSumSet, MapThenFoldSet
  <1>2. TakesOne(iter, f, D)
    BY DEF TakesOne
  <1>3. iter = h
    <2> HIDE DEF iter
    <2> QED
      BY <1>2, SumIsUnique
  <1> QED
    BY <1>1, <1>3

(* The sizes of the parts of a set add up to its size.                     *)
LEMMA SumOfParts ==
    ASSUME NEW D, IsFiniteSet(D), NEW f, NEW part,
           \A x \in D : IsFiniteSet(part[x]) /\ f[x] = Cardinality(part[x]),
           \A x, y \in D : x # y => part[x] \cap part[y] = {}
    PROVE  SumOf(f, D) = Cardinality(UNION {part[x] : x \in D})
  <1> DEFINE Of(s) == UNION {part[x] : x \in s}
             h == [s \in SUBSET D |-> Cardinality(Of(s))]
  <1>1. ASSUME NEW s \in SUBSET D
        PROVE  h[s] = IF s = {} THEN 0
                      ELSE f[CHOOSE x \in s : TRUE] + h[s \ {CHOOSE x \in s : TRUE}]
    <2>1. CASE s = {}
      <3>1. Of(s) = {}
        BY <2>1
      <3> QED
        BY <2>1, <3>1, FS_EmptySet
    <2>2. CASE s # {}
      <3> DEFINE x == CHOOSE x \in s : TRUE
                 t == s \ {x}
      <3>1. x \in s /\ x \in D /\ t \in SUBSET D
        BY <2>2
      <3> HIDE DEF x
      <3>2. Of(s) = part[x] \cup Of(t) /\ part[x] \cap Of(t) = {}
        BY <3>1
      <3>3. IsFiniteSet(part[x]) /\ IsFiniteSet(Of(t))
        <4>1. IsFiniteSet(t)
          BY <3>1, FS_Subset
        <4>2. IsFiniteSet({part[y] : y \in t})
          BY <4>1, FiniteImage
        <4> QED
          BY <3>1, <4>2, FS_UNION
      <3> HIDE DEF Of, t
      <3>4. Cardinality(Of(s)) = Cardinality(part[x]) + Cardinality(Of(t))
        BY <3>2, <3>3, DisjointUnion
      <3>5. h[s] = f[x] + h[t]
        BY <3>1, <3>4
      <3> QED
        BY <2>2, <3>5 DEF x, t
    <2> QED
      BY <2>1, <2>2
  <1>2. TakesOne(h, f, D)
    <2> HIDE DEF Of
    <2> QED
      BY <1>1 DEF TakesOne
  <1>3. D \in SUBSET D
    OBVIOUS
  <1>4. h[D] = Cardinality(Of(D))
    OBVIOUS
  <1> HIDE DEF h
  <1> QED
    BY <1>2, <1>4, SumIsFold

LEMMA TotalOfParts ==
    ASSUME NEW f, IsFiniteSet(DOMAIN f), NEW part,
           \A x \in DOMAIN f : IsFiniteSet(part[x]) /\ f[x] = Cardinality(part[x]),
           \A x, y \in DOMAIN f : x # y => part[x] \cap part[y] = {}
    PROVE  Total(f) = Cardinality(UNION {part[x] : x \in DOMAIN f})
  <1>1. SumOf(f, DOMAIN f) = Cardinality(UNION {part[x] : x \in DOMAIN f})
    BY SumOfParts
  <1>2. Total(f) = SumOf(f, DOMAIN f)
    BY DEF Total, SumOf
  <1> QED
    BY <1>1, <1>2

(* No part larger than m: the whole is at most m times their number.       *)
LEMMA PartsAreBounded ==
    ASSUME NEW D, IsFiniteSet(D), NEW part, NEW m \in Nat,
           \A x \in D : IsFiniteSet(part[x]) /\ Cardinality(part[x]) <= m
    PROVE  Cardinality(UNION {part[x] : x \in D}) <= Cardinality(D) * m
  <1> DEFINE Of(s) == UNION {part[x] : x \in s}
             larger == {s \in SUBSET D : ~(Cardinality(Of(s)) <= Cardinality(s) * m)}
  <1>1. SUFFICES ASSUME larger # {} PROVE FALSE
    OBVIOUS
  <1>2. PICK s \in larger : \A t \in larger : <<t, s>> \notin StrictSubsetOrdering(D)
    <2>1. larger \subseteq SUBSET D
      OBVIOUS
    <2> HIDE DEF larger
    <2> QED
      BY <1>1, <2>1, SmallestSet
  <1>3. s # {}
    <2>1. SUFFICES ASSUME s = {} PROVE FALSE
      OBVIOUS
    <2>2. Of(s) = {}
      BY <2>1
    <2>3. Cardinality(Of(s)) = 0 /\ Cardinality(s) = 0
      BY <2>1, <2>2, FS_EmptySet
    <2> QED
      BY <2>3
  <1>4. PICK x \in s : TRUE
    BY <1>3
  <1> DEFINE t == s \ {x}
  <1>5. IsFiniteSet(s) /\ IsFiniteSet(t) /\ x \in D /\ t \in SUBSET D
    BY FS_Subset
  <1>6. Of(s) = part[x] \cup Of(t)
    OBVIOUS
  <1>7. IsFiniteSet(part[x]) /\ IsFiniteSet(Of(t))
    <2>1. IsFiniteSet({part[y] : y \in t})
      BY <1>5, FiniteImage
    <2> QED
      BY <1>5, <2>1, FS_UNION
  <1>8. t \notin larger
    <2>1. <<t, s>> \in StrictSubsetOrdering(D)
      BY <1>4, <1>5 DEF StrictSubsetOrdering
    <2> QED
      BY <1>2, <2>1
  <1> DEFINE n == Cardinality(t)
  <1>9. /\ n \in Nat /\ Cardinality(s) = n + 1
        /\ Cardinality(part[x]) \in Nat /\ Cardinality(Of(t)) \in Nat /\ Cardinality(Of(s)) \in Nat
        /\ Cardinality(Of(s)) <= Cardinality(part[x]) + Cardinality(Of(t))
    <2>1. Cardinality(s) \in Nat /\ n = Cardinality(s) - 1 /\ n \in Nat
      BY <1>4, <1>5, FS_RemoveElement, FS_CardinalityType
    <2> HIDE DEF t, Of
    <2> QED
      BY <1>6, <1>7, <2>1, UnionIsSmaller
  <1>10. Cardinality(Of(t)) <= n * m /\ Cardinality(part[x]) <= m
    BY <1>5, <1>8
  <1>11. ~(Cardinality(Of(s)) <= (n + 1) * m)
    BY <1>9
  <1> HIDE DEF n, Of, t
  <1>12. (n + 1) * m = n * m + m /\ n * m \in Nat
    BY <1>9
  <1> QED
    BY <1>9, <1>10, <1>11, <1>12

-----------------------------------------------------------------------------
(* Least elements.                                                         *)

LEMMA LeastNumber ==
    ASSUME NEW S \in SUBSET Nat, S # {}
    PROVE  MinOf(S) \in S /\ \A x \in S : MinOf(S) <= x
  <1>1. PICK m \in S : \A x \in S : <<x, m>> \notin OpToRel(<, Nat)
    BY NatLessThanWellFounded, WFMin
  <1>2. ASSUME NEW x \in S
        PROVE  m <= x
    <2>1. <<x, m>> \in Nat \X Nat /\ ~(x < m)
      BY <1>1 DEF OpToRel
    <2> QED
      BY <2>1
  <1> QED
    BY <1>2 DEF MinOf

LEMMA LesserOfTwo ==
    ASSUME NEW a \in Nat, NEW b \in Nat
    PROVE  Min({a, b}) = IF a <= b THEN a ELSE b
  BY DEF Min

-----------------------------------------------------------------------------
(* The ranking of contents.                                                *)

UpdatesOf(E, days, c) == {e \in Updates(E, days) : ContentOf(e) = c}

RankedContent(E, days, c) == [content |-> c, count |-> Cardinality(UpdatesOf(E, days, c)),
                               last_event_at |-> Max({e.received_at : e \in UpdatesOf(E, days, c)})]

Contents(E, days) == {ContentOf(e) : e \in Updates(E, days)}

RankedContents(E, days) == {RankedContent(E, days, c) : c \in Contents(E, days)}

LEMMA RowOfContent ==
    ASSUME NEW E, NEW days, NEW c
    PROVE  /\ RankedContent(E, days, c).content = c
           /\ RankedContent(E, days, c).count = Cardinality(UpdatesOf(E, days, c))
  BY DEF RankedContent

LEMMA RankingOfRows ==
    ASSUME NEW E, NEW days, NEW limit
    PROVE  TopUpdatedContents(E, days, limit)
             = {top \in SUBSET RankedContents(E, days) :
                   /\ Cardinality(top) = Min({limit, Cardinality(RankedContents(E, days))})
                   /\ \A r \in top, q \in RankedContents(E, days) \ top : ~Precedes(q, r)}
  BY DEF TopUpdatedContents, RankedContents, RankedContent, Contents, UpdatesOf

(* There are no more rows than contents, nor more contents than events.    *)
LEMMA RowsAreFew ==
    ASSUME NEW E, IsFiniteSet(E), NEW days
    PROVE  /\ IsFiniteSet(Contents(E, days)) /\ IsFiniteSet(RankedContents(E, days))
           /\ Cardinality(RankedContents(E, days)) \in Nat /\ Cardinality(Contents(E, days)) \in Nat
           /\ Cardinality(RankedContents(E, days)) <= Cardinality(E)
  <1> DEFINE f == [e \in Updates(E, days) |-> ContentOf(e)]
             g == [c \in Contents(E, days) |-> RankedContent(E, days, c)]
  <1>1. IsFiniteSet(Updates(E, days)) /\ Cardinality(Updates(E, days)) <= Cardinality(E)
    BY FS_Subset DEF Updates, During
  <1>2. Contents(E, days) = {f[e] : e \in Updates(E, days)}
    BY DEF Contents
  <1>3. RankedContents(E, days) = {g[c] : c \in Contents(E, days)}
    BY DEF RankedContents
  <1> HIDE DEF f, g
  <1>4. IsFiniteSet(Contents(E, days)) /\ Cardinality(Contents(E, days)) <= Cardinality(Updates(E, days))
    BY <1>1, <1>2, FiniteImage
  <1>5. IsFiniteSet(RankedContents(E, days)) /\ Cardinality(RankedContents(E, days)) <= Cardinality(Contents(E, days))
    BY <1>3, <1>4, FiniteImage
  <1>6. /\ Cardinality(E) \in Nat /\ Cardinality(Updates(E, days)) \in Nat
        /\ Cardinality(Contents(E, days)) \in Nat /\ Cardinality(RankedContents(E, days)) \in Nat
    BY <1>1, <1>4, <1>5, FS_CardinalityType
  <1> QED
    BY <1>1, <1>4, <1>5, <1>6

(* A ranking with room for all contents has the counts of all of them.     *)
LEMMA FullRanking ==
    ASSUME NEW E, IsFiniteSet(E), NEW days, NEW limit \in Nat, Cardinality(E) <= limit,
           NEW all \in TopUpdatedContents(E, days, limit)
    PROVE  all = RankedContents(E, days)
  <1>1. /\ all \subseteq RankedContents(E, days)
        /\ Cardinality(all) = Min({limit, Cardinality(RankedContents(E, days))})
    BY RankingOfRows
  <1>2. Cardinality(RankedContents(E, days)) <= limit /\ Cardinality(RankedContents(E, days)) \in Nat
    BY RowsAreFew, FS_CardinalityType
  <1>3. Cardinality(all) = Cardinality(RankedContents(E, days))
    BY <1>1, <1>2, LesserOfTwo
  <1> QED
    BY <1>1, <1>3, RowsAreFew, FS_Subset

LEMMA RankingExists ==
    ASSUME NEW E, IsFiniteSet(E), NEW days, NEW limit \in Nat, Cardinality(E) <= limit
    PROVE  RankedContents(E, days) \in TopUpdatedContents(E, days, limit)
  <1>1. Cardinality(RankedContents(E, days)) <= limit /\ Cardinality(RankedContents(E, days)) \in Nat
    BY RowsAreFew, FS_CardinalityType
  <1>2. Cardinality(RankedContents(E, days)) = Min({limit, Cardinality(RankedContents(E, days))})
    BY <1>1, LesserOfTwo
  <1> QED
    BY <1>2, RankingOfRows

LEMMA RowsCountUpdates ==
    ASSUME NEW E, IsFiniteSet(E), NEW days
    PROVE  SumOf([row \in RankedContents(E, days) |-> row.count], RankedContents(E, days)) = Cardinality(Updates(E, days))
  <1> DEFINE rows == RankedContents(E, days)
             f == [row \in rows |-> row.count]
             part == [row \in rows |-> UpdatesOf(E, days, row.content)]
  <1>1. IsFiniteSet(rows) /\ IsFiniteSet(Updates(E, days))
    BY RowsAreFew, FS_Subset DEF Updates, During
  <1>2. ASSUME NEW row \in rows
        PROVE  row = RankedContent(E, days, row.content) /\ row.count = Cardinality(UpdatesOf(E, days, row.content))
    BY RowOfContent DEF RankedContents
  <1>3. ASSUME NEW row \in rows
        PROVE  IsFiniteSet(part[row]) /\ f[row] = Cardinality(part[row])
    <2>1. IsFiniteSet(UpdatesOf(E, days, row.content))
      BY <1>1, FS_Subset DEF UpdatesOf
    <2> QED
      BY <1>2, <2>1
  <1>4. \A row, other \in rows : row # other => part[row] \cap part[other] = {}
    BY <1>2 DEF UpdatesOf
  <1>5. UNION {part[row] : row \in rows} = Updates(E, days)
    <2>1. \A row \in rows : part[row] \subseteq Updates(E, days)
      BY DEF UpdatesOf
    <2>2. \A e \in Updates(E, days) : RankedContent(E, days, ContentOf(e)) \in rows
                                      /\ e \in part[RankedContent(E, days, ContentOf(e))]
      BY RowOfContent DEF RankedContents, Contents, UpdatesOf
    <2> HIDE DEF part, rows
    <2> QED
      BY <2>1, <2>2
  <1> HIDE DEF f, part, rows
  <1>6. SumOf(f, rows) = Cardinality(Updates(E, days))
    BY <1>1, <1>3, <1>4, <1>5, SumOfParts
  <1> QED
    BY <1>6 DEF f, rows

(* The first of a ranking has no less than the average.                    *)
LEMMA FirstIsAboveAverage ==
    ASSUME NEW E, IsFiniteSet(E), NEW days,
           NEW top \in TopUpdatedContents(E, days, 1), NEW first \in top
    PROVE  first.count * Cardinality(Contents(E, days)) >= Cardinality(Updates(E, days))
  <1> DEFINE part == [c \in Contents(E, days) |-> UpdatesOf(E, days, c)]
  <1>1. IsFiniteSet(Updates(E, days)) /\ \A c : IsFiniteSet(UpdatesOf(E, days, c))
    BY FS_Subset DEF Updates, During, UpdatesOf
  <1>2. /\ first \in RankedContents(E, days) /\ top \subseteq RankedContents(E, days)
        /\ \A q \in RankedContents(E, days) \ top : ~Precedes(q, first)
        /\ Cardinality(top) = Min({1, Cardinality(RankedContents(E, days))})
    BY RankingOfRows
  <1>3. top = {first}
    <2>1. IsFiniteSet(top) /\ Cardinality(top) \in Nat
      BY <1>2, RowsAreFew, FS_Subset, FS_CardinalityType
    <2>2. Cardinality(top) <= 1
      BY <1>2, RowsAreFew, LesserOfTwo
    <2>3. Cardinality({first}) = 1
      BY FS_Singleton
    <2>4. Cardinality({first}) <= Cardinality(top)
          /\ (Cardinality({first}) = Cardinality(top) => {first} = top)
      BY <2>1, FS_Subset
    <2> QED
      BY <2>1, <2>2, <2>3, <2>4
  <1>4. first.count \in Nat /\ \A q \in RankedContents(E, days) : q.count \in Nat
    <2>1. \A q \in RankedContents(E, days) : \E c : q.count = Cardinality(UpdatesOf(E, days, c))
      BY RowOfContent DEF RankedContents
    <2> QED
      BY <1>1, <1>2, <2>1, FS_CardinalityType
  <1>5. \A q \in RankedContents(E, days) : q.count <= first.count
    BY <1>2, <1>3, <1>4 DEF Precedes
  <1>6. \A c \in Contents(E, days) : IsFiniteSet(part[c]) /\ Cardinality(part[c]) <= first.count
    BY <1>1, <1>5, RowOfContent DEF RankedContents
  <1>7. UNION {part[c] : c \in Contents(E, days)} = Updates(E, days)
    <2>1. \A c \in Contents(E, days) : part[c] \subseteq Updates(E, days)
      BY DEF UpdatesOf
    <2>2. \A e \in Updates(E, days) : ContentOf(e) \in Contents(E, days) /\ e \in part[ContentOf(e)]
      BY DEF Contents, UpdatesOf
    <2> HIDE DEF part
    <2> QED
      BY <2>1, <2>2
  <1> HIDE DEF part
  <1>8. Cardinality(Updates(E, days)) <= Cardinality(Contents(E, days)) * first.count
    BY <1>4, <1>6, <1>7, RowsAreFew, PartsAreBounded
  <1>9. Cardinality(Updates(E, days)) \in Nat /\ Cardinality(Contents(E, days)) \in Nat
    BY <1>1, RowsAreFew, FS_CardinalityType
  <1> QED
    BY <1>4, <1>8, <1>9

=============================================================================
