--------------------------- MODULE ReviewsProofs ----------------------------
(***************************************************************************)
(* Proofs about Reviews, for every collection of reviews and comments.     *)
(*                                                                         *)
(* processRating adds up finite functions.  Sums are shown to be sizes of  *)
(* sets (SumIsCount), of the comments and of the stars they earn, so that  *)
(* what is known of finite sets gives their types and bounds; the division *)
(* rounds down once (AverageIsFloor).                                      *)
(***************************************************************************)
EXTENDS Reviews, FiniteSetTheorems, WellFoundedInduction, TLAPS

\* Division by a positive number rounds down.
LEMMA Divided ==
  ASSUME NEW d \in Nat \ {0}, NEW s \in Nat
  PROVE  s \div d \in Nat /\ d * (s \div d) <= s /\ s < d * (s \div d + 1)
  OBVIOUS

\* The average processRating passes on is stars per five ratings, rounded down once: the
\* inner division is exact (AppDataManager.swift:219).
THEOREM AverageIsFloor ==
  ASSUME NEW n \in Nat \ {0}, NEW s \in Nat
  PROVE  /\ Average(s, n) \in Nat
         /\ 5 * n * Average(s, n) <= s
         /\ s < 5 * n * (Average(s, n) + 1)
<1>1. (n * 5 * 5) \div 5 = 5 * n
  OBVIOUS
<1>2. Average(s, n) = s \div (5 * n)
  BY <1>1 DEF Average
<1>3. 5 * n \in Nat \ {0}
  OBVIOUS
<1>. QED
  BY <1>2, <1>3, Divided

\* With a comment to divide by, and no comment above 25 stars, the average is one of the
\* ratings 0 to 5 that the type invariant of Reviews demands (AppDataManager.swift:219).
THEOREM AverageInRange ==
  ASSUME NEW n \in Nat \ {0}, NEW s \in 0..(25 * n)
  PROVE  Average(s, n) \in 0..5
<1>1. /\ Average(s, n) \in Nat
      /\ 5 * n * Average(s, n) <= s
  BY AverageIsFloor
<1>2. CASE Average(s, n) >= 6
  <2>1. 5 * n * Average(s, n) >= 5 * n * 6
    BY <1>1, <1>2
  <2>. QED
    BY <1>1, <2>1
<1>. QED
  BY <1>1, <1>2

-----------------------------------------------------------------------------
(* Sums over a finite set. *)

\* The element of s that is added last.
Added(s) == CHOOSE x \in s : TRUE

Total(F, f, s) == IF s = {} THEN 0 ELSE f[Added(s)] + F[s \ {Added(s)}]

\* F has the sums of f over the sets in S.
Totals(F, f, S) == \A s \in S : F[s] = Total(F, f, s)

\* Finite sets can be added up: the totals up to each number of elements extend to the next.
LEMMA TotalsExist ==
  ASSUME NEW D, IsFiniteSet(D), NEW f \in [D -> Nat]
  PROVE  \E F \in [SUBSET D -> Nat] : Totals(F, f, SUBSET D)
<1> DEFINE UpTo(n) == {s \in SUBSET D : Cardinality(s) <= n}
           Have(n) == \E F \in [UpTo(n) -> Nat] : Totals(F, f, UpTo(n))
           Lacking == {n \in Nat : ~Have(n)}
<1>1. \A s \in SUBSET D : IsFiniteSet(s) /\ Cardinality(s) \in Nat
  BY FS_Subset, FS_CardinalityType
<1>2. \A s \in SUBSET D, n \in Nat :
        s # {} /\ Cardinality(s) <= n + 1 =>
          /\ Added(s) \in s
          /\ s \ {Added(s)} \in UpTo(n)
  <2> SUFFICES ASSUME NEW s \in SUBSET D, NEW n \in Nat, s # {}, Cardinality(s) <= n + 1
               PROVE  Added(s) \in s /\ s \ {Added(s)} \in UpTo(n)
    OBVIOUS
  <2>1. Added(s) \in s
    BY DEF Added
  <2>2. Cardinality(s \ {Added(s)}) = Cardinality(s) - 1
    BY <1>1, <2>1, FS_RemoveElement
  <2> QED
    BY <1>1, <2>1, <2>2
<1>3. Have(0)
  <2>1. UpTo(0) = {{}}
    BY <1>1, FS_EmptySet
  <2>2. [s \in {{}} |-> 0] \in [UpTo(0) -> Nat]
    BY <2>1
  <2>3. Totals([s \in {{}} |-> 0], f, UpTo(0))
    BY <2>1 DEF Totals, Total
  <2> QED
    BY <2>2, <2>3
<1>4. ASSUME NEW n \in Nat, Have(n) PROVE Have(n + 1)
  <2>1. PICK F \in [UpTo(n) -> Nat] : Totals(F, f, UpTo(n))
    BY <1>4
  <2> DEFINE G == [s \in UpTo(n + 1) |-> Total(F, f, s)]
  <2>2. G \in [UpTo(n + 1) -> Nat]
    BY <1>2 DEF Total
  <2>3. \A s \in UpTo(n) : s \in UpTo(n + 1) /\ G[s] = F[s]
    BY <1>1, <2>1 DEF Totals
  <2>4. Totals(G, f, UpTo(n + 1))
    <3> SUFFICES ASSUME NEW s \in UpTo(n + 1) PROVE G[s] = Total(G, f, s)
      BY DEF Totals
    <3>1. G[s] = Total(F, f, s)
      OBVIOUS
    <3>2. s # {} => s \ {Added(s)} \in UpTo(n)
      BY <1>2
    <3> HIDE DEF G, UpTo
    <3> QED
      BY <2>3, <3>1, <3>2 DEF Total
  <2> QED
    BY <2>2, <2>4
<1>5. Lacking = {}
  <2> SUFFICES ASSUME Lacking # {} PROVE FALSE
    OBVIOUS
  <2>1. PICK n \in Lacking : \A k \in Lacking : ~ (<<k, n>> \in OpToRel(<, Nat))
    <3>1. Lacking \subseteq Nat
      OBVIOUS
    <3> HIDE DEF Lacking
    <3> QED
      BY <3>1, NatLessThanWellFounded, WFMin
  <2>2. n # 0
    BY <1>3
  <2>3. n - 1 \in Nat /\ n - 1 \notin Lacking
    <3>1. n \in Nat /\ n - 1 \in Nat /\ n - 1 < n
      BY <2>2
    <3>2. <<n - 1, n>> \in OpToRel(<, Nat)
      BY <3>1 DEF OpToRel
    <3> HIDE DEF Lacking
    <3> QED
      BY <2>1, <3>1, <3>2
  <2> HIDE DEF Have
  <2>4. Have(n - 1) /\ ~Have(n - 1 + 1)
    <3>1. n - 1 + 1 = n
      BY <2>3
    <3> QED
      BY <2>3, <3>1
  <2> QED
    BY <1>4, <2>3, <2>4
<1>6. UpTo(Cardinality(D)) = SUBSET D /\ Cardinality(D) \in Nat
  BY <1>1, FS_Subset
<1>7. Have(Cardinality(D))
  <2> HIDE DEF Have
  <2> QED
    BY <1>5, <1>6
<1> QED
  BY <1>6, <1>7

\* SumFunction, which is defined by recursion over the set, is the total.
LEMMA SumIsTotal ==
  ASSUME NEW D, IsFiniteSet(D), NEW f \in [D -> Nat]
  PROVE  \E F : Totals(F, f, SUBSET D) /\ SumFunction(f) = F[D]
<1> DEFINE F == CHOOSE F : F = [s \in SUBSET D |-> Total(F, f, s)]
<1>1. F = [s \in SUBSET D |-> Total(F, f, s)]
  <2>1. PICK G \in [SUBSET D -> Nat] : Totals(G, f, SUBSET D)
    BY TotalsExist
  <2>2. G = [s \in SUBSET D |-> Total(G, f, s)]
    BY <2>1 DEF Totals
  <2> QED
    BY <2>2
<1>2. SumFunction(f) = F[D]
  BY DEF SumFunction, SumFunctionOnSet, FoldFunctionOnSet, MapThenFoldSet, Total, Added
<1>3. Totals(F, f, SUBSET D)
  <2> HIDE DEF F
  <2> QED
    BY <1>1 DEF Totals
<1> QED
  BY <1>2, <1>3
\* What is added up is the size of a set that is made of parts of these sizes.
LEMMA SumIsCount ==
  ASSUME NEW D, IsFiniteSet(D), NEW f \in [D -> Nat], NEW C,
         \A x \in D : IsFiniteSet(C[x]) /\ Cardinality(C[x]) = f[x],
         \A x, y \in D : x # y => C[x] \cap C[y] = {}
  PROVE  /\ IsFiniteSet(UNION {C[x] : x \in D})
         /\ Cardinality(UNION {C[x] : x \in D}) = SumFunction(f)
<1> DEFINE Parts(s) == UNION {C[x] : x \in s}
<1>1. PICK F : Totals(F, f, SUBSET D) /\ SumFunction(f) = F[D]
  BY SumIsTotal
<1> DEFINE Counted(s) == IsFiniteSet(Parts(s)) /\ Cardinality(Parts(s)) = F[s]
           Wrong == {s \in SUBSET D : ~Counted(s)}
<1>2. Counted({})
  <2>1. Parts({}) = {}
    OBVIOUS
  <2>2. F[{}] = 0
    BY <1>1 DEF Totals, Total
  <2> QED
    BY <2>1, <2>2, FS_EmptySet
<1>3. ASSUME NEW s \in SUBSET D, s # {}, Counted(s \ {Added(s)}) PROVE Counted(s)
  <2> DEFINE a == Added(s)
             rest == s \ {Added(s)}
  <2>1. a \in s /\ a \in D
    BY <1>3 DEF Added
  <2>2. Parts(s) = C[a] \cup Parts(rest)
    BY <2>1
  <2>3. C[a] \cap Parts(rest) = {}
    BY <2>1
  <2>4. F[s] = f[a] + F[rest]
    BY <1>1, <1>3 DEF Totals, Total
  <2>5. IsFiniteSet(C[a]) /\ Cardinality(C[a]) = f[a]
    BY <2>1
  <2>6. IsFiniteSet(Parts(rest)) /\ Cardinality(Parts(rest)) = F[rest]
    BY <1>3
  <2> HIDE DEF Parts, a, rest
  <2>7. Cardinality({}) = 0
    BY FS_EmptySet
  <2>8. Cardinality(C[a]) \in Nat /\ Cardinality(Parts(rest)) \in Nat
    BY <2>5, <2>6, FS_CardinalityType
  <2>9. /\ IsFiniteSet(C[a] \cup Parts(rest))
        /\ Cardinality(C[a] \cup Parts(rest)) =
             Cardinality(C[a]) + Cardinality(Parts(rest)) - Cardinality(C[a] \cap Parts(rest))
    BY <2>5, <2>6, FS_Union
  <2>10. Cardinality(C[a] \cup Parts(rest)) = Cardinality(C[a]) + Cardinality(Parts(rest))
    <3>1. Cardinality(C[a] \cap Parts(rest)) = 0
      BY <2>3, <2>7
    <3> QED
      BY <2>8, <2>9, <3>1
  <2> QED
    BY <2>2, <2>4, <2>5, <2>6, <2>9, <2>10
<1>4. Wrong = {}
  <2> SUFFICES ASSUME Wrong # {} PROVE FALSE
    OBVIOUS
  <2>1. PICK s \in Wrong : \A t \in Wrong : ~ (<<t, s>> \in StrictSubsetOrdering(D))
    <3>1. FiniteSubsetsOf(D) = SUBSET D
      BY FS_FiniteSubsetsOfFinite
    <3>2. Wrong \subseteq SUBSET D
      OBVIOUS
    <3> HIDE DEF Wrong
    <3> QED
      BY <3>1, <3>2, FS_StrictSubsetOrderingWellFounded, WFMin
  <2> HIDE DEF Counted
  <2>2. s # {} /\ s \in SUBSET D /\ ~Counted(s)
    BY <1>2
  <2>3. Added(s) \in s
    BY <2>2 DEF Added
  <2>4. s \ {Added(s)} \notin Wrong
    <3> DEFINE t == s \ {Added(s)}
    <3>1. t \in SUBSET D /\ t \subseteq s /\ t # s
      BY <2>2, <2>3
    <3> HIDE DEF Wrong, t
    <3>2. <<t, s>> \in StrictSubsetOrdering(D)
      BY <2>2, <3>1 DEF StrictSubsetOrdering
    <3> QED
      BY <2>1, <3>2 DEF t
  <2> QED
    BY <1>3, <2>2, <2>4
<1>5. Counted(D)
  <2> HIDE DEF Counted
  <2> QED
    BY <1>4
<1> QED
  BY <1>1, <1>5

-----------------------------------------------------------------------------
(* What processRating adds up. *)

\* The collection holds reviews, finitely many.
DocsOK ==
  /\ docs \in [Name -> Review \cup {Nil}]
  /\ IsFiniteSet({n \in Name : docs[n] # Nil})

RatedDocs == Commented(Found)

CommentsIn(n) == {n} \X DOMAIN docs[n].comments

\* The stars of the i-th comment of n, and of all its comments.
StarsOf(n, i) == IF docs[n].comments[i] = Partial THEN 0 ELSE docs[n].comments[i]
EarnedBy(n, i) == {<<n, i>>} \X (1..StarsOf(n, i))
EarnedIn(n) == UNION {EarnedBy(n, i) : i \in DOMAIN docs[n].comments}

\* All stars, as RatesOwnComments counts them.
Earned == {e \in CommentsOf \X (1..25) : e[1] \in AtLeast(e[2])}

LEMMA RatedFacts ==
  ASSUME DocsOK
  PROVE  /\ IsFiniteSet(RatedDocs) /\ RatedDocs \subseteq Name
         /\ \A n \in RatedDocs :
              /\ docs[n].comments \in BoundedSeq(Comment, MaxComments)
              /\ Len(docs[n].comments) \in Nat
              /\ DOMAIN docs[n].comments = 1..Len(docs[n].comments)
              /\ IsFiniteSet(DOMAIN docs[n].comments)
              /\ \A i \in DOMAIN docs[n].comments : StarsOf(n, i) \in 0..25
<1>1. RatedDocs \subseteq {n \in Name : docs[n] # Nil}
  BY DEF RatedDocs, Commented, Found, Of
<1>2. IsFiniteSet(RatedDocs) /\ RatedDocs \subseteq Name
  BY <1>1, FS_Subset DEF DocsOK
<1>3. ASSUME NEW n \in RatedDocs
      PROVE  /\ docs[n].comments \in BoundedSeq(Comment, MaxComments)
             /\ Len(docs[n].comments) \in Nat
             /\ DOMAIN docs[n].comments = 1..Len(docs[n].comments)
             /\ IsFiniteSet(DOMAIN docs[n].comments)
             /\ \A i \in DOMAIN docs[n].comments : StarsOf(n, i) \in 0..25
  <2>1. docs[n].comments \in BoundedSeq(Comment, MaxComments)
    BY <1>1, <1>3 DEF DocsOK, Review, RatedDocs, Commented
  <2>2. docs[n].comments \in Seq(Comment)
    <3>1. PICK m \in 0..MaxComments : docs[n].comments \in [1..m -> Comment]
      BY <2>1 DEF BoundedSeq, SeqOf
    <3>2. m \in Nat
      BY ReviewsAssumption
    <3> QED
      BY <3>1, <3>2
  <2>3. Len(docs[n].comments) \in Nat /\ DOMAIN docs[n].comments = 1..Len(docs[n].comments)
    BY <2>2
  <2>4. IsFiniteSet(DOMAIN docs[n].comments)
    BY <2>3, FS_Interval
  <2>5. ASSUME NEW i \in DOMAIN docs[n].comments PROVE StarsOf(n, i) \in 0..25
    <3>1. docs[n].comments[i] \in Comment
      BY <2>2, <2>3
    <3>2. docs[n].comments[i] # Partial => docs[n].comments[i] \in 0..25
      BY <3>1, ReviewsAssumption DEF Comment
    <3> QED
      BY <3>2 DEF StarsOf
  <2> QED
    BY <2>1, <2>3, <2>4, <2>5
<1> QED
  BY <1>2, <1>3

\* Marked with t, the members of a set are as many.
LEMMA Marked ==
  ASSUME NEW t, NEW n \in Nat
  PROVE  IsFiniteSet({t} \X (1..n)) /\ Cardinality({t} \X (1..n)) = n
<1>1. IsFiniteSet({t}) /\ Cardinality({t}) = 1
  BY FS_Singleton
<1>2. IsFiniteSet(1..n) /\ Cardinality(1..n) = n
  BY FS_Interval
<1>3. /\ IsFiniteSet({t} \X (1..n))
      /\ Cardinality({t} \X (1..n)) = Cardinality({t}) * Cardinality(1..n)
  BY <1>1, <1>2, FS_Product
<1> QED
  BY <1>1, <1>2, <1>3

\* commentsTotle is the number of comments of the salon.
LEMMA CommentsCounted ==
  ASSUME DocsOK
  PROVE  IsFiniteSet(CommentsOf) /\ Cardinality(CommentsOf) = CommentsTotle(Found)
<1> DEFINE f == [n \in RatedDocs |-> Len(docs[n].comments)]
           C == [n \in RatedDocs |-> CommentsIn(n)]
<1>1. f \in [RatedDocs -> Nat]
  BY RatedFacts
<1>2. ASSUME NEW n \in RatedDocs PROVE IsFiniteSet(C[n]) /\ Cardinality(C[n]) = f[n]
  BY RatedFacts, Marked DEF CommentsIn
<1>3. \A n, m \in RatedDocs : n # m => C[n] \cap C[m] = {}
  BY DEF CommentsIn
<1>4. UNION {C[n] : n \in RatedDocs} = CommentsOf
  <2>1. RatedDocs = {n \in Of(Mine) : docs[n].comments # Nil}
    BY DEF RatedDocs, Commented, Found
  <2>2. \A n \in RatedDocs : C[n] = {<<n, i>> : i \in DOMAIN docs[n].comments}
    BY DEF CommentsIn
  <2> HIDE DEF C
  <2> QED
    BY <2>1, <2>2 DEF CommentsOf
<1>5. CommentsTotle(Found) = SumFunction(f)
  BY DEF CommentsTotle, RatedDocs
<1>6. IsFiniteSet(RatedDocs)
  BY RatedFacts
<1> HIDE DEF f, C
<1>7. /\ IsFiniteSet(UNION {C[n] : n \in RatedDocs})
      /\ Cardinality(UNION {C[n] : n \in RatedDocs}) = SumFunction(f)
  BY <1>1, <1>2, <1>3, <1>6, SumIsCount
<1> QED
  BY <1>4, <1>5, <1>7

\* totleStars of one review is the number of stars its comments earn.
LEMMA StarsInCounted ==
  ASSUME DocsOK, NEW n \in RatedDocs
  PROVE  /\ IsFiniteSet(EarnedIn(n))
         /\ Cardinality(EarnedIn(n)) = StarsIn(docs[n].comments)
         /\ StarsIn(docs[n].comments) \in Nat
<1>0. /\ IsFiniteSet(DOMAIN docs[n].comments)
      /\ \A i \in DOMAIN docs[n].comments : StarsOf(n, i) \in Nat
  <2>1. /\ IsFiniteSet(DOMAIN docs[n].comments)
        /\ \A i \in DOMAIN docs[n].comments : StarsOf(n, i) \in 0..25
    BY RatedFacts, Zenon
  <2>2. \A k \in 0..25 : k \in Nat
    OBVIOUS
  <2> QED
    BY <2>1, <2>2, Zenon
<1> DEFINE D == DOMAIN docs[n].comments
           f == [i \in D |-> StarsOf(n, i)]
           C == [i \in D |-> EarnedBy(n, i)]
<1>1. f \in [D -> Nat] /\ IsFiniteSet(D)
  BY <1>0, Zenon
<1>2. ASSUME NEW i \in D PROVE IsFiniteSet(C[i]) /\ Cardinality(C[i]) = f[i]
  <2>1. StarsOf(n, i) \in Nat
    BY <1>0, Zenon
  <2>2. C[i] = EarnedBy(n, i) /\ f[i] = StarsOf(n, i)
    OBVIOUS
  <2> HIDE DEF C, f
  <2>3. EarnedBy(n, i) = {<<n, i>>} \X (1..StarsOf(n, i))
    BY DEF EarnedBy
  <2>4. /\ IsFiniteSet({<<n, i>>} \X (1..StarsOf(n, i)))
        /\ Cardinality({<<n, i>>} \X (1..StarsOf(n, i))) = StarsOf(n, i)
    BY <2>1, Marked, Zenon
  <2> QED
    BY <2>2, <2>3, <2>4, Zenon
<1>3. \A i, j \in D : i # j => C[i] \cap C[j] = {}
  BY DEF EarnedBy
<1>4. UNION {C[i] : i \in D} = EarnedIn(n)
  BY DEF EarnedIn
<1>5. StarsIn(docs[n].comments) = SumFunction(f)
  BY DEF StarsIn, StarsOf
<1> HIDE DEF D, f, C
<1>6. /\ IsFiniteSet(UNION {C[i] : i \in D})
      /\ Cardinality(UNION {C[i] : i \in D}) = SumFunction(f)
  BY <1>1, <1>2, <1>3, SumIsCount
<1> QED
  BY <1>4, <1>5, <1>6, FS_CardinalityType

\* allUserTotleStars is the number of stars the comments of the salon earn.
LEMMA StarsCounted ==
  ASSUME DocsOK
  PROVE  IsFiniteSet(Earned) /\ Cardinality(Earned) = AllUserTotleStars(Found)
<1> DEFINE f == [n \in RatedDocs |-> StarsIn(docs[n].comments)]
           C == [n \in RatedDocs |-> EarnedIn(n)]
<1>1. f \in [RatedDocs -> Nat]
  BY StarsInCounted
<1>2. \A n \in RatedDocs : IsFiniteSet(C[n]) /\ Cardinality(C[n]) = f[n]
  BY StarsInCounted
<1>3. \A n, m \in RatedDocs : n # m => C[n] \cap C[m] = {}
  BY DEF EarnedIn, EarnedBy
<1>4. UNION {C[n] : n \in RatedDocs} = Earned
  <2>1. \A c : c \in CommentsOf <=>
          \E n \in RatedDocs : \E i \in DOMAIN docs[n].comments : c = <<n, i>>
    BY DEF CommentsOf, RatedDocs, Commented, Found
  <2>2. ASSUME NEW n \in RatedDocs, NEW i \in DOMAIN docs[n].comments, NEW k \in 1..25
        PROVE  <<n, i>> \in AtLeast(k) <=> k \in 1..StarsOf(n, i)
    <3>1. <<n, i>> \in AtLeast(k) <=>
            docs[n].comments[i] # Partial /\ docs[n].comments[i] >= k
      BY <2>1 DEF AtLeast
    <3>2. StarsOf(n, i) \in 0..25
      BY RatedFacts
    <3> QED
      BY <3>1, <3>2 DEF StarsOf
  <2>3. ASSUME NEW n \in RatedDocs, NEW e \in EarnedIn(n) PROVE e \in Earned
    <3>1. PICK i \in DOMAIN docs[n].comments : e \in EarnedBy(n, i)
      BY <2>3 DEF EarnedIn
    <3>2. PICK k \in 1..StarsOf(n, i) : e = <<<<n, i>>, k>>
      BY <3>1 DEF EarnedBy
    <3>3. k \in 1..25
      <4>1. StarsOf(n, i) \in 0..25
        BY <3>1, RatedFacts
      <4> QED
        BY <3>2, <4>1
    <3> QED
      BY <2>1, <2>2, <3>1, <3>2, <3>3 DEF Earned
  <2>4. ASSUME NEW e \in Earned PROVE \E n \in RatedDocs : e \in EarnedIn(n)
    <3>1. PICK c \in CommentsOf, k \in 1..25 : e = <<c, k>> /\ c \in AtLeast(k)
      BY <2>4 DEF Earned
    <3>2. PICK n \in RatedDocs : \E i \in DOMAIN docs[n].comments : c = <<n, i>>
      BY <2>1, <3>1
    <3>3. PICK i \in DOMAIN docs[n].comments : c = <<n, i>>
      BY <3>2
    <3>4. e \in EarnedBy(n, i)
      BY <2>2, <3>1, <3>3 DEF EarnedBy
    <3> QED
      BY <3>4 DEF EarnedIn
  <2> QED
    BY <2>3, <2>4
<1>5. AllUserTotleStars(Found) = SumFunction(f)
  BY DEF AllUserTotleStars, RatedDocs
<1>6. IsFiniteSet(RatedDocs)
  BY RatedFacts
<1> HIDE DEF f, C
<1>7. /\ IsFiniteSet(UNION {C[n] : n \in RatedDocs})
      /\ Cardinality(UNION {C[n] : n \in RatedDocs}) = SumFunction(f)
  BY <1>1, <1>2, <1>3, <1>6, SumIsCount
<1> QED
  BY <1>4, <1>5, <1>7

\* Both sums are numbers, and no comment earns more than 25 stars.
LEMMA SumsBounded ==
  ASSUME DocsOK
  PROVE  /\ CommentsTotle(Found) \in Nat
         /\ CommentsTotle(Found) = 0 <=> CommentsOf = {}
         /\ AllUserTotleStars(Found) \in 0..(25 * CommentsTotle(Found))
<1>1. IsFiniteSet(CommentsOf) /\ Cardinality(CommentsOf) = CommentsTotle(Found)
  BY CommentsCounted
<1>2. CommentsTotle(Found) \in Nat /\ (CommentsTotle(Found) = 0 <=> CommentsOf = {})
  BY <1>1, FS_CardinalityType, FS_EmptySet
<1>3. IsFiniteSet(1..25) /\ Cardinality(1..25) = 25
  <2>1. \A n \in Nat : IsFiniteSet(1..n) /\ Cardinality(1..n) = n
    BY FS_Interval
  <2> QED
    BY <2>1
<1>4. /\ IsFiniteSet(CommentsOf \X (1..25))
      /\ Cardinality(CommentsOf \X (1..25)) = CommentsTotle(Found) * 25
  BY <1>1, <1>3, FS_Product
<1>5. Earned \in SUBSET (CommentsOf \X (1..25))
  BY DEF Earned
<1>6. Cardinality(Earned) \in Nat /\ Cardinality(Earned) <= CommentsTotle(Found) * 25
  <2>1. IsFiniteSet(Earned) /\ Cardinality(Earned) <= Cardinality(CommentsOf \X (1..25))
    BY <1>4, <1>5, FS_Subset
  <2> QED
    BY <1>4, <2>1, FS_CardinalityType
<1> QED
  BY <1>2, <1>6, StarsCounted

-----------------------------------------------------------------------------
\* The type invariant needs that the average of a load is one of 0 to 5, which is so
\* because the sums of a finite collection are numbers.
TInv == TypeOK /\ DocsOK

\* What each step leaves of the documents.
LEMMA DocsStep ==
  ASSUME DocsOK, [Next]_vars
  PROVE  DocsOK'
<1> DEFINE Docs == {n \in Name : docs[n] # Nil}
<1>1. ASSUME NEW m \in Name, docs' \in [Name -> Review \cup {Nil}],
             \A n \in Name \ {m} : docs'[n] = docs[n]
      PROVE  DocsOK'
  <2>1. IsFiniteSet(Docs \cup {m})
    BY FS_AddElement DEF DocsOK
  <2>2. {n \in Name : docs'[n] # Nil} \in SUBSET (Docs \cup {m})
    BY <1>1
  <2> HIDE DEF Docs
  <2>3. IsFiniteSet({n \in Name : docs'[n] # Nil})
    BY <2>1, <2>2, FS_Subset
  <2> QED
    BY <1>1, <2>3 DEF DocsOK
<1>2. ASSUME NEW n \in AutoName, NEW r \in Review, CreateReview(n, r) PROVE DocsOK'
  BY <1>1, <1>2 DEF CreateReview, DocsOK, Name
<1>3. ASSUME NEW r \in Review, UpdateReview(r) PROVE DocsOK'
  <2>1. r.id \in Name
    BY DEF Review, Name
  <2>2. [r EXCEPT !.comments = docs[r.id].comments] \in Review \/ docs[r.id] = Nil
    BY <2>1 DEF DocsOK, Review
  <2> QED
    BY <1>1, <1>3, <2>1, <2>2 DEF UpdateReview, DocsOK
<1>4. ASSUME NEW id \in Salon, DeleteReview(id) PROVE DocsOK'
  BY <1>1, <1>4 DEF DeleteReview, DocsOK, Name
<1>5. CASE UNCHANGED docs
  BY <1>5 DEF DocsOK
<1>6. (\E q \in Loads : Load(q)) \/ UNCHANGED vars => UNCHANGED docs
  BY DEF vars, Load, ViewDidLoad, NoReviews, ProcessRating, Trap, Fails, UpdateReviewData,
         Launch
<1> QED
  BY <1>2, <1>3, <1>4, <1>5, <1>6 DEF Next

LEMMA TInvStep ==
  ASSUME TInv, [Next]_vars
  PROVE  TInv'
<1>1. DocsOK'
  BY DocsStep DEF TInv
<1>2. docs' \in [Name -> Review \cup {Nil}]
  BY <1>1 DEF DocsOK
<1> USE DEF TInv, TypeOK
<1>3. ASSUME NEW q \in Loads, ViewDidLoad(q) PROVE TypeOK'
  BY <1>2, <1>3 DEF ViewDidLoad
<1>4. ASSUME NEW q \in Loads, NoReviews(q) PROVE TypeOK'
  BY <1>2, <1>4 DEF NoReviews
<1>5. ASSUME NEW q \in Loads, ProcessRating(q) PROVE TypeOK'
  <2> DEFINE sum == CommentsTotle(Found)
             stars == AllUserTotleStars(Found)
  <2>1. sum \in Nat \ {0} /\ stars \in 0..(25 * sum)
    BY <1>5, SumsBounded DEF ProcessRating
  <2>2. Average(stars, sum) \in 0..5
    <3> HIDE DEF sum, stars
    <3> QED
      BY <2>1, AverageInRange
  <2>3. [rating |-> Average(stars, sum), reviews |-> sum] \in Score
    BY <2>1, <2>2 DEF Score
  <2> QED
    BY <1>2, <1>5, <2>3 DEF ProcessRating
<1>6. ASSUME NEW q \in Loads, Trap(q) PROVE TypeOK'
  BY <1>2, <1>6 DEF Trap, Dies
<1>7. ASSUME NEW q \in Loads, Fails(q) PROVE TypeOK'
  BY <1>2, <1>7 DEF Fails
<1>8. ASSUME NEW q \in Loads, UpdateReviewData(q) PROVE TypeOK'
  BY <1>2, <1>8 DEF UpdateReviewData
<1>9. ASSUME NEW q \in Loads, Launch(q) PROVE TypeOK'
  BY <1>2, <1>9 DEF Launch
<1>10. ASSUME UNCHANGED <<running, stage, score, salon>> PROVE TypeOK'
  BY <1>2, <1>10
<1>11. \/ \E q \in Loads : Load(q)
       \/ UNCHANGED <<running, stage, score, salon>>
  BY DEF Next, CreateReview, UpdateReview, DeleteReview, vars
<1> HIDE DEF TInv, TypeOK
<1>12. ASSUME NEW q \in Loads, Load(q) PROVE TypeOK'
  BY <1>3, <1>4, <1>5, <1>6, <1>7, <1>8, <1>9, <1>12 DEF Load
<1> QED
  BY <1>1, <1>10, <1>11, <1>12 DEF TInv

LEMMA Typed == Spec => []TInv
<1>1. Init => TInv
  <2> SUFFICES ASSUME Init PROVE TInv
    OBVIOUS
  <2>1. {n \in Name : docs[n] # Nil} = {}
    BY DEF Init
  <2> QED
    BY <2>1, FS_EmptySet DEF Init, TInv, TypeOK, DocsOK
<1>2. TInv /\ [Next]_vars => TInv'
  BY TInvStep
<1> QED
  BY <1>1, <1>2, PTL DEF Spec

\* The score a load passes on has a rating from 0 to 5 and counts at least one comment,
\* whatever the reviews are: with the other types, the type invariant
\* (AppDataManager.swift:196-221).
THEOREM TypeCorrect == Spec => []TypeOK
<1>1. TInv => TypeOK
  BY DEF TInv
<1> QED
  BY <1>1, Typed, PTL

\* What ends the app is a rating of reviews without a comment
\* (AppDataManager.swift:201-219).
THEOREM TrapsWithoutComments == Spec => TrapsOnlyWithoutComments
<1> DEFINE Traps == running /\ ~running' => Of(Mine) # {} /\ CommentsOf = {}
<1>1. TInv /\ [Next]_vars => [Traps]_vars
  <2> SUFFICES ASSUME TInv, Next, running, ~running' PROVE Of(Mine) # {} /\ CommentsOf = {}
    BY DEF vars
  <2>1. PICK q \in Loads : Trap(q)
    BY DEF Next, CreateReview, UpdateReview, DeleteReview, Load, ViewDidLoad, NoReviews,
           ProcessRating, Fails, UpdateReviewData, Launch
  <2> QED
    BY <2>1, SumsBounded DEF Trap, Found, TInv
<1> QED
  BY <1>1, Typed, PTL DEF Spec, TrapsOnlyWithoutComments

\* As many ratings of the five are reached as the average has whole stars.
LEMMA StarsReached ==
  ASSUME NEW n \in Nat \ {0}, NEW s \in 0..(25 * n)
  PROVE  Cardinality({r \in 1..5 : s >= r * 5 * n}) = Average(s, n)
<1> DEFINE a == Average(s, n)
<1>1. a \in 0..5 /\ 5 * n * a <= s /\ s < 5 * n * (a + 1)
  BY AverageIsFloor, AverageInRange
<1> HIDE DEF a
<1>2. ASSUME NEW r \in 1..5 PROVE s >= r * 5 * n <=> r <= a
  <2>1. CASE r <= a
    <3>1. r * 5 * n <= 5 * n * a
      BY <1>1, <2>1
    <3> QED
      BY <1>1, <2>1, <3>1
  <2>2. CASE r >= a + 1
    <3>1. 5 * n * (a + 1) <= r * 5 * n
      BY <1>1, <2>2
    <3> QED
      BY <1>1, <2>2, <3>1
  <2> QED
    BY <1>1, <2>1, <2>2
<1>3. {r \in 1..5 : s >= r * 5 * n} = 1..a
  BY <1>1, <1>2
<1>4. Cardinality(1..a) = a
  <2>1. \A k \in Nat : Cardinality(1..k) = k
    BY FS_Interval
  <2> QED
    BY <1>1, <2>1
<1> QED
  BY <1>3, <1>4 DEF a

\* processRating counts every comment of this salon and of no other, and averages their
\* stars, for any collection of reviews (AppDataManager.swift:196-221).
THEOREM RatesOwn == Spec => RatesOwnComments
<1> DEFINE earned == {e \in CommentsOf \X (1..25) : e[1] \in AtLeast(e[2])}
           reached == {r \in 1..5 : Cardinality(earned) >= r * 5 * Cardinality(CommentsOf)}
           Rates == \A q \in Loads :
                      stage[q] = "querying" /\ stage'[q] = "rated" =>
                        /\ score'[q].reviews = Cardinality(CommentsOf)
                        /\ score'[q].rating = Cardinality(reached)
<1>1. TInv /\ [Next]_vars => [Rates]_vars
  <2> SUFFICES ASSUME TInv, Next, NEW q \in Loads, stage[q] = "querying", stage'[q] = "rated"
               PROVE  /\ score'[q].reviews = Cardinality(CommentsOf)
                      /\ score'[q].rating = Cardinality(reached)
    BY DEF vars
  <2>1. ProcessRating(q)
    BY DEF Next, CreateReview, UpdateReview, DeleteReview, Load, ViewDidLoad, NoReviews,
           ProcessRating, Trap, Dies, Fails, UpdateReviewData, Launch, TInv, TypeOK
  <2>2. score'[q] = [rating  |-> Average(AllUserTotleStars(Found), CommentsTotle(Found)),
                     reviews |-> CommentsTotle(Found)]
    BY <2>1 DEF ProcessRating, TInv, TypeOK
  <2>3. /\ Cardinality(CommentsOf) = CommentsTotle(Found)
        /\ Cardinality(earned) = AllUserTotleStars(Found)
    BY CommentsCounted, StarsCounted DEF TInv, Earned
  <2>4. /\ CommentsTotle(Found) \in Nat \ {0}
        /\ AllUserTotleStars(Found) \in 0..(25 * CommentsTotle(Found))
    BY <2>1, SumsBounded DEF ProcessRating, TInv
  <2> HIDE DEF earned
  <2>5. Cardinality(reached) = Average(AllUserTotleStars(Found), CommentsTotle(Found))
    BY <2>3, <2>4, StarsReached
  <2> QED
    BY <2>2, <2>3, <2>5
<1>2. RatesOwnComments <=> [][Rates]_vars
  BY DEF RatesOwnComments
<1> HIDE DEF Rates
<1> QED
  BY <1>1, <1>2, Typed, PTL DEF Spec

\* No create, update or load of the screen unsets the comments of a review that stays
\* (ReviewManager.swift:142-160).
THEOREM CommentsKept == Spec => KeepsComments
<1> DEFINE Keeps == \A n \in Name :
              docs[n] # Nil /\ docs'[n] # Nil /\ docs[n].comments # Nil => docs'[n].comments # Nil
<1>1. TInv /\ [Next]_vars => [Keeps]_vars
  <2> SUFFICES ASSUME DocsOK, Next PROVE Keeps
    BY DEF vars, TInv
  <2>1. ASSUME NEW n \in AutoName, NEW r \in Review, CreateReview(n, r) PROVE Keeps
    BY <2>1 DEF CreateReview, DocsOK, Name
  <2>2. ASSUME NEW r \in Review, UpdateReview(r) PROVE Keeps
    <3>1. r.id \in Name
      BY DEF Review, Name
    <3>2. ASSUME docs[r.id] # Nil, r.comments = Nil
          PROVE  docs'[r.id].comments = docs[r.id].comments
      BY <2>2, <3>1, <3>2 DEF UpdateReview, DocsOK, Review
    <3>3. ASSUME r.comments # Nil PROVE docs'[r.id].comments # Nil
      BY <2>2, <3>1, <3>3 DEF UpdateReview, DocsOK
    <3>4. \A n \in Name \ {r.id} : docs'[n] = docs[n]
      BY <2>2 DEF UpdateReview, DocsOK
    <3>. QED
      BY <3>1, <3>2, <3>3, <3>4
  <2>3. ASSUME NEW id \in Salon, DeleteReview(id) PROVE Keeps
    BY <2>3 DEF DeleteReview, DocsOK
  <2>4. CASE \E q \in Loads : Load(q)
    <3>1. docs' = docs
      BY <2>4 DEF Load, ViewDidLoad, NoReviews, ProcessRating, Trap, Fails, UpdateReviewData,
                  Launch
    <3>. QED
      BY <3>1
  <2>. QED
    BY <2>1, <2>2, <2>3, <2>4 DEF Next
<1>. QED
  BY <1>1, Typed, PTL DEF Spec, KeepsComments
=============================================================================
