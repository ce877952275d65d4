------------------------------ MODULE Reviews -------------------------------
(***************************************************************************)
(* The collection reviews, ReviewManager's operations on it, and the score *)
(* AppDataManager computes from it each time the booking screen is loaded: *)
(* getSalonReview, processRating and updateReviewData.                     *)
(*                                                                         *)
(* The app calls only getReviews.  createReview, updateReview and          *)
(* deleteReview are modelled as a caller would use them: reviews of any    *)
(* salon, and ids taken from reviews that exist.  What the write of the    *)
(* score does to the rest of the salon is the subject of SalonDoc.         *)
(***************************************************************************)
EXTENDS Integers, FiniteSets, Sequences, SequencesExt

CONSTANTS Salon,       \* salon ids, also the documents updateReview names after them
          Mine,        \* the salon of this owner
          AutoName,    \* the names addDocument gives
          Loads,       \* loads of the booking screen
          Stars,       \* sums of a comment's five ratings
          Partial,     \* a comment that lacks one of the five ratings
          MaxComments, \* bound: comments in one review
          Nil          \* no document, no userCommentData, no score

Name == AutoName \cup Salon
Comment == Stars \cup {Partial}

ASSUME ReviewsAssumption ==
  /\ Mine \in Salon
  /\ AutoName \cap Salon = {}
  /\ Stars \subseteq 0..25
  /\ Partial \notin Stars
  /\ MaxComments \in Nat

Review == [id: Salon, comments: BoundedSeq(Comment, MaxComments) \cup {Nil}]
Score == [rating: 0..5, reviews: Nat \ {0}]

ASSUME NilAssumption == Nil \notin Review

VARIABLES
  docs,     \* docs[n]: the document named n
  running,  \* the app runs
  stage,    \* stage[q]: how far load q has come
  score,    \* score[q]: the average and the number of comments q passes on
  salon     \* rating and reviews in the salon's document

vars == <<docs, running, stage, score, salon>>

TypeOK ==
  /\ docs \in [Name -> Review \cup {Nil}]
  /\ running \in BOOLEAN
  /\ stage \in [Loads -> {"idle", "querying", "rated", "done", "lost"}]
  /\ score \in [Loads -> Score \cup {Nil}]
  /\ salon \in Score \cup {Nil}

Init ==
  /\ docs = [n \in Name |-> Nil]
  /\ running = TRUE
  /\ stage = [q \in Loads |-> "idle"]
  /\ score = [q \in Loads |-> Nil]
  /\ salon = Nil

Of(s) == {n \in Name : docs[n] # Nil /\ docs[n].id = s}

-----------------------------------------------------------------------------
(* ReviewManager *)

\* addDocument: a new document under a name of its own.
CreateReview(n, r) ==
  /\ n \in AutoName
  /\ docs[n] = Nil
  /\ docs' = [docs EXCEPT ![n] = r]
  /\ UNCHANGED <<running, stage, score, salon>>

\* Mutant: the document is replaced.
UpdateReviewUnmerged(r) ==
  /\ Of(r.id) # {}
  /\ docs' = [docs EXCEPT ![r.id] = r]
  /\ UNCHANGED <<running, stage, score, salon>>

\* setData(merge: true) on the document named after the review's id, which is not the
\* one createReview added: the first update adds a second document.  Nil comments are
\* left out.
UpdateReview(r) ==
  LET old == docs[r.id]
  IN /\ Of(r.id) # {}
     /\ docs' = [docs EXCEPT ![r.id] =
                   IF r.comments = Nil /\ old # Nil THEN [r EXCEPT !.comments = old.comments]
                   ELSE r]
     /\ UNCHANGED <<running, stage, score, salon>>

\* delete on the document named after the id succeeds whether or not it exists,
\* and leaves what createReview added.
DeleteReview(id) ==
  /\ Of(id) # {}
  /\ docs' = [docs EXCEPT ![id] = Nil]
  /\ UNCHANGED <<running, stage, score, salon>>

-----------------------------------------------------------------------------
(* processRating *)

\* A comment without one of its ratings adds no stars.
StarsIn(comments) ==
  SumFunction([i \in DOMAIN comments |-> IF comments[i] = Partial THEN 0 ELSE comments[i]])

Commented(names) == {n \in names : docs[n].comments # Nil}
CommentsTotle(names) == SumFunction([n \in Commented(names) |-> Len(docs[n].comments)])
AllUserTotleStars(names) == SumFunction([n \in Commented(names) |-> StarsIn(docs[n].comments)])

\* Mutant: the divisor is the number of comments.
AveragePerComment(stars, comments) == stars \div comments

\* Mutant: the average is rounded up.
AverageRoundedUp(stars, comments) == (stars + 5 * comments - 1) \div (5 * comments)

\* Int division by a fifth of the 25 stars of each comment.
Average(stars, comments) == stars \div ((comments * 5 * 5) \div 5)

-----------------------------------------------------------------------------
(* BookingVC and AppDataManager *)

ViewDidLoad(q) ==
  /\ running
  /\ stage[q] = "idle"
  /\ stage' = [stage EXCEPT ![q] = "querying"]
  /\ UNCHANGED <<docs, running, score, salon>>

\* Mutant: the query has no filter.
FoundAnywhere == {n \in Name : docs[n] # Nil}

\* The documents whose field id is this salon's.
Found == Of(Mine)

\* Nothing to rate.
NoReviews(q) ==
  /\ stage[q] = "querying"
  /\ Found = {}
  /\ stage' = [stage EXCEPT ![q] = "done"]
  /\ UNCHANGED <<docs, running, score, salon>>

ProcessRating(q) ==
  /\ stage[q] = "querying"
  /\ CommentsTotle(Found) > 0
  /\ stage' = [stage EXCEPT ![q] = "rated"]
  /\ score' = [score EXCEPT ![q] =
       [rating  |-> Average(AllUserTotleStars(Found), CommentsTotle(Found)),
        reviews |-> CommentsTotle(Found)]]
  /\ UNCHANGED <<docs, running, salon>>

\* The app dies with everything it had under way.
Dies ==
  /\ running' = FALSE
  /\ stage' = [p \in Loads |-> IF stage[p] \in {"querying", "rated"} THEN "lost" ELSE stage[p]]

\* Mutant: a failed query traps as well.
TrapOnAnyAnswer(q) ==
  /\ stage[q] = "querying"
  /\ CommentsTotle(Found) = 0
  /\ Dies
  /\ UNCHANGED <<docs, score, salon>>

\* Reviews without a comment: the divisor is 0 and the division traps.
Trap(q) ==
  /\ stage[q] = "querying"
  /\ Found # {}
  /\ CommentsTotle(Found) = 0
  /\ Dies
  /\ UNCHANGED <<docs, score, salon>>

\* The query, the fetch of the salon or the write fails; only a line is printed.
Fails(q) ==
  /\ stage[q] \in {"querying", "rated"}
  /\ stage' = [stage EXCEPT ![q] = "done"]
  /\ UNCHANGED <<docs, running, score, salon>>

\* updateReviewData; SalonDoc has its steps.
UpdateReviewData(q) ==
  /\ stage[q] = "rated"
  /\ stage' = [stage EXCEPT ![q] = "done"]
  /\ salon' = score[q]
  /\ UNCHANGED <<docs, running, score>>

\* The owner starts the app again, which opens the tab bar and its booking screen.
Launch(q) ==
  /\ ~running
  /\ stage[q] = "idle"
  /\ running' = TRUE
  /\ stage' = [stage EXCEPT ![q] = "querying"]
  /\ UNCHANGED <<docs, score, salon>>

-----------------------------------------------------------------------------
Load(q) ==
  \/ ViewDidLoad(q)
  \/ NoReviews(q)
  \/ ProcessRating(q)
  \/ Trap(q)
  \/ Fails(q)
  \/ UpdateReviewData(q)
  \/ Launch(q)

Next ==
  \/ \E n \in AutoName, r \in Review : CreateReview(n, r)
  \/ \E r \in Review : UpdateReview(r)
  \/ \E id \in Salon : DeleteReview(id)
  \/ \E q \in Loads : Load(q)

Spec == Init /\ [][Next]_vars

-----------------------------------------------------------------------------
(* Properties *)

\* The comments of this salon, each with its document and place.
CommentsOf == UNION {{<<n, i>> : i \in DOMAIN docs[n].comments} :
                       n \in {n \in Of(Mine) : docs[n].comments # Nil}}

AtLeast(k) == {c \in CommentsOf : docs[c[1]].comments[c[2]] # Partial
                                  /\ docs[c[1]].comments[c[2]] >= k}

\* The average a load passes on counts every comment of this salon and of no other,
\* and is the number of whole stars the comments reach on average.  The reference
\* counts stars instead of adding comments: the k-th star of the 25 is earned by the
\* comments that have at least k (AppDataManager.swift:196-221, ReviewManager.swift:60-61).
RatesOwnComments ==
  [][\A q \in Loads :
       stage[q] = "querying" /\ stage'[q] = "rated" =>
         LET earned == {e \in CommentsOf \X (1..25) : e[1] \in AtLeast(e[2])}
             stars == {r \in 1..5 : Cardinality(earned) >= r * 5 * Cardinality(CommentsOf)}
         IN /\ score'[q].reviews = Cardinality(CommentsOf)
            /\ score'[q].rating = Cardinality(stars)]_vars

\* The app dies computing the average only when the salon has reviews and none of
\* them has a comment; one comment anywhere and it lives (AppDataManager.swift:201-219).
TrapsOnlyWithoutComments ==
  [][running /\ ~running' => Of(Mine) # {} /\ CommentsOf = {}]_vars

\* Comments a document has are never unset: an update of a review that carries no
\* comments leaves them as they are, and only a delete takes them away
\* (ReviewManager.swift:142-160).
KeepsComments ==
  [][\A n \in Name :
       docs[n] # Nil /\ docs'[n] # Nil /\ docs[n].comments # Nil => docs'[n].comments # Nil]_vars
=============================================================================
