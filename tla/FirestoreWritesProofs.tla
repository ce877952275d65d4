------------------------ MODULE FirestoreWritesProofs ------------------------
(***************************************************************************)
(* Proofs about FirestoreWrites, for every set of users, every length of   *)
(* the pipeline, every number of writes and of faults: its six invariants, *)
(* which rest on each other, so that one inductive invariant IInv carries  *)
(* them; and the refinement of FirestoreQueue: the client's write path     *)
(* keeps the contract WriteQueue for every user.                           *)
(***************************************************************************)
EXTENDS FirestoreQueue, SequenceTheorems, FiniteSetTheorems, WellFoundedInduction, TLAPS

\* Batches lie on disk in the order of their ids, which is the order of their writes.
Ordered ==
  \A u \in User : \A i, j \in 1..Len(queue[u]) :
    i < j => /\ queue[u][i].id < queue[u][j].id
             /\ queue[u][i].write < queue[u][j].write

\* Ids and writes on disk have been given out, and lie in their owner's queue.
Bounded ==
  \A u \in User : \A i \in 1..Len(queue[u]) :
    /\ queue[u][i].id < nextId
    /\ queue[u][i].write <= made
    /\ owner[queue[u][i].write] = u

\* Only writes that were made are applied and answered.
Known ==
  /\ \A w \in applied : w <= made
  /\ \A w \in Write : answers[w] # "none" => w <= made

\* Only a stream whose handshake is complete carries anything; its answers say what the
\* server did, and nothing follows a refusal.
Wire ==
  /\ handshake => state = "Open"
  /\ ~handshake => up = <<>> /\ down = <<>>
  /\ \A i \in 1..Len(down) :
       IF down[i].ok THEN down[i].batch.write \in applied
                     ELSE i = Len(down) /\ down[i].batch.write \in refused

\* An answered write has left the queue, and so have all before it, unless a kill came
\* between the answer and the disk.
Settled ==
  \A v \in Write : answers[v] # "none" =>
    \A i \in 1..Len(queue[owner[v]]) :
      queue[owner[v]][i].write <= v =>
        killed /\ \E j \in 1..Len(queue[owner[v]]) : queue[owner[v]][j].write = v

IInv ==
  /\ TypeOK
  /\ Correlated
  /\ Ordered
  /\ Bounded
  /\ Known
  /\ Wire
  /\ CallbacksWait
  /\ AnswersTrue
  /\ InOrder
  /\ Settled

-----------------------------------------------------------------------------
(* Sequences and indices. *)

\* The index SelectInSeq chooses when the first match is known.
LEMMA MinIs ==
  ASSUME NEW I \in SUBSET Nat, NEW m \in I, \A j \in I : m <= j
  PROVE  Min(I) = m
<1>1. \A x, y \in Nat : x <= y /\ y <= x => x = y
  OBVIOUS
<1>2. Min(I) \in I /\ \A y \in I : Min(I) <= y
  BY DEF Min
<1> QED
  BY <1>1, <1>2

\* A non-empty set of indices has a least member: what LoadNextBatchId needs.
LEMMA MinIndex ==
  ASSUME NEW n \in Nat, NEW I \in SUBSET (1..n), I # {}
  PROVE  \E m \in I : \A j \in I : m <= j
<1> DEFINE Rest == {1..j : j \in I}
<1>1. Rest \subseteq SUBSET (1..n) /\ Rest # {}
  <2>1. \A j \in I : 1..j \subseteq 1..n
    OBVIOUS
  <2> QED
    BY <2>1
<1>2. PICK m \in Rest : \A r \in Rest : ~ (<<r, m>> \in StrictSubsetOrdering(1..n))
  <2>1. FiniteSubsetsOf(1..n) = SUBSET (1..n)
    <3>1. IsFiniteSet(1..n)
      BY FS_Interval
    <3> QED
      BY <3>1, FS_FiniteSubsetsOfFinite
  <2>2. IsWellFoundedOn(StrictSubsetOrdering(1..n), SUBSET (1..n))
    BY <2>1, FS_StrictSubsetOrderingWellFounded
  <2> HIDE DEF Rest
  <2> QED
    BY <1>1, <2>2, WFMin
<1>3. \A r \in Rest : r \subseteq m => r = m
  BY <1>1, <1>2 DEF StrictSubsetOrdering
<1>4. PICK k \in I : m = 1..k
  OBVIOUS
<1>5. ASSUME NEW j \in I, j < k PROVE FALSE
  <2>1. 1..j \in Rest /\ 1..j \subseteq m
    BY <1>4, <1>5
  <2>2. k \in m /\ k \notin 1..j
    BY <1>4, <1>5
  <2> QED
    BY <2>1, <2>2, <1>3
<1>6. \A j \in I : k <= j
  BY <1>5
<1> QED
  BY <1>6

LEMMA SeqFacts ==
  ASSUME NEW S, NEW s \in Seq(S)
  PROVE  /\ Len(s) \in Nat
         /\ \A i \in 1..Len(s) : s[i] \in S
         /\ s = <<>> <=> Len(s) = 0
  BY ElementOfSeq, LenProperties, EmptySeq

LEMMA HeadFacts ==
  ASSUME NEW S, NEW s \in Seq(S), s # <<>>
  PROVE  /\ Len(s) \in Nat /\ Len(s) >= 1
         /\ Head(s) = s[1] /\ Head(s) \in S
         /\ Tail(s) \in Seq(S)
         /\ Len(Tail(s)) = Len(s) - 1
         /\ \A i \in 1..Len(Tail(s)) : Tail(s)[i] = s[i + 1]
<1>1. Len(s) \in Nat /\ Len(s) # 0
  BY SeqFacts
<1>2. Head(s) = s[1]
  OBVIOUS
<1> QED
  BY <1>1, <1>2, HeadTailProperties

\* Removing the first batch of a queue by its id.
LEMMA WithoutFirst ==
  ASSUME NEW q \in Seq(Batch), q # <<>>
  PROVE  Without(q, q[1]) = Tail(q)
<1> DEFINE I == {i \in 1..Len(q) : q[i].id = q[1].id}
<1>1. Len(q) \in Nat /\ Len(q) >= 1
  BY HeadFacts
<1>2. I \in SUBSET Nat /\ 1 \in I /\ \A j \in I : 1 <= j
  BY <1>1
<1>3. Min(I) = 1
  <2> HIDE DEF I
  <2> QED
    BY <1>2, MinIs
<1>4. Without(q, q[1]) = RemoveAt(q, IF I # {} THEN Min(I) ELSE 0)
  BY DEF Without, SelectInSeq
<1>5. Without(q, q[1]) = RemoveAt(q, 1)
  <2> HIDE DEF I
  <2> QED
    BY <1>2, <1>3, <1>4
<1>6. SubSeq(q, 1, 1 - 1) = <<>>
  BY SubSeqEmpty
<1>7. SubSeq(q, 1 + 1, Len(q)) = Tail(q)
  BY TailIsSubSeq
<1>8. <<>> \o Tail(q) = Tail(q)
  BY HeadFacts, ConcatEmptySeq
<1>9. RemoveAt(q, 1) = Tail(q)
  BY <1>6, <1>7, <1>8 DEF RemoveAt
<1> QED
  BY <1>5, <1>9

Ascending(q) == \A i, j \in 1..Len(q) : i < j => q[i].id < q[j].id

Heads(pipe, q) == Len(pipe) <= Len(q) /\ \A i \in 1..Len(pipe) : pipe[i] = q[i]

\* What FillWritePipeline takes continues the pipeline where the queue goes on.
LEMMA FetchedFacts ==
  ASSUME NEW q \in Seq(Batch), NEW pipe \in Seq(Batch), Heads(pipe, q), Ascending(q)
  PROVE  /\ Fetched(q, pipe) \in Seq(Batch)
         /\ pipe \o Fetched(q, pipe) \in Seq(Batch)
         /\ Heads(pipe \o Fetched(q, pipe), q)
<1> DEFINE last == IF pipe = <<>> THEN -1 ELSE Last(pipe).id
           I == {k \in 1..Len(q) : q[k].id > last}
           i == IF I # {} THEN Min(I) ELSE 0
           n == Len(pipe)
           j == i + MaxPending - n - 1
           e == IF j < Len(q) THEN j ELSE Len(q)
           new == Fetched(q, pipe)
<1>1. /\ Len(q) \in Nat /\ \A k \in 1..Len(q) : q[k] \in Batch /\ q[k].id \in Nat
      /\ n \in Nat /\ (pipe = <<>> <=> n = 0)
  <2>1. Len(q) \in Nat /\ \A k \in 1..Len(q) : q[k] \in Batch
    BY SeqFacts
  <2>2. \A b \in Batch : b.id \in Nat
    BY DEF Batch
  <2>3. n \in Nat /\ (pipe = <<>> <=> n = 0)
    BY SeqFacts
  <2> QED
    BY <2>1, <2>2, <2>3
<1>2. /\ n = 0 => last = -1
      /\ n > 0 => last = q[n].id
  BY <1>1 DEF Last, Heads
<1>3. last \in Int
  BY <1>1, <1>2 DEF Heads
<1>4. \A k \in 1..Len(q) : k \in I <=> k > n
  <2>1. CASE n = 0
    BY <2>1, <1>1, <1>2
  <2>2. CASE n > 0
    <3>1. n \in 1..Len(q)
      BY <2>2, <1>1 DEF Heads
    <3>2. ASSUME NEW k \in 1..Len(q) PROVE k \in I <=> k > n
      <4>1. CASE k > n
        BY <4>1, <3>1, <2>2, <1>1, <1>2 DEF Ascending
      <4>2. CASE k = n
        BY <4>2, <3>1, <2>2, <1>1, <1>2
      <4>3. CASE k < n
        BY <4>3, <3>1, <2>2, <1>1, <1>2 DEF Ascending
      <4> QED
        BY <4>1, <4>2, <4>3, <1>1
    <3> QED
      BY <3>2
  <2> QED
    BY <2>1, <2>2, <1>1
<1>5. i = IF Len(q) > n THEN n + 1 ELSE 0
  <2>1. CASE Len(q) > n
    <3>1. n + 1 \in I /\ I \in SUBSET Nat /\ \A k \in I : n + 1 <= k
      BY <2>1, <1>1, <1>4
    <3>2. Min(I) = n + 1
      <4> HIDE DEF I, n
      <4> QED
        BY <3>1, MinIs
    <3> HIDE DEF I
    <3> QED
      BY <3>1, <3>2, <2>1
  <2>2. CASE ~ (Len(q) > n)
    BY <2>2, <1>1, <1>4
  <2> QED
    BY <2>1, <2>2
<1>6. new = IF i = 0 THEN <<>> ELSE SubSeq(q, i, e)
  BY DEF Fetched, SelectInSeq
<1> HIDE DEF new, i, I, last
<1>7. CASE Len(q) > n
  <2>1. i = n + 1 /\ j \in Int /\ e \in Int /\ e <= Len(q)
    BY <1>1, <1>5, <1>7, PendingAssumption
  <2> HIDE DEF j, e
  <2>2. \A k \in i..e : q[k] \in Batch
    BY <1>1, <2>1
  <2>3. /\ new \in Seq(Batch)
        /\ Len(new) = IF i <= e THEN e - i + 1 ELSE 0
        /\ \A k \in 1..e - i + 1 : new[k] = q[i + k - 1]
    BY <1>1, <1>6, <2>1, <2>2, SubSeqProperties
  <2>4. Len(new) \in Nat /\ n + Len(new) <= Len(q) /\ \A k \in 1..Len(new) : new[k] = q[n + k]
    <3>1. CASE i <= e
      BY <3>1, <1>1, <2>1, <2>3
    <3>2. CASE ~ (i <= e)
      BY <3>2, <1>1, <1>7, <2>1, <2>3
    <3> QED
      BY <3>1, <3>2
  <2>5. /\ pipe \o new \in Seq(Batch)
        /\ Len(pipe \o new) = n + Len(new)
        /\ \A k \in 1..n + Len(new) : (pipe \o new)[k] = IF k <= n THEN pipe[k] ELSE new[k - n]
    BY <2>3, ConcatProperties
  <2>6. ASSUME NEW k \in 1..n + Len(new) PROVE (pipe \o new)[k] = q[k]
    <3>1. CASE k <= n
      BY <3>1, <1>1, <2>4, <2>5 DEF Heads
    <3>2. CASE k > n
      <4>1. k - n \in 1..Len(new) /\ n + (k - n) = k
        BY <3>2, <1>1, <2>4
      <4> QED
        BY <4>1, <3>2, <1>1, <2>4, <2>5
    <3> QED
      BY <3>1, <3>2, <1>1, <2>4
  <2> QED
    BY <2>3, <2>4, <2>5, <2>6 DEF Heads, new
<1>8. CASE ~ (Len(q) > n)
  <2>1. new = <<>>
    BY <1>5, <1>6, <1>8
  <2>2. pipe \o new = pipe
    BY <2>1, ConcatEmptySeq
  <2> QED
    BY <2>1, <2>2, EmptySeq DEF new
<1> QED
  BY <1>7, <1>8

-----------------------------------------------------------------------------
(* The helpers of the actions. *)

\* The id counted anew is above every id on disk.
LEMMA LoadNextFacts ==
  ASSUME TypeOK, Bounded
  PROVE  /\ LoadNextBatchId(queue) \in 1..nextId
         /\ \A u \in User : \A i \in 1..Len(queue[u]) : queue[u][i].id < LoadNextBatchId(queue)
<1> DEFINE Above(n) == \A u \in User : \A i \in 1..Len(queue[u]) : queue[u][i].id < n
           Hit(n) == n = 1 \/ \E u \in User : \E i \in 1..Len(queue[u]) : queue[u][i].id = n - 1
           M == {n \in 1..nextId : Above(n)}
<1>1. nextId \in Nat /\ nextId >= 1
  BY DEF TypeOK
<1>2. \A u \in User : \A i \in 1..Len(queue[u]) : queue[u][i].id \in Nat
  <2>1. \A u \in User : queue[u] \in Seq(Batch)
    BY DEF TypeOK
  <2>2. \A u \in User : \A i \in 1..Len(queue[u]) : queue[u][i] \in Batch
    BY <2>1, SeqFacts
  <2> QED
    BY <2>2 DEF Batch
<1>3. nextId \in M
  BY <1>1 DEF Bounded
<1>4. PICK m \in M : \A j \in M : m <= j
  <2>1. M \in SUBSET (1..nextId) /\ M # {}
    BY <1>3
  <2> HIDE DEF M
  <2> QED
    BY <2>1, <1>1, MinIndex
<1>5. Hit(m)
  <2> SUFFICES ASSUME m # 1 PROVE \E u \in User : \E i \in 1..Len(queue[u]) : queue[u][i].id = m - 1
    OBVIOUS
  <2>1. m - 1 \in 1..nextId /\ m - 1 \notin M
    BY <1>1, <1>4
  <2>0. PICK u \in User : \E i \in 1..Len(queue[u]) : ~ (queue[u][i].id < m - 1)
    BY <2>1
  <2>2. PICK i \in 1..Len(queue[u]) : ~ (queue[u][i].id < m - 1)
    BY <2>0
  <2>3. queue[u][i].id < m
    BY <1>4
  <2>4. queue[u][i].id = m - 1
    BY <2>1, <2>2, <2>3, <1>2
  <2> QED
    BY <2>4
<1>6. LoadNextBatchId(queue) = CHOOSE n \in 1..nextId : Above(n) /\ Hit(n)
  BY DEF LoadNextBatchId
<1>7. \E n \in 1..nextId : Above(n) /\ Hit(n)
  BY <1>4, <1>5
<1> HIDE DEF Above, Hit
<1>8. LoadNextBatchId(queue) \in 1..nextId /\ Above(LoadNextBatchId(queue))
  BY <1>6, <1>7
<1> QED
  BY <1>8 DEF Above

\* The pipeline filled from q, the stream in state st with sent on its way.
LEMMA FilledFacts ==
  ASSUME NEW q \in Seq(Batch), NEW pipe \in Seq(Batch), NEW st \in States,
         NEW sent \in Seq(Batch), Heads(pipe, q), Ascending(q),
         handshake \in BOOLEAN, idle \in BOOLEAN, FillWritePipeline(q, pipe, st, sent)
  PROVE  /\ pipeline' \in Seq(Batch)
         /\ Heads(pipeline', q)
         /\ Len(pipe) <= Len(pipeline')
         /\ state' \in States
         /\ state' = "Open" <=> st = "Open"
         /\ idle' \in BOOLEAN
         /\ up' \in Seq(Batch)
         /\ ~ (st = "Open" /\ handshake) => up' = sent
         /\ st = "Open" /\ handshake =>
              /\ Len(up') = Len(sent) + Len(pipeline') - Len(pipe)
              /\ \A i \in 1..Len(up') :
                   up'[i] = IF i <= Len(sent) THEN sent[i]
                                              ELSE pipeline'[Len(pipe) + i - Len(sent)]
<1> DEFINE new == Fetched(q, pipe)
<1>1. /\ new \in Seq(Batch) /\ pipe \o new \in Seq(Batch) /\ Heads(pipe \o new, q)
  BY FetchedFacts
<1> HIDE DEF new
<1>2. /\ pipeline' = pipe \o new
      /\ up' = IF st = "Open" /\ handshake THEN sent \o new ELSE sent
      /\ idle' = (st = "Open" /\ IF new = <<>> THEN idle \/ pipe = <<>>
                                              ELSE idle /\ ~(st = "Open" /\ handshake))
      /\ state' = IF pipe \o new = <<>> THEN st ELSE Started(st)
  BY DEF FillWritePipeline, new
<1>3. Started(st) \in States /\ (Started(st) = "Open" <=> st = "Open")
  BY DEF Started, States
<1>4. idle' \in BOOLEAN
  BY <1>2
<1>5. /\ Len(pipeline') = Len(pipe) + Len(new)
      /\ \A i \in 1..Len(pipe) + Len(new) :
           pipeline'[i] = IF i <= Len(pipe) THEN pipe[i] ELSE new[i - Len(pipe)]
  BY <1>1, <1>2, ConcatProperties
<1>6. Len(pipe) \in Nat /\ Len(new) \in Nat /\ Len(sent) \in Nat
  BY <1>1, SeqFacts
<1>7. up' \in Seq(Batch)
  BY <1>1, <1>2, ConcatProperties
<1>8. ASSUME st = "Open", handshake
      PROVE  /\ Len(up') = Len(sent) + Len(pipeline') - Len(pipe)
             /\ \A i \in 1..Len(up') :
                  up'[i] = IF i <= Len(sent) THEN sent[i]
                                             ELSE pipeline'[Len(pipe) + i - Len(sent)]
  <2>1. /\ Len(up') = Len(sent) + Len(new)
        /\ \A i \in 1..Len(sent) + Len(new) :
             up'[i] = IF i <= Len(sent) THEN sent[i] ELSE new[i - Len(sent)]
    BY <1>1, <1>2, <1>8, ConcatProperties
  <2>2. Len(up') = Len(sent) + Len(pipeline') - Len(pipe)
    BY <2>1, <1>5, <1>6
  <2>3. ASSUME NEW i \in 1..Len(up'), ~ (i <= Len(sent))
        PROVE  up'[i] = pipeline'[Len(pipe) + i - Len(sent)]
    <3> DEFINE k == Len(pipe) + i - Len(sent)
    <3>1. k \in 1..Len(pipe) + Len(new) /\ ~ (k <= Len(pipe)) /\ k - Len(pipe) = i - Len(sent)
      BY <2>1, <2>3, <1>6
    <3>2. pipeline'[k] = new[k - Len(pipe)]
      BY <3>1, <1>5
    <3>3. up'[i] = new[i - Len(sent)]
      BY <2>1, <2>3
    <3> QED
      BY <3>1, <3>2, <3>3
  <2> QED
    BY <2>1, <2>2, <2>3
<1> QED
  BY <1>1, <1>2, <1>3, <1>4, <1>5, <1>6, <1>7, <1>8

Matching(dn, sent, pipe) ==
  /\ Len(dn) + Len(sent) <= Len(pipe)
  /\ \A i \in 1..Len(dn) : dn[i].batch = pipe[i]
  /\ \A i \in 1..Len(sent) : sent[i] = pipe[Len(dn) + i]

\* With sent and the answers matching pipe, the new wire matches the new pipeline.
LEMMA FilledCorrelated ==
  ASSUME NEW q \in Seq(Batch), NEW pipe \in Seq(Batch), NEW st \in States,
         NEW sent \in Seq(Batch), Heads(pipe, q), Ascending(q),
         handshake \in BOOLEAN, idle \in BOOLEAN, FillWritePipeline(q, pipe, st, sent),
         down' \in Seq(Reply), queue'[user'] = q, handshake' => handshake,
         Matching(down', sent, pipe),
         st = "Open" /\ handshake => Len(down') + Len(sent) = Len(pipe)
  PROVE  Correlated'
<1>1. /\ Heads(pipeline', q)
      /\ Len(pipe) <= Len(pipeline')
      /\ state' = "Open" <=> st = "Open"
      /\ ~ (st = "Open" /\ handshake) => up' = sent
      /\ st = "Open" /\ handshake =>
           /\ Len(up') = Len(sent) + Len(pipeline') - Len(pipe)
           /\ \A i \in 1..Len(up') :
                up'[i] = IF i <= Len(sent) THEN sent[i]
                                           ELSE pipeline'[Len(pipe) + i - Len(sent)]
  BY FilledFacts
<1>2. pipeline' \in Seq(Batch) /\ up' \in Seq(Batch)
  BY FilledFacts
<1>3. /\ Len(pipe) \in Nat /\ Len(sent) \in Nat /\ Len(down') \in Nat /\ Len(q) \in Nat
      /\ Len(pipeline') \in Nat /\ Len(up') \in Nat
  BY <1>2, SeqFacts
<1>4. \A i \in 1..Len(pipe) : pipe[i] = pipeline'[i]
  BY <1>1, <1>3 DEF Heads
<1>5. \A i \in 1..Len(down') : down'[i].batch = pipeline'[i]
  BY <1>3, <1>4 DEF Matching
<1>6. \A i \in 1..Len(sent) : sent[i] = pipeline'[Len(down') + i]
  <2> TAKE i \in 1..Len(sent)
  <2>1. Len(down') + i \in 1..Len(pipe)
    BY <1>3 DEF Matching
  <2> QED
    BY <2>1, <1>4 DEF Matching
<1>7. CASE st = "Open" /\ handshake
  <2>0. /\ Len(down') + Len(sent) = Len(pipe)
        /\ Len(up') = Len(sent) + Len(pipeline') - Len(pipe)
    BY <1>1, <1>7
  <2>1. Len(down') + Len(up') = Len(pipeline')
    <3> DEFINE a == Len(down')
               b == Len(sent)
               c == Len(pipe)
               d == Len(pipeline')
               e == Len(up')
    <3>1. a \in Nat /\ b \in Nat /\ c \in Nat /\ d \in Nat /\ a + b = c /\ e = b + d - c
      BY <2>0, <1>3
    <3> HIDE DEF a, b, c, d, e
    <3>2. a + e = d
      BY <3>1
    <3> QED
      BY <3>2 DEF a, d, e
  <2>2. ASSUME NEW i \in 1..Len(up') PROVE up'[i] = pipeline'[Len(down') + i]
    <3>1. CASE i <= Len(sent)
      BY <3>1, <1>1, <1>3, <1>6, <1>7
    <3>2. CASE ~ (i <= Len(sent))
      <4> DEFINE a == Len(down')
                 b == Len(sent)
                 c == Len(pipe)
      <4>0. a \in Nat /\ b \in Nat /\ c \in Nat /\ i \in Nat /\ a + b = c
        BY <2>0, <1>3
      <4>1. c + i - b = a + i
        <5> HIDE DEF a, b, c
        <5> QED
          BY <4>0
      <4> QED
        BY <3>2, <4>1, <1>1, <1>7
    <3> QED
      BY <3>1, <3>2
  <2> QED
    BY <2>1, <2>2, <1>1, <1>3, <1>5 DEF Correlated, Heads
<1>8. CASE ~ (st = "Open" /\ handshake)
  <2>1. up' = sent /\ ~ (state' = "Open" /\ handshake')
    BY <1>1, <1>8
  <2>2. Len(down') + Len(up') <= Len(pipeline')
    BY <2>1, <1>1, <1>3 DEF Matching
  <2> QED
    BY <2>1, <2>2, <1>1, <1>5, <1>6 DEF Correlated, Heads
<1> QED
  BY <1>7, <1>8

\* The callback with the id is told, the others wait on.
LEMMA NotifyFacts ==
  ASSUME TypeOK, NEW id, NEW answer \in {"acked", "rejected"}, NotifyUser(id, answer)
  PROVE  /\ answers' \in [Write -> {"none", "acked", "rejected"}]
         /\ callbacks' \in [User -> SUBSET Batch]
         /\ \A w \in Write :
              answers'[w] # answers[w] =>
                /\ answers'[w] = answer
                /\ \E c \in callbacks[user] : c.id = id /\ c.write = w
         /\ callbacks'[user] = {c \in callbacks[user] : c.id # id}
         /\ \A u \in User \ {user} : callbacks'[u] = callbacks[u]
<1> DEFINE told == {c \in callbacks[user] : c.id = id}
<1>1. /\ answers' = [w \in Write |-> IF \E c \in told : c.write = w THEN answer
                                                                    ELSE answers[w]]
      /\ callbacks' = [callbacks EXCEPT ![user] = @ \ told]
  BY DEF NotifyUser
<1>2. /\ answers \in [Write -> {"none", "acked", "rejected"}]
      /\ callbacks \in [User -> SUBSET Batch] /\ user \in User
  BY DEF TypeOK
<1>3. answers' \in [Write -> {"none", "acked", "rejected"}]
  BY <1>1, <1>2
<1>4. /\ callbacks'[user] = {c \in callbacks[user] : c.id # id}
      /\ \A u \in User \ {user} : callbacks'[u] = callbacks[u]
      /\ callbacks' \in [User -> SUBSET Batch]
  BY <1>1, <1>2
<1>5. ASSUME NEW w \in Write, answers'[w] # answers[w]
      PROVE  answers'[w] = answer /\ \E c \in callbacks[user] : c.id = id /\ c.write = w
  BY <1>1, <1>5
<1> QED
  BY <1>3, <1>4, <1>5

-----------------------------------------------------------------------------
(* What the invariant says of the queue and the wire. *)

LEMMA QueueFacts ==
  ASSUME TypeOK, Ordered, NEW u \in User
  PROVE  /\ queue[u] \in Seq(Batch)
         /\ Len(queue[u]) \in Nat
         /\ \A i \in 1..Len(queue[u]) : /\ queue[u][i] \in Batch
                                        /\ queue[u][i].id \in Nat
                                        /\ queue[u][i].write \in Write
         /\ Ascending(queue[u])
<1>1. queue[u] \in Seq(Batch)
  BY DEF TypeOK
<1>2. Len(queue[u]) \in Nat /\ \A i \in 1..Len(queue[u]) : queue[u][i] \in Batch
  BY <1>1, SeqFacts
<1>3. \A b \in Batch : b.id \in Nat /\ b.write \in Write
  BY DEF Batch
<1>4. Ascending(queue[u])
  BY DEF Ordered, Ascending
<1> QED
  BY <1>1, <1>2, <1>3, <1>4

\* A write lies in one place of one queue.
LEMMA OnePlace ==
  ASSUME TypeOK, Ordered, Bounded,
         NEW u \in User, NEW i \in 1..Len(queue[u]),
         NEW v \in User, NEW j \in 1..Len(queue[v]),
         queue[u][i].write = queue[v][j].write
  PROVE  u = v /\ i = j
<1>1. u = v
  BY DEF Bounded
<1>2. Len(queue[u]) \in Nat /\ queue[u][i].write \in Nat /\ queue[u][j].write \in Nat
  BY <1>1, QueueFacts DEF Write
<1>3. ~ (i < j) /\ ~ (j < i)
  BY <1>1, <1>2 DEF Ordered
<1> QED
  BY <1>1, <1>2, <1>3

LEMMA ToSetFacts ==
  ASSUME NEW S, NEW s \in Seq(S), NEW x
  PROVE  x \in ToSet(s) <=> \E i \in 1..Len(s) : s[i] = x
  BY LenProperties DEF ToSet

\* The first answer belongs to the first batch of the pipeline, which is the first on
\* the user's disk.
LEMMA FirstAnswer ==
  ASSUME IInv, down # <<>>
  PROVE  /\ handshake /\ state = "Open"
         /\ Len(down) \in Nat /\ Len(down) >= 1
         /\ Head(down) = down[1] /\ down[1] \in Reply
         /\ Len(pipeline) \in Nat /\ Len(pipeline) >= 1
         /\ Len(queue[user]) \in Nat /\ Len(queue[user]) >= Len(pipeline)
         /\ Head(pipeline) = queue[user][1] /\ Head(pipeline) = pipeline[1]
         /\ Head(pipeline) \in Batch
         /\ down[1].batch = queue[user][1]
         /\ Without(queue[user], Head(pipeline)) = Tail(queue[user])
<1>1. /\ down \in Seq(Reply) /\ pipeline \in Seq(Batch) /\ queue[user] \in Seq(Batch)
      /\ handshake \in BOOLEAN
  BY DEF IInv, TypeOK
<1>2. /\ Len(down) \in Nat /\ Len(down) >= 1 /\ Head(down) = down[1] /\ down[1] \in Reply
  BY <1>1, HeadFacts
<1>3. handshake /\ state = "Open"
  BY <1>1 DEF IInv, Wire
<1>4. /\ Len(pipeline) \in Nat /\ Len(up) \in Nat /\ Len(queue[user]) \in Nat
  BY <1>1, SeqFacts DEF IInv, TypeOK
<1>5. /\ Len(pipeline) <= Len(queue[user])
      /\ \A i \in 1..Len(pipeline) : pipeline[i] = queue[user][i]
      /\ Len(down) + Len(up) <= Len(pipeline)
      /\ \A i \in 1..Len(down) : down[i].batch = pipeline[i]
  BY DEF IInv, Correlated
<1>6. Len(pipeline) >= 1
  BY <1>2, <1>4, <1>5
<1>7. /\ pipeline # <<>> /\ queue[user] # <<>>
  BY <1>1, <1>4, <1>5, <1>6, SeqFacts
<1>8. Head(pipeline) = pipeline[1] /\ Head(pipeline) \in Batch
  BY <1>1, <1>7, HeadFacts
<1>9. pipeline[1] = queue[user][1] /\ down[1].batch = queue[user][1]
  BY <1>2, <1>4, <1>5, <1>6
<1>10. Without(queue[user], Head(pipeline)) = Tail(queue[user])
  BY <1>1, <1>7, <1>8, <1>9, WithoutFirst
<1> QED
  BY <1>2, <1>3, <1>4, <1>5, <1>6, <1>8, <1>9, <1>10

\* The server applies what the stream carries next, up to k: in order.
LEMMA PrefixApplied ==
  ASSUME IInv, NEW k \in 0..Len(up),
         k > 0 => \A i \in 1..Len(down) : down[i].ok,
         applied' = applied \cup {up[i].write : i \in 1..k},
         UNCHANGED <<queue, made>>
  PROVE  /\ applied \subseteq applied' /\ applied' \subseteq Write
         /\ \A w \in applied' : w <= made'
         /\ InOrder'
<1>1. /\ user \in User /\ applied \subseteq Write /\ made \in Nat
      /\ up \in Seq(Batch) /\ down \in Seq(Reply) /\ pipeline \in Seq(Batch)
  BY DEF IInv, TypeOK
<1>2. Len(up) \in Nat /\ Len(down) \in Nat /\ Len(pipeline) \in Nat
  BY <1>1, SeqFacts
<1> DEFINE place(i) == Len(down) + i
<1>3. ASSUME NEW i \in 1..Len(up)
      PROVE  place(i) \in 1..Len(queue[user]) /\ up[i] = queue[user][place(i)]
  <2>1. Len(queue[user]) \in Nat
    BY <1>1, QueueFacts DEF IInv
  <2>2. place(i) \in 1..Len(pipeline) /\ place(i) \in 1..Len(queue[user])
    BY <1>2, <2>1 DEF IInv, Correlated
  <2> QED
    BY <2>2 DEF IInv, Correlated
<1>4. \A i \in 1..k : i \in 1..Len(up)
  BY <1>2
<1>5. \A i \in 1..k : up[i].write \in Write /\ up[i].write <= made
  <2> TAKE i \in 1..k
  <2>1. place(i) \in 1..Len(queue[user]) /\ up[i] = queue[user][place(i)]
    BY <1>3, <1>4
  <2>2. queue[user][place(i)].write \in Write
    BY <2>1, <1>1, QueueFacts DEF IInv
  <2>3. queue[user][place(i)].write <= made
    BY <2>1, <1>1 DEF IInv, Bounded
  <2> QED
    BY <2>1, <2>2, <2>3
<1>6. /\ applied \subseteq applied' /\ applied' \subseteq Write
      /\ \A w \in applied' : w <= made'
  BY <1>1, <1>5 DEF IInv, Known
<1>7. ASSUME NEW u \in User, NEW j \in 1..Len(queue[u]), queue[u][j].write \in applied',
             NEW i \in 1..j
      PROVE  queue[u][i].write \in applied'
  <2>1. CASE queue[u][j].write \in applied
    BY <1>6, <1>7, <2>1 DEF IInv, InOrder
  <2>2. CASE queue[u][j].write \notin applied
    <3>1. PICK m \in 1..k : queue[u][j].write = up[m].write
      BY <1>7, <2>2
    <3>2. m \in 1..Len(up) /\ place(m) \in 1..Len(queue[user]) /\ up[m] = queue[user][place(m)]
      BY <1>3, <1>4
    <3>3. u = user /\ j = place(m)
      <4> HIDE DEF place
      <4> QED
        BY <1>1, <3>1, <3>2, OnePlace DEF IInv
    <3>4. CASE i <= Len(down)
      <4>1. i \in 1..Len(down) /\ i \in 1..Len(pipeline) /\ down[i].ok
        BY <3>4, <3>1, <1>2 DEF IInv, Correlated
      <4>2. down[i].batch.write \in applied
        BY <4>1 DEF IInv, Wire
      <4>3. down[i].batch = queue[user][i]
        BY <4>1 DEF IInv, Correlated
      <4> QED
        BY <4>2, <4>3, <3>3, <1>6
    <3>5. CASE ~ (i <= Len(down))
      <4>1. i - Len(down) \in 1..k /\ place(i - Len(down)) = i
        BY <3>5, <3>3, <1>2
      <4>2. i - Len(down) \in 1..Len(up)
        BY <4>1, <1>4
      <4>3. up[i - Len(down)] = queue[user][i]
        BY <4>1, <4>2, <1>3
      <4> QED
        BY <4>1, <4>3, <3>3
    <3> QED
      BY <3>4, <3>5
  <2> QED
    BY <2>1, <2>2
<1>8. InOrder'
  BY <1>7 DEF InOrder
<1> QED
  BY <1>6, <1>8

-----------------------------------------------------------------------------
(* Actions that leave the app, the disk and the server alone. *)

LEMMA QuietStep ==
  ASSUME IInv, UNCHANGED <<user, appVars, diskVars, serverVars, killed>>
  PROVE  /\ Ordered' /\ Bounded' /\ Known' /\ CallbacksWait'
         /\ AnswersTrue' /\ InOrder' /\ Settled'
<1>1. UNCHANGED <<user, callbacks, answers, owner, made, queue, nextId,
                  applied, refused, overtaken, killed>>
  BY DEF appVars, diskVars, serverVars
<1>2. Ordered' /\ Bounded'
  BY <1>1 DEF IInv, Ordered, Bounded
<1>3. Known' /\ CallbacksWait'
  BY <1>1 DEF IInv, Known, CallbacksWait
<1>4. AnswersTrue' /\ InOrder'
  BY <1>1 DEF IInv, AnswersTrue, InOrder
<1>5. Settled'
  BY <1>1 DEF IInv, Settled
<1> QED
  BY <1>2, <1>3, <1>4, <1>5

LEMMA OnStreamStartStep ==
  ASSUME IInv, OnStreamStart
  PROVE  IInv'
<1>1. /\ state = "Starting" /\ state' = "Open"
      /\ UNCHANGED <<user, callbacks, answers, owner, made, queue, nextId, pipeline,
                     handshake, idle, up, down, applied, refused, overtaken, faults, killed>>
  BY DEF OnStreamStart, appVars, diskVars, wireVars, serverVars, faultVars
<1>2. ~handshake
  BY <1>1 DEF IInv, Wire
<1>3. TypeOK'
  BY <1>1 DEF IInv, TypeOK, States
<1>4. Correlated'
  BY <1>1, <1>2 DEF IInv, Correlated
<1>5. Wire'
  BY <1>1 DEF IInv, Wire
<1> QED
  BY <1>1, <1>3, <1>4, <1>5, QuietStep DEF IInv, appVars, diskVars, serverVars

LEMMA BackoffElapsedStep ==
  ASSUME IInv, BackoffElapsed
  PROVE  IInv'
<1>1. /\ state = "Backoff" /\ state' = "Starting"
      /\ UNCHANGED <<user, callbacks, answers, owner, made, queue, nextId, pipeline,
                     handshake, idle, up, down, applied, refused, overtaken, faults, killed>>
  BY DEF BackoffElapsed, appVars, diskVars, wireVars, serverVars, faultVars
<1>2. ~handshake
  BY <1>1 DEF IInv, Wire
<1>3. TypeOK'
  BY <1>1 DEF IInv, TypeOK, States
<1>4. Correlated'
  BY <1>1, <1>2 DEF IInv, Correlated
<1>5. Wire'
  BY <1>1, <1>2 DEF IInv, Wire
<1> QED
  BY <1>1, <1>3, <1>4, <1>5, QuietStep DEF IInv, appVars, diskVars, serverVars

\* The whole pipeline is sent on an empty wire.
LEMMA HandshakeStep ==
  ASSUME IInv, OnWriteStreamHandshakeComplete
  PROVE  IInv'
<1>1. /\ state = "Open" /\ ~handshake /\ handshake' = TRUE /\ up' = pipeline
      /\ idle' = (idle /\ pipeline = <<>>)
      /\ UNCHANGED <<user, callbacks, answers, owner, made, queue, nextId, pipeline,
                     state, down, applied, refused, overtaken, faults, killed>>
  BY DEF OnWriteStreamHandshakeComplete, appVars, diskVars, serverVars, faultVars
<1>2. down = <<>> /\ Len(down) = 0
  BY <1>1 DEF IInv, Wire
<1>3. TypeOK'
  <2>1. handshake' \in BOOLEAN /\ idle' \in BOOLEAN /\ up' \in Seq(Batch)
    BY <1>1 DEF IInv, TypeOK
  <2> QED
    BY <1>1, <2>1 DEF IInv, TypeOK
<1>4. Correlated'
  <2>1. pipeline \in Seq(Batch)
    BY DEF IInv, TypeOK
  <2>2. Len(pipeline) \in Nat
    BY <2>1, SeqFacts
  <2>3. Len(pipeline) <= Len(queue[user]) /\ \A i \in 1..Len(pipeline) : pipeline[i] = queue[user][i]
    BY DEF IInv, Correlated
  <2>4. Len(down') = 0 /\ up' = pipeline /\ pipeline' = pipeline /\ queue' = queue /\ user' = user
    BY <1>1, <1>2
  <2> QED
    BY <2>2, <2>3, <2>4 DEF Correlated
<1>5. Wire'
  BY <1>1, <1>2 DEF IInv, Wire
<1> QED
  BY <1>1, <1>3, <1>4, <1>5, QuietStep DEF IInv, appVars, diskVars, serverVars

LEMMA IdleTimeoutStep ==
  ASSUME IInv, IdleTimeout
  PROVE  IInv'
<1>1. /\ idle' = FALSE /\ state' = "Initial" /\ handshake' = FALSE
      /\ up' = <<>> /\ down' = <<>>
      /\ UNCHANGED <<user, callbacks, answers, owner, made, queue, nextId, pipeline,
                     applied, refused, overtaken, faults, killed>>
  BY DEF IdleTimeout, appVars, diskVars, serverVars, faultVars
<1>2. Len(up') = 0 /\ Len(down') = 0
  BY <1>1
<1>3. TypeOK'
  <2>1. up' \in Seq(Batch) /\ down' \in Seq(Reply)
    BY <1>1, EmptySeq
  <2> QED
    BY <1>1, <2>1 DEF IInv, TypeOK, States
<1>4. Correlated'
  <2>1. Len(pipeline) \in Nat
    BY SeqFacts DEF IInv, TypeOK
  <2> QED
    BY <1>1, <1>2, <2>1 DEF IInv, Correlated
<1>5. Wire'
  BY <1>1, <1>2 DEF IInv, Wire
<1> QED
  BY <1>1, <1>3, <1>4, <1>5, QuietStep DEF IInv, appVars, diskVars, serverVars

-----------------------------------------------------------------------------
(* The server reads a request. *)

LEMMA ReadsFacts ==
  ASSUME IInv, NEW ok \in BOOLEAN, Reads(ok)
  PROVE  /\ handshake /\ up # <<>> /\ Head(up) = up[1] /\ Head(up) \in Batch
         /\ 1 \in 0..Len(up) /\ {up[i].write : i \in 1..1} = {Head(up).write}
         /\ \A i \in 1..Len(down) : down[i].ok
         /\ up' \in Seq(Batch) /\ down' \in Seq(Reply)
         /\ Len(down') = Len(down) + 1 /\ Len(down) \in Nat
         /\ \A i \in 1..Len(down) : down'[i] = down[i]
         /\ down'[Len(down) + 1] = [batch |-> Head(up), ok |-> ok]
         /\ Correlated'
<1>1. /\ up # <<>> /\ up' = Tail(up)
      /\ down' = Append(down, [batch |-> Head(up), ok |-> ok])
      /\ \A i \in 1..Len(down) : down[i].ok
      /\ UNCHANGED <<user, queue, pipeline, state, handshake>>
  BY DEF Reads, diskVars, streamVars
<1>2. /\ up \in Seq(Batch) /\ down \in Seq(Reply) /\ pipeline \in Seq(Batch)
      /\ handshake \in BOOLEAN
  BY DEF IInv, TypeOK
<1>3. /\ Len(up) \in Nat /\ Len(up) >= 1 /\ Head(up) = up[1] /\ Head(up) \in Batch
      /\ up' \in Seq(Batch) /\ Len(up') = Len(up) - 1
      /\ \A i \in 1..Len(up') : up'[i] = up[i + 1]
  BY <1>1, <1>2, HeadFacts
<1>4. [batch |-> Head(up), ok |-> ok] \in Reply
  BY <1>3 DEF Reply
<1>5. /\ down' \in Seq(Reply) /\ Len(down') = Len(down) + 1 /\ Len(down) \in Nat
      /\ \A i \in 1..Len(down) : down'[i] = down[i]
      /\ down'[Len(down) + 1] = [batch |-> Head(up), ok |-> ok]
  BY <1>1, <1>2, <1>4, AppendProperties, SeqFacts
<1>6. handshake
  BY <1>1 DEF IInv, Wire
<1>7. {up[i].write : i \in 1..1} = {Head(up).write}
  BY <1>3
<1>8. Correlated'
  <2>1. Len(pipeline) \in Nat
    BY <1>2, SeqFacts
  <2>2. /\ Len(down) + Len(up) <= Len(pipeline)
        /\ \A i \in 1..Len(down) : down[i].batch = pipeline[i]
        /\ \A i \in 1..Len(up) : up[i] = pipeline[Len(down) + i]
        /\ state = "Open" /\ handshake => Len(down) + Len(up) = Len(pipeline)
    BY DEF IInv, Correlated
  <2>3. Len(down') + Len(up') = Len(down) + Len(up)
    BY <1>3, <1>5
  <2>4. ASSUME NEW i \in 1..Len(down') PROVE down'[i].batch = pipeline[i]
    <3>1. CASE i \in 1..Len(down)
      BY <3>1, <1>5, <2>2
    <3>2. CASE i \notin 1..Len(down)
      <4>1. i = Len(down) + 1
        BY <3>2, <1>5
      <4>2. up[1] = pipeline[Len(down) + 1]
        BY <1>3, <2>2
      <4> QED
        BY <4>1, <4>2, <1>3, <1>5
    <3> QED
      BY <3>1, <3>2
  <2>5. ASSUME NEW i \in 1..Len(up') PROVE up'[i] = pipeline[Len(down') + i]
    <3>1. i + 1 \in 1..Len(up) /\ Len(down') + i = Len(down) + (i + 1)
      BY <1>3, <1>5
    <3> QED
      BY <3>1, <1>3, <2>2
  <2>6. /\ Len(pipeline') <= Len(queue'[user'])
        /\ \A i \in 1..Len(pipeline') : pipeline'[i] = queue'[user'][i]
    BY <1>1 DEF IInv, Correlated
  <2>7. /\ Len(down') + Len(up') <= Len(pipeline')
        /\ state' = "Open" /\ handshake' => Len(down') + Len(up') = Len(pipeline')
    BY <1>1, <2>2, <2>3
  <2> QED
    BY <1>1, <2>4, <2>5, <2>6, <2>7 DEF Correlated
<1> QED
  BY <1>1, <1>3, <1>5, <1>6, <1>7, <1>8

LEMMA ServerAppliesStep ==
  ASSUME IInv, ServerApplies
  PROVE  IInv'
<1>1. /\ Reads(TRUE) /\ applied' = applied \cup {Head(up).write}
      /\ UNCHANGED <<user, callbacks, answers, owner, made, queue, nextId, pipeline,
                     state, handshake, idle, refused, overtaken, faults, killed>>
  BY DEF ServerApplies, Reads, appVars, diskVars, streamVars, faultVars
<1>2. /\ handshake /\ {up[i].write : i \in 1..1} = {Head(up).write} /\ 1 \in 0..Len(up)
      /\ up' \in Seq(Batch) /\ down' \in Seq(Reply)
      /\ Len(down') = Len(down) + 1 /\ Len(down) \in Nat
      /\ \A i \in 1..Len(down) : down[i].ok /\ down'[i] = down[i]
      /\ down'[Len(down) + 1] = [batch |-> Head(up), ok |-> TRUE]
      /\ Correlated'
  BY <1>1, ReadsFacts
<1>3. /\ applied \subseteq applied' /\ applied' \subseteq Write
      /\ \A w \in applied' : w <= made'
      /\ InOrder'
  BY <1>1, <1>2, PrefixApplied
<1>4. TypeOK'
  BY <1>1, <1>2, <1>3 DEF IInv, TypeOK
<1>5. Ordered' /\ Bounded' /\ CallbacksWait' /\ Settled'
  BY <1>1 DEF IInv, Ordered, Bounded, CallbacksWait, Settled
<1>6. Known'
  BY <1>1, <1>3 DEF IInv, Known
<1>7. Wire'
  <2>1. ASSUME NEW i \in 1..Len(down')
        PROVE  down'[i].ok /\ down'[i].batch.write \in applied'
    <3>1. CASE i \in 1..Len(down)
      BY <3>1, <1>2, <1>3 DEF IInv, Wire
    <3>2. CASE i \notin 1..Len(down)
      <4>1. i = Len(down) + 1
        BY <3>2, <1>2
      <4> QED
        BY <4>1, <1>1, <1>2
    <3> QED
      BY <3>1, <3>2
  <2> QED
    BY <2>1, <1>1, <1>2 DEF IInv, Wire
<1>8. AnswersTrue'
  BY <1>1, <1>3 DEF IInv, AnswersTrue
<1> QED
  BY <1>2, <1>3, <1>4, <1>5, <1>6, <1>7, <1>8 DEF IInv

LEMMA ServerRefusesStep ==
  ASSUME IInv, ServerRefuses
  PROVE  IInv'
<1>1. /\ Reads(FALSE) /\ refused' = refused \cup {Head(up).write}
      /\ UNCHANGED <<user, callbacks, answers, owner, made, queue, nextId, pipeline,
                     state, handshake, idle, applied, overtaken, faults, killed>>
  BY DEF ServerRefuses, Reads, appVars, diskVars, streamVars, faultVars
<1>2. /\ handshake /\ Head(up) \in Batch
      /\ up' \in Seq(Batch) /\ down' \in Seq(Reply)
      /\ Len(down') = Len(down) + 1 /\ Len(down) \in Nat
      /\ \A i \in 1..Len(down) : down[i].ok /\ down'[i] = down[i]
      /\ down'[Len(down) + 1] = [batch |-> Head(up), ok |-> FALSE]
      /\ Correlated'
  BY <1>1, ReadsFacts
<1>3. refused' \subseteq Write
  BY <1>1, <1>2 DEF IInv, TypeOK, Batch
<1>4. TypeOK'
  BY <1>1, <1>2, <1>3 DEF IInv, TypeOK
<1>5. Ordered' /\ Bounded' /\ CallbacksWait' /\ Settled' /\ InOrder' /\ Known'
  BY <1>1 DEF IInv, Ordered, Bounded, CallbacksWait, Settled, InOrder, Known
<1>6. Wire'
  <2>1. ASSUME NEW i \in 1..Len(down')
        PROVE  IF down'[i].ok THEN down'[i].batch.write \in applied'
               ELSE i = Len(down') /\ down'[i].batch.write \in refused'
    <3>1. CASE i \in 1..Len(down)
      BY <3>1, <1>1, <1>2 DEF IInv, Wire
    <3>2. CASE i \notin 1..Len(down)
      <4>1. i = Len(down) + 1
        BY <3>2, <1>2
      <4> QED
        BY <4>1, <1>1, <1>2
    <3> QED
      BY <3>1, <3>2
  <2> QED
    BY <2>1, <1>1, <1>2 DEF IInv, Wire
<1>7. AnswersTrue'
  BY <1>1 DEF IInv, AnswersTrue
<1> QED
  BY <1>2, <1>4, <1>5, <1>6, <1>7 DEF IInv

-----------------------------------------------------------------------------
(* The stream is given up. *)

LEMMA GivenUp ==
  ASSUME IInv, StreamEnds, UNCHANGED <<queue, made>>
  PROVE  /\ handshake' = FALSE /\ down' = <<>> /\ Len(down') = 0
         /\ refused' = refused /\ overtaken' = overtaken
         /\ applied \subseteq applied' /\ applied' \subseteq Write
         /\ \A w \in applied' : w <= made'
         /\ InOrder'
<1>1. PICK k \in 0..Len(up) :
        /\ k > 0 => \A i \in 1..Len(down) : down[i].ok
        /\ applied' = applied \cup {up[i].write : i \in 1..k}
  BY DEF StreamEnds
<1>2. handshake' = FALSE /\ down' = <<>> /\ refused' = refused /\ overtaken' = overtaken
  BY DEF StreamEnds
<1> QED
  BY <1>1, <1>2, PrefixApplied

\* The network restarts for the user u: nothing is on the wire, and the pipeline is the
\* beginning of u's queue.
LEMMA Restarted ==
  ASSUME IInv, NEW u \in User, RestartNetwork(queue[u]), user' = u, queue' = queue
  PROVE  /\ pipeline' \in Seq(Batch) /\ state' \in States /\ idle' \in BOOLEAN
         /\ up' = <<>> /\ up' \in Seq(Batch) /\ down' \in Seq(Reply)
         /\ Correlated' /\ Wire'
<1>1. /\ StreamEnds /\ FillWritePipeline(queue[u], <<>>, "Initial", <<>>)
      /\ handshake' = FALSE /\ down' = <<>>
  BY DEF RestartNetwork, StreamEnds
<1>2. queue[u] \in Seq(Batch) /\ Len(queue[u]) \in Nat /\ Ascending(queue[u])
  BY QueueFacts DEF IInv
<1>3. /\ handshake \in BOOLEAN /\ idle \in BOOLEAN /\ "Initial" \in States
      /\ <<>> \in Seq(Batch) /\ <<>> \in Seq(Reply)
  BY EmptySeq DEF IInv, TypeOK, States
<1>4. Heads(<<>>, queue[u])
  BY <1>2 DEF Heads
<1>5. /\ pipeline' \in Seq(Batch) /\ state' \in States /\ idle' \in BOOLEAN /\ up' = <<>>
  <2>1. FillWritePipeline(queue[u], <<>>, "Initial", <<>>)
    BY <1>1
  <2>2. /\ pipeline' \in Seq(Batch) /\ state' \in States /\ idle' \in BOOLEAN
        /\ ~ ("Initial" = "Open" /\ handshake) => up' = <<>>
    BY <2>1, <1>2, <1>3, <1>4, FilledFacts
  <2> QED
    BY <2>2
<1>6. Matching(<<>>, <<>>, <<>>)
  BY DEF Matching
<1>7. Correlated'
  <2>1. queue'[user'] = queue[u] /\ Matching(down', <<>>, <<>>) /\ down' \in Seq(Reply)
    BY <1>1, <1>3, <1>6
  <2>2. ("Initial" = "Open" /\ handshake) => Len(down') + Len(<<>>) = Len(<<>>)
    OBVIOUS
  <2>3. handshake' => handshake
    BY <1>1
  <2> QED
    BY <2>1, <2>2, <2>3, <1>1, <1>2, <1>3, <1>4, FilledCorrelated
<1>8. Wire'
  BY <1>1, <1>5 DEF Wire
<1> QED
  BY <1>1, <1>3, <1>5, <1>7, <1>8

LEMMA AnswersStayTrue ==
  ASSUME IInv, answers' = answers, applied \subseteq applied',
         refused' = refused, overtaken' = overtaken
  PROVE  AnswersTrue'
  BY DEF IInv, AnswersTrue

LEMMA StreamBreaksStep ==
  ASSUME IInv, StreamBreaks
  PROVE  IInv'
<1>1. /\ StreamEnds /\ up' = <<>> /\ idle' = FALSE
      /\ state' = (IF pipeline = <<>> THEN "Error" ELSE Started("Error"))
      /\ faults' = faults + 1
      /\ UNCHANGED <<user, callbacks, answers, owner, made, queue, nextId, pipeline, killed>>
  BY DEF StreamBreaks, appVars, diskVars
<1>2. /\ handshake' = FALSE /\ down' = <<>> /\ Len(down') = 0
      /\ refused' = refused /\ overtaken' = overtaken
      /\ applied \subseteq applied' /\ applied' \subseteq Write
      /\ \A w \in applied' : w <= made'
      /\ InOrder'
  BY <1>1, GivenUp
<1>3. TypeOK'
  <2>1. up' \in Seq(Batch) /\ down' \in Seq(Reply)
    BY <1>1, <1>2, EmptySeq
  <2>2. state' \in States
    BY <1>1 DEF Started, States
  <2>3. faults' \in Nat
    BY <1>1 DEF IInv, TypeOK
  <2> QED
    BY <1>1, <1>2, <2>1, <2>2, <2>3 DEF IInv, TypeOK
<1>4. Correlated'
  <2>1. Len(pipeline) \in Nat
    BY SeqFacts DEF IInv, TypeOK
  <2>2. Len(up') = 0 /\ Len(down') = 0
    BY <1>1, <1>2
  <2> QED
    BY <1>1, <1>2, <2>1, <2>2 DEF IInv, Correlated
<1>5. Wire'
  BY <1>1, <1>2 DEF Wire
<1>6. Ordered' /\ Bounded' /\ CallbacksWait' /\ Settled'
  BY <1>1 DEF IInv, Ordered, Bounded, CallbacksWait, Settled
<1>7. Known'
  BY <1>1, <1>2 DEF IInv, Known
<1>8. AnswersTrue'
  BY <1>1, <1>2, AnswersStayTrue
<1> QED
  BY <1>2, <1>3, <1>4, <1>5, <1>6, <1>7, <1>8 DEF IInv

LEMMA ConnectivityStep ==
  ASSUME IInv, ConnectivityChanged
  PROVE  IInv'
<1>1. /\ RestartNetwork(queue[user]) /\ StreamEnds /\ faults' = faults + 1
      /\ UNCHANGED <<user, callbacks, answers, owner, made, queue, nextId, killed>>
  BY DEF ConnectivityChanged, RestartNetwork, appVars, diskVars
<1>2. /\ handshake' = FALSE /\ down' = <<>>
      /\ refused' = refused /\ overtaken' = overtaken
      /\ applied \subseteq applied' /\ applied' \subseteq Write
      /\ \A w \in applied' : w <= made'
      /\ InOrder'
  BY <1>1, GivenUp
<1>3. /\ pipeline' \in Seq(Batch) /\ state' \in States /\ idle' \in BOOLEAN
      /\ up' \in Seq(Batch) /\ down' \in Seq(Reply) /\ Correlated' /\ Wire'
  <2>1. user \in User /\ user' = user /\ queue' = queue
    BY <1>1 DEF IInv, TypeOK
  <2> QED
    BY <1>1, <2>1, Restarted
<1>4. TypeOK'
  <2>1. faults' \in Nat
    BY <1>1 DEF IInv, TypeOK
  <2> QED
    BY <1>1, <1>2, <1>3, <2>1 DEF IInv, TypeOK
<1>5. Ordered' /\ Bounded' /\ CallbacksWait' /\ Settled'
  BY <1>1 DEF IInv, Ordered, Bounded, CallbacksWait, Settled
<1>6. Known'
  BY <1>1, <1>2 DEF IInv, Known
<1>7. AnswersTrue'
  BY <1>1, <1>2, AnswersStayTrue
<1> QED
  BY <1>2, <1>3, <1>4, <1>5, <1>6, <1>7 DEF IInv

LEMMA CredentialStep ==
  ASSUME IInv, NEW u \in User, HandleCredentialChange(u)
  PROVE  IInv'
<1>1. /\ RestartNetwork(queue[u]) /\ StreamEnds /\ faults' = faults + 1 /\ user' = u
      /\ nextId' = (IF u = user THEN nextId ELSE LoadNextBatchId(queue))
      /\ UNCHANGED <<callbacks, answers, owner, made, queue, killed>>
  BY DEF HandleCredentialChange, RestartNetwork, appVars
<1>2. /\ handshake' = FALSE /\ down' = <<>>
      /\ refused' = refused /\ overtaken' = overtaken
      /\ applied \subseteq applied' /\ applied' \subseteq Write
      /\ \A w \in applied' : w <= made'
      /\ InOrder'
  BY <1>1, GivenUp
<1>3. /\ pipeline' \in Seq(Batch) /\ state' \in States /\ idle' \in BOOLEAN
      /\ up' \in Seq(Batch) /\ down' \in Seq(Reply) /\ Correlated' /\ Wire'
  BY <1>1, Restarted
<1>4. nextId' \in Nat \ {0} /\ Bounded'
  <2>1. CASE u = user
    BY <2>1, <1>1 DEF IInv, TypeOK, Bounded
  <2>2. CASE u # user
    <3>1. /\ nextId' \in 1..nextId /\ nextId \in Nat
          /\ \A v \in User : \A i \in 1..Len(queue[v]) : queue[v][i].id < nextId'
      BY <2>2, <1>1, LoadNextFacts DEF IInv, TypeOK
    <3> QED
      BY <3>1, <1>1 DEF IInv, Bounded
  <2> QED
    BY <2>1, <2>2
<1>5. TypeOK'
  <2>1. faults' \in Nat
    BY <1>1 DEF IInv, TypeOK
  <2> QED
    BY <1>1, <1>2, <1>3, <1>4, <2>1 DEF IInv, TypeOK
<1>6. Ordered' /\ CallbacksWait' /\ Settled'
  BY <1>1 DEF IInv, Ordered, CallbacksWait, Settled
<1>7. Known'
  BY <1>1, <1>2 DEF IInv, Known
<1>8. AnswersTrue'
  BY <1>1, <1>2, AnswersStayTrue
<1> QED
  BY <1>2, <1>3, <1>4, <1>5, <1>6, <1>7, <1>8 DEF IInv

\* Whoever waits under the id of the first batch waits for that batch.
LEMMA Told ==
  ASSUME IInv, down # <<>>, NEW c \in callbacks[user], c.id = Head(pipeline).id
  PROVE  c = queue[user][1]
<1>1. user \in User
  BY DEF IInv, TypeOK
<1>2. queue[user] \in Seq(Batch) /\ Len(queue[user]) \in Nat
      /\ \A i \in 1..Len(queue[user]) : queue[user][i].id \in Nat
  BY <1>1, QueueFacts DEF IInv
<1>3. c \in ToSet(queue[user])
  BY <1>1 DEF IInv, CallbacksWait
<1>4. PICK i \in 1..Len(queue[user]) : queue[user][i] = c
  BY <1>2, <1>3, ToSetFacts
<1>5. Head(pipeline) = queue[user][1] /\ 1 \in 1..Len(queue[user])
  BY <1>2, <1>4, FirstAnswer
<1>6. ~ (1 < i)
  BY <1>1, <1>2, <1>4, <1>5 DEF IInv, Ordered
<1> QED
  BY <1>2, <1>4, <1>5, <1>6

LEMMA ProcessRestartStep ==
  ASSUME IInv, NEW answering \in BOOLEAN, ProcessRestart(answering)
  PROVE  IInv'
<1>1. /\ RestartNetwork(queue[user]) /\ StreamEnds /\ faults' = faults + 1 /\ killed' = TRUE
      /\ answering => down # <<>> /\ Head(down).ok
      /\ answers' = [w \in Write |->
                       IF answering /\ \E c \in callbacks[user] :
                                         c.id = Head(pipeline).id /\ c.write = w
                       THEN "acked" ELSE answers[w]]
      /\ callbacks' = [u \in User |-> {}]
      /\ nextId' = LoadNextBatchId(queue)
      /\ UNCHANGED <<user, owner, made, queue>>
  BY DEF ProcessRestart, RestartNetwork
<1>2. /\ handshake' = FALSE /\ down' = <<>>
      /\ refused' = refused /\ overtaken' = overtaken
      /\ applied \subseteq applied' /\ applied' \subseteq Write
      /\ \A w \in applied' : w <= made'
      /\ InOrder'
  BY <1>1, GivenUp
<1>3. user \in User /\ user' = user /\ queue' = queue
  BY <1>1 DEF IInv, TypeOK
<1>4. /\ pipeline' \in Seq(Batch) /\ state' \in States /\ idle' \in BOOLEAN
      /\ up' \in Seq(Batch) /\ down' \in Seq(Reply) /\ Correlated' /\ Wire'
  BY <1>1, <1>3, Restarted
<1>5. /\ nextId' \in 1..nextId /\ nextId \in Nat
      /\ \A v \in User : \A i \in 1..Len(queue[v]) : queue[v][i].id < nextId'
  BY <1>1, LoadNextFacts DEF IInv, TypeOK
<1>6. ASSUME NEW w \in Write, answers'[w] # answers[w]
      PROVE  /\ answers'[w] = "acked"
             /\ 1 \in 1..Len(queue[user]) /\ w = queue[user][1].write
             /\ w \in applied /\ w <= made /\ owner[w] = user
  <2>1. /\ answers'[w] = "acked" /\ down # <<>> /\ Head(down).ok
        /\ \E c \in callbacks[user] : c.id = Head(pipeline).id /\ c.write = w
    BY <1>1, <1>6
  <2>2. w = queue[user][1].write
    BY <2>1, Told
  <2>3. /\ Len(down) \in Nat /\ Len(down) >= 1 /\ Head(down) = down[1]
        /\ Len(queue[user]) \in Nat /\ Len(queue[user]) >= 1
        /\ down[1].batch = queue[user][1]
    BY <2>1, FirstAnswer
  <2>4. down[1].batch.write \in applied
    BY <2>1, <2>3 DEF IInv, Wire
  <2>5. w <= made /\ owner[w] = user
    BY <2>2, <2>3, <1>3 DEF IInv, Bounded
  <2> QED
    BY <2>1, <2>2, <2>3, <2>4, <2>5
<1>7. TypeOK'
  <2>1. answers' \in [Write -> {"none", "acked", "rejected"}]
    BY <1>1 DEF IInv, TypeOK
  <2>2. callbacks' \in [User -> SUBSET Batch] /\ killed' \in BOOLEAN /\ faults' \in Nat
    BY <1>1 DEF IInv, TypeOK
  <2>3. nextId' \in Nat \ {0}
    BY <1>5
  <2> QED
    BY <1>1, <1>2, <1>4, <2>1, <2>2, <2>3 DEF IInv, TypeOK
<1>8. Ordered' /\ Bounded'
  BY <1>1, <1>5 DEF IInv, Ordered, Bounded
<1>9. CallbacksWait'
  BY <1>1 DEF CallbacksWait
<1>10. Known'
  BY <1>1, <1>2, <1>6 DEF IInv, Known
<1>11. AnswersTrue'
  BY <1>2, <1>6 DEF IInv, AnswersTrue
<1>12. Settled'
  <2> SUFFICES ASSUME NEW v \in Write, answers'[v] # "none",
                      NEW i \in 1..Len(queue[owner[v]]), queue[owner[v]][i].write <= v
               PROVE  \E j \in 1..Len(queue[owner[v]]) : queue[owner[v]][j].write = v
    BY <1>1 DEF Settled
  <2>1. CASE answers'[v] = answers[v]
    BY <2>1 DEF IInv, Settled
  <2>2. CASE answers'[v] # answers[v]
    BY <2>2, <1>6
  <2> QED
    BY <2>1, <2>2
<1> QED
  BY <1>2, <1>4, <1>7, <1>8, <1>9, <1>10, <1>11, <1>12 DEF IInv

-----------------------------------------------------------------------------
(* The app makes a write. *)

NewBatch == [id |-> nextId, write |-> made + 1]
Longer == Append(queue[user], NewBatch)

LEMMA LongerFacts ==
  ASSUME IInv, WriteMutations
  PROVE  /\ user \in User /\ made \in Nat /\ made + 1 \in Write /\ NewBatch \in Batch
         /\ Longer \in Seq(Batch) /\ Ascending(Longer) /\ Heads(pipeline, Longer)
         /\ Len(queue[user]) \in Nat
         /\ queue' \in [User -> Seq(Batch)]
         /\ queue'[user] = Longer
         /\ \A u \in User \ {user} : queue'[u] = queue[u]
         /\ \A u \in User : \A i \in 1..Len(queue'[u]) :
              \/ i \in 1..Len(queue[u]) /\ queue'[u][i] = queue[u][i]
              \/ u = user /\ i = Len(queue[user]) + 1 /\ queue'[u][i] = NewBatch
         /\ \A u \in User : \A i \in 1..Len(queue[u]) :
              i \in 1..Len(queue'[u]) /\ queue'[u][i] = queue[u][i]
         /\ Len(queue'[user]) = Len(queue[user]) + 1
         /\ queue'[user][Len(queue[user]) + 1] = NewBatch
<1>1. /\ made < MaxWrites /\ queue' = [queue EXCEPT ![user] = Longer]
  BY DEF WriteMutations, Longer, NewBatch
<1>2. /\ user \in User /\ made \in Nat /\ nextId \in Nat /\ queue \in [User -> Seq(Batch)]
  BY DEF IInv, TypeOK
<1>3. made + 1 \in Write
  BY <1>1, <1>2, LimitsAssumption DEF Write
<1>4. NewBatch \in Batch
  BY <1>2, <1>3 DEF NewBatch, Batch
<1>5. /\ Longer \in Seq(Batch) /\ Len(Longer) = Len(queue[user]) + 1
      /\ \A i \in 1..Len(queue[user]) : Longer[i] = queue[user][i]
      /\ Longer[Len(queue[user]) + 1] = NewBatch
  BY <1>2, <1>4, AppendProperties DEF Longer
<1>6. /\ queue' \in [User -> Seq(Batch)] /\ queue'[user] = Longer
      /\ \A u \in User \ {user} : queue'[u] = queue[u]
  BY <1>1, <1>2, <1>5
<1>7. /\ Len(queue[user]) \in Nat /\ Ascending(queue[user])
      /\ \A i \in 1..Len(queue[user]) : queue[user][i].id \in Nat
  BY <1>2, QueueFacts DEF IInv
<1>8. Ascending(Longer)
  <2> SUFFICES ASSUME NEW i \in 1..Len(Longer), NEW j \in 1..Len(Longer), i < j
               PROVE  Longer[i].id < Longer[j].id
    BY DEF Ascending
  <2>1. i \in 1..Len(queue[user])
    BY <1>5, <1>7
  <2>2. CASE j \in 1..Len(queue[user])
    BY <2>1, <2>2, <1>5, <1>7 DEF Ascending
  <2>3. CASE j \notin 1..Len(queue[user])
    <3>1. Longer[j].id = nextId
      BY <2>3, <1>5, <1>7 DEF NewBatch
    <3>2. queue[user][i].id < nextId
      BY <2>1, <1>2 DEF IInv, Bounded
    <3> QED
      BY <2>1, <3>1, <3>2, <1>5
  <2> QED
    BY <2>2, <2>3
<1>9. Heads(pipeline, Longer)
  <2>1. /\ Len(pipeline) <= Len(queue[user]) /\ Len(pipeline) \in Nat
        /\ \A i \in 1..Len(pipeline) : pipeline[i] = queue[user][i]
    BY SeqFacts DEF IInv, Correlated, TypeOK
  <2> QED
    BY <2>1, <1>5, <1>7 DEF Heads
<1>10. ASSUME NEW u \in User, NEW i \in 1..Len(queue'[u])
       PROVE  \/ i \in 1..Len(queue[u]) /\ queue'[u][i] = queue[u][i]
              \/ u = user /\ i = Len(queue[user]) + 1 /\ queue'[u][i] = NewBatch
  <2>1. CASE u = user
    <3>1. CASE i \in 1..Len(queue[user])
      BY <2>1, <3>1, <1>5, <1>6
    <3>2. CASE i \notin 1..Len(queue[user])
      BY <2>1, <3>2, <1>5, <1>6, <1>7
    <3> QED
      BY <3>1, <3>2
  <2>2. CASE u # user
    BY <2>2, <1>6
  <2> QED
    BY <2>1, <2>2
<1>11. ASSUME NEW u \in User, NEW i \in 1..Len(queue[u])
       PROVE  i \in 1..Len(queue'[u]) /\ queue'[u][i] = queue[u][i]
  <2>1. CASE u = user
    BY <2>1, <1>5, <1>6, <1>7
  <2>2. CASE u # user
    BY <2>2, <1>6
  <2> QED
    BY <2>1, <2>2
<1> QED
  BY <1>2, <1>3, <1>4, <1>5, <1>6, <1>7, <1>8, <1>9, <1>10, <1>11

LEMMA WriteMutationsStep ==
  ASSUME IInv, WriteMutations
  PROVE  IInv'
<1>1. /\ made' = made + 1 /\ nextId' = nextId + 1
      /\ owner' = [owner EXCEPT ![made + 1] = user]
      /\ callbacks' = [callbacks EXCEPT ![user] =
                         IF \E c \in @ : c.id = nextId THEN @ ELSE @ \cup {NewBatch}]
      /\ FillWritePipeline(Longer, pipeline, state, up)
      /\ UNCHANGED <<user, answers, handshake, down, applied, refused, overtaken,
                     faults, killed>>
  BY DEF WriteMutations, Longer, NewBatch, serverVars, faultVars
<1>2. /\ user \in User /\ made \in Nat /\ made + 1 \in Write /\ NewBatch \in Batch
      /\ Longer \in Seq(Batch) /\ Ascending(Longer) /\ Heads(pipeline, Longer)
      /\ queue' \in [User -> Seq(Batch)]
      /\ queue'[user] = Longer
  BY LongerFacts
<1>3. /\ Len(queue[user]) \in Nat
      /\ \A u \in User : \A i \in 1..Len(queue'[u]) :
           \/ i \in 1..Len(queue[u]) /\ queue'[u][i] = queue[u][i]
           \/ u = user /\ i = Len(queue[user]) + 1 /\ queue'[u][i] = NewBatch
      /\ \A u \in User : \A i \in 1..Len(queue[u]) :
           i \in 1..Len(queue'[u]) /\ queue'[u][i] = queue[u][i]
      /\ Len(queue'[user]) = Len(queue[user]) + 1
      /\ queue'[user][Len(queue[user]) + 1] = NewBatch
  BY LongerFacts
<1>4. /\ NewBatch.id = nextId /\ NewBatch.write = made + 1 /\ nextId \in Nat
      /\ state \in States /\ up \in Seq(Batch) /\ down \in Seq(Reply)
      /\ pipeline \in Seq(Batch) /\ handshake \in BOOLEAN /\ idle \in BOOLEAN
  BY DEF IInv, TypeOK, NewBatch
<1>5. /\ pipeline' \in Seq(Batch) /\ state' \in States /\ idle' \in BOOLEAN
      /\ up' \in Seq(Batch)
      /\ state' = "Open" <=> state = "Open"
      /\ ~ (state = "Open" /\ handshake) => up' = up
  BY <1>1, <1>2, <1>4, FilledFacts
<1>6. /\ callbacks' \in [User -> SUBSET Batch]
      /\ callbacks'[user] \subseteq callbacks[user] \cup {NewBatch}
      /\ \A u \in User \ {user} : callbacks'[u] = callbacks[u]
  <2>1. callbacks \in [User -> SUBSET Batch]
    BY DEF IInv, TypeOK
  <2>2. callbacks'[user] = (IF \E c \in callbacks[user] : c.id = nextId
                            THEN callbacks[user] ELSE callbacks[user] \cup {NewBatch})
    BY <1>1, <1>2, <2>1
  <2>3. callbacks'[user] \subseteq callbacks[user] \cup {NewBatch}
    BY <2>2
  <2>4. \A u \in User \ {user} : callbacks'[u] = callbacks[u]
    BY <1>1, <2>1
  <2>5. callbacks' \in [User -> SUBSET Batch]
    BY <1>1, <1>2, <2>1
  <2> QED
    BY <2>3, <2>4, <2>5
<1>7. /\ owner' \in [Write -> User] /\ owner'[made + 1] = user
      /\ \A w \in Write : w <= made => owner'[w] = owner[w]
  BY <1>1, <1>2 DEF IInv, TypeOK, Write
<1>8. TypeOK'
  <2>1. made' \in 0..MaxWrites /\ nextId' \in Nat \ {0}
    BY <1>1, <1>2, <1>4, LimitsAssumption DEF Write
  <2> QED
    BY <1>1, <1>2, <1>5, <1>6, <1>7, <2>1 DEF IInv, TypeOK
<1>9. Correlated'
  <2>1. Matching(down, up, pipeline) /\ (state = "Open" /\ handshake => Len(down) + Len(up) = Len(pipeline))
    BY DEF IInv, Correlated, Matching
  <2>2. queue'[user'] = Longer /\ down' = down /\ (handshake' => handshake)
    BY <1>1, <1>2
  <2> QED
    BY <2>1, <2>2, <1>1, <1>2, <1>4, FilledCorrelated
<1>10. \A u \in User : \A i \in 1..Len(queue[u]) :
         /\ queue[u][i].id \in Nat /\ queue[u][i].id < nextId
         /\ queue[u][i].write \in Write /\ queue[u][i].write <= made
         /\ owner[queue[u][i].write] = u /\ Len(queue[u]) \in Nat
  BY QueueFacts DEF IInv, Bounded
<1>11. Ordered'
  <2> SUFFICES ASSUME NEW u \in User, NEW i \in 1..Len(queue'[u]), NEW j \in 1..Len(queue'[u]), i < j
               PROVE  /\ queue'[u][i].id < queue'[u][j].id
                      /\ queue'[u][i].write < queue'[u][j].write
    BY DEF Ordered
  <2>1. i \in 1..Len(queue[u]) /\ queue'[u][i] = queue[u][i]
    <3>1. CASE j \in 1..Len(queue[u])
      <4>1. i \in 1..Len(queue[u])
        BY <3>1, <1>10
      <4> QED
        BY <4>1, <1>3
    <3>2. CASE j \notin 1..Len(queue[u])
      <4>1. u = user /\ j = Len(queue[user]) + 1
        BY <3>2, <1>3
      <4>2. i # Len(queue[user]) + 1
        BY <4>1, <1>3
      <4> QED
        BY <4>2, <1>3
    <3> QED
      BY <3>1, <3>2
  <2>2. CASE j \in 1..Len(queue[u])
    BY <2>1, <2>2, <1>3 DEF IInv, Ordered
  <2>3. CASE j \notin 1..Len(queue[u])
    <3>1. queue'[u][j] = NewBatch
      BY <2>3, <1>3
    <3>2. queue[u][i].id < nextId /\ queue[u][i].write < made + 1
      BY <2>1, <1>2, <1>10 DEF Write
    <3> QED
      BY <2>1, <3>1, <3>2, <1>4
  <2> QED
    BY <2>2, <2>3
<1>12. Bounded'
  <2> SUFFICES ASSUME NEW u \in User, NEW i \in 1..Len(queue'[u])
               PROVE  /\ queue'[u][i].id < nextId' /\ queue'[u][i].write <= made'
                      /\ owner'[queue'[u][i].write] = u
    BY DEF Bounded
  <2>1. CASE i \in 1..Len(queue[u]) /\ queue'[u][i] = queue[u][i]
    <3>1. /\ queue[u][i].id \in Nat /\ queue[u][i].id < nextId
          /\ queue[u][i].write \in Write /\ queue[u][i].write <= made
          /\ owner[queue[u][i].write] = u
      BY <2>1, <1>10
    <3>2. owner'[queue[u][i].write] = u
      BY <3>1, <1>7
    <3>3. queue[u][i].id < nextId'
      BY <3>1, <1>1, <1>4
    <3>4. queue[u][i].write <= made'
      BY <3>1, <1>1, <1>2 DEF Write
    <3> QED
      BY <2>1, <3>2, <3>3, <3>4
  <2>2. CASE u = user /\ queue'[u][i] = NewBatch
    BY <2>2, <1>1, <1>2, <1>4, <1>7
  <2> QED
    BY <2>1, <2>2, <1>3
<1>13. Known'
  <2>1. applied \subseteq Write /\ \A w \in Write : w \in Nat
    BY DEF IInv, TypeOK, Write
  <2> QED
    BY <2>1, <1>1, <1>2 DEF IInv, Known
<1>14. Wire'
  BY <1>1, <1>4, <1>5 DEF IInv, Wire
<1>15. CallbacksWait'
  <2> SUFFICES ASSUME NEW u \in User, NEW c \in callbacks'[u]
               PROVE  c \in ToSet(queue'[u])
    BY DEF CallbacksWait
  <2>0. queue[u] \in Seq(Batch) /\ queue'[u] \in Seq(Batch)
    BY <1>2 DEF IInv, TypeOK
  <2>1. CASE c \in callbacks[u]
    <3>1. PICK i \in 1..Len(queue[u]) : queue[u][i] = c
      BY <2>0, <2>1, ToSetFacts DEF IInv, CallbacksWait
    <3>2. i \in 1..Len(queue'[u]) /\ queue'[u][i] = c
      BY <3>1, <1>3
    <3> QED
      BY <2>0, <3>2, ToSetFacts
  <2>2. CASE u = user /\ c = NewBatch
    <3>1. Len(queue[user]) + 1 \in 1..Len(queue'[u]) /\ queue'[u][Len(queue[user]) + 1] = c
      BY <2>2, <1>3
    <3> QED
      BY <2>0, <3>1, ToSetFacts
  <2> QED
    BY <2>1, <2>2, <1>6
<1>16. AnswersTrue'
  BY <1>1 DEF IInv, AnswersTrue
<1>17. InOrder'
  <2> SUFFICES ASSUME NEW u \in User, NEW j \in 1..Len(queue'[u]),
                      queue'[u][j].write \in applied, NEW i \in 1..j
               PROVE  queue'[u][i].write \in applied
    BY <1>1 DEF InOrder
  <2>1. queue'[u][j] # NewBatch
    <3>1. applied \subseteq Write /\ \A w \in applied : w <= made
      BY DEF IInv, TypeOK, Known
    <3> QED
      BY <3>1, <1>2, <1>4
  <2>2. j \in 1..Len(queue[u]) /\ queue'[u][j] = queue[u][j]
    BY <2>1, <1>3
  <2>3. i \in 1..Len(queue[u])
    BY <2>2, <1>10
  <2>4. queue'[u][i] = queue[u][i]
    BY <2>3, <1>3
  <2> QED
    BY <2>2, <2>4 DEF IInv, InOrder
<1>18. Settled'
  <2> SUFFICES ASSUME NEW v \in Write, answers[v] # "none",
                      NEW i \in 1..Len(queue'[owner'[v]]), queue'[owner'[v]][i].write <= v
               PROVE  killed /\ \E j \in 1..Len(queue'[owner'[v]]) : queue'[owner'[v]][j].write = v
    BY <1>1 DEF Settled
  <2>1. v <= made /\ owner'[v] = owner[v] /\ owner[v] \in User /\ v \in Nat
    BY <1>7 DEF IInv, Known, TypeOK, Write
  <2>2. queue'[owner[v]][i] # NewBatch
    BY <2>1, <1>2, <1>4
  <2>3. i \in 1..Len(queue[owner[v]]) /\ queue'[owner[v]][i] = queue[owner[v]][i]
    BY <2>1, <2>2, <1>3
  <2>4. killed /\ \E j \in 1..Len(queue[owner[v]]) : queue[owner[v]][j].write = v
    BY <2>1, <2>3 DEF IInv, Settled
  <2>5. PICK j \in 1..Len(queue[owner[v]]) : queue[owner[v]][j].write = v
    BY <2>4
  <2>6. j \in 1..Len(queue'[owner[v]]) /\ queue'[owner[v]][j] = queue[owner[v]][j]
    BY <2>1, <1>3
  <2> QED
    BY <2>1, <2>4, <2>5, <2>6
<1> QED
  BY <1>8, <1>9, <1>11, <1>12, <1>13, <1>14, <1>15, <1>16, <1>17, <1>18 DEF IInv

-----------------------------------------------------------------------------
(* The first batch is answered and removed. *)

Gone(u) == IF u = user THEN 1 ELSE 0

LEMMA ShorterFacts ==
  ASSUME IInv, down # <<>>, queue' = [queue EXCEPT ![user] = Tail(queue[user])]
  PROVE  /\ user \in User /\ queue' \in [User -> Seq(Batch)]
         /\ queue'[user] = Tail(queue[user])
         /\ Tail(queue[user]) \in Seq(Batch) /\ Ascending(Tail(queue[user]))
         /\ Tail(pipeline) \in Seq(Batch) /\ Heads(Tail(pipeline), Tail(queue[user]))
         /\ Len(Tail(pipeline)) = Len(pipeline) - 1 /\ Len(pipeline) \in Nat
         /\ \A i \in 1..Len(Tail(pipeline)) : Tail(pipeline)[i] = pipeline[i + 1]
         /\ \A u \in User : /\ Len(queue[u]) \in Nat
                            /\ Len(queue'[u]) = Len(queue[u]) - Gone(u)
                            /\ \A i \in 1..Len(queue'[u]) :
                                 /\ i + Gone(u) \in 1..Len(queue[u])
                                 /\ queue'[u][i] = queue[u][i + Gone(u)]
<1>1. /\ user \in User /\ queue \in [User -> Seq(Batch)] /\ pipeline \in Seq(Batch)
  BY DEF IInv, TypeOK
<1>2. /\ Len(pipeline) \in Nat /\ Len(pipeline) >= 1
      /\ Len(queue[user]) \in Nat /\ Len(queue[user]) >= 1
  BY FirstAnswer
<1>3. pipeline # <<>> /\ queue[user] # <<>>
  BY <1>1, <1>2, SeqFacts
<1>4. /\ Tail(queue[user]) \in Seq(Batch)
      /\ Len(Tail(queue[user])) = Len(queue[user]) - 1
      /\ \A i \in 1..Len(Tail(queue[user])) : Tail(queue[user])[i] = queue[user][i + 1]
  BY <1>1, <1>3, HeadFacts
<1>5. /\ Tail(pipeline) \in Seq(Batch) /\ Len(Tail(pipeline)) = Len(pipeline) - 1
      /\ \A i \in 1..Len(Tail(pipeline)) : Tail(pipeline)[i] = pipeline[i + 1]
  BY <1>1, <1>3, HeadFacts
<1>6. /\ queue' \in [User -> Seq(Batch)] /\ queue'[user] = Tail(queue[user])
      /\ \A u \in User \ {user} : queue'[u] = queue[u]
  BY <1>1, <1>4
<1>7. Ascending(Tail(queue[user]))
  <2>1. Ascending(queue[user])
    BY <1>1, QueueFacts DEF IInv
  <2> SUFFICES ASSUME NEW i \in 1..Len(Tail(queue[user])), NEW j \in 1..Len(Tail(queue[user])), i < j
               PROVE  Tail(queue[user])[i].id < Tail(queue[user])[j].id
    BY DEF Ascending
  <2>2. i + 1 \in 1..Len(queue[user]) /\ j + 1 \in 1..Len(queue[user]) /\ i + 1 < j + 1
    BY <1>2, <1>4
  <2> QED
    BY <2>1, <2>2, <1>4 DEF Ascending
<1>8. Heads(Tail(pipeline), Tail(queue[user]))
  <2>1. /\ Len(pipeline) <= Len(queue[user])
        /\ \A i \in 1..Len(pipeline) : pipeline[i] = queue[user][i]
    BY DEF IInv, Correlated
  <2>2. ASSUME NEW i \in 1..Len(Tail(pipeline)) PROVE Tail(pipeline)[i] = Tail(queue[user])[i]
    <3>1. i + 1 \in 1..Len(pipeline) /\ i \in 1..Len(Tail(queue[user]))
      BY <2>1, <1>2, <1>4, <1>5
    <3> QED
      BY <2>1, <3>1, <1>4, <1>5
  <2> QED
    BY <2>1, <2>2, <1>2, <1>4, <1>5 DEF Heads
<1>9. ASSUME NEW u \in User
      PROVE  /\ Len(queue[u]) \in Nat
             /\ Len(queue'[u]) = Len(queue[u]) - Gone(u)
             /\ \A i \in 1..Len(queue'[u]) : /\ i + Gone(u) \in 1..Len(queue[u])
                                             /\ queue'[u][i] = queue[u][i + Gone(u)]
  <2>1. Len(queue[u]) \in Nat
    BY QueueFacts DEF IInv
  <2>2. CASE u = user
    BY <2>1, <2>2, <1>2, <1>4, <1>6 DEF Gone
  <2>3. CASE u # user
    BY <2>1, <2>3, <1>6 DEF Gone
  <2> QED
    BY <2>1, <2>2, <2>3
<1> QED
  BY <1>1, <1>2, <1>4, <1>5, <1>6, <1>7, <1>8, <1>9

\* Telling the app of the first batch and removing it, for either answer.
LEMMA AnsweredStep ==
  ASSUME IInv, down # <<>>, NEW answer \in {"acked", "rejected"},
         NotifyUser(Head(pipeline).id, answer),
         queue' = [queue EXCEPT ![user] = Tail(queue[user])],
         UNCHANGED <<user, nextId, owner, made, applied, refused, killed>>,
         overtaken \subseteq overtaken',
         answer = "acked" => queue[user][1].write \in applied,
         answer = "rejected" => queue[user][1].write \in refused \cup overtaken'
  PROVE  /\ answers' \in [Write -> {"none", "acked", "rejected"}]
         /\ callbacks' \in [User -> SUBSET Batch]
         /\ Ordered' /\ Bounded' /\ Known' /\ CallbacksWait'
         /\ AnswersTrue' /\ InOrder' /\ Settled'
<1>1. /\ answers' \in [Write -> {"none", "acked", "rejected"}]
      /\ callbacks' \in [User -> SUBSET Batch]
      /\ \A w \in Write :
           answers'[w] # answers[w] =>
             /\ answers'[w] = answer
             /\ \E c \in callbacks[user] : c.id = Head(pipeline).id /\ c.write = w
      /\ callbacks'[user] = {c \in callbacks[user] : c.id # Head(pipeline).id}
      /\ \A u \in User \ {user} : callbacks'[u] = callbacks[u]
  BY NotifyFacts DEF IInv
<1>2. /\ user \in User /\ queue' \in [User -> Seq(Batch)] /\ queue'[user] = Tail(queue[user])
  BY ShorterFacts
<1>3. \A u \in User : /\ Len(queue[u]) \in Nat
                      /\ Len(queue'[u]) = Len(queue[u]) - Gone(u)
                      /\ \A i \in 1..Len(queue'[u]) :
                           /\ i + Gone(u) \in 1..Len(queue[u])
                           /\ queue'[u][i] = queue[u][i + Gone(u)]
  BY ShorterFacts
<1>4. /\ Len(queue[user]) >= 1 /\ Head(pipeline) = queue[user][1] /\ 1 \in 1..Len(queue[user])
  BY <1>2, <1>3, FirstAnswer
<1>5. \A u \in User : Gone(u) \in {0, 1} /\ Gone(u) \in Nat
  BY DEF Gone
<1>6. ASSUME NEW w \in Write, answers'[w] # answers[w]
      PROVE  /\ answers'[w] = answer /\ w = queue[user][1].write
             /\ owner[w] = user /\ w <= made
  <2>1. answers'[w] = answer /\ \E c \in callbacks[user] : c.id = Head(pipeline).id /\ c.write = w
    BY <1>1, <1>6
  <2>2. w = queue[user][1].write
    BY <2>1, Told
  <2> QED
    BY <2>1, <2>2, <1>2, <1>4 DEF IInv, Bounded
<1>7. Ordered'
  <2> SUFFICES ASSUME NEW u \in User, NEW i \in 1..Len(queue'[u]), NEW j \in 1..Len(queue'[u]), i < j
               PROVE  /\ queue'[u][i].id < queue'[u][j].id
                      /\ queue'[u][i].write < queue'[u][j].write
    BY DEF Ordered
  <2>1. i + Gone(u) < j + Gone(u)
    BY <1>3, <1>5
  <2>2. /\ i + Gone(u) \in 1..Len(queue[u]) /\ queue'[u][i] = queue[u][i + Gone(u)]
        /\ j + Gone(u) \in 1..Len(queue[u]) /\ queue'[u][j] = queue[u][j + Gone(u)]
    BY <1>3
  <2> QED
    BY <2>1, <2>2 DEF IInv, Ordered
<1>8. Bounded'
  <2> SUFFICES ASSUME NEW u \in User, NEW i \in 1..Len(queue'[u])
               PROVE  /\ queue'[u][i].id < nextId /\ queue'[u][i].write <= made
                      /\ owner[queue'[u][i].write] = u
    BY DEF Bounded
  <2>1. i + Gone(u) \in 1..Len(queue[u]) /\ queue'[u][i] = queue[u][i + Gone(u)]
    BY <1>3
  <2> QED
    BY <2>1 DEF IInv, Bounded
<1>9. Known'
  BY <1>6 DEF IInv, Known
<1>10. CallbacksWait'
  <2> SUFFICES ASSUME NEW u \in User, NEW c \in callbacks'[u]
               PROVE  c \in ToSet(queue'[u])
    BY DEF CallbacksWait
  <2>0. queue[u] \in Seq(Batch) /\ queue'[u] \in Seq(Batch)
    BY <1>2 DEF IInv, TypeOK
  <2>1. c \in callbacks[u] /\ (u = user => c.id # Head(pipeline).id)
    BY <1>1
  <2>2. PICK i \in 1..Len(queue[u]) : queue[u][i] = c
    BY <2>0, <2>1, ToSetFacts DEF IInv, CallbacksWait
  <2>3. u = user => i # 1
    BY <2>1, <2>2, <1>4
  <2>4. i - Gone(u) \in 1..Len(queue'[u]) /\ (i - Gone(u)) + Gone(u) = i
    BY <2>3, <1>3 DEF Gone
  <2>5. queue'[u][i - Gone(u)] = c
    BY <2>2, <2>4, <1>3
  <2> QED
    BY <2>0, <2>4, <2>5, ToSetFacts
<1>11. AnswersTrue'
  <2> SUFFICES ASSUME NEW w \in Write
               PROVE  /\ answers'[w] = "acked" => w \in applied
                      /\ answers'[w] = "rejected" => w \in refused \cup overtaken'
    BY DEF AnswersTrue
  <2>1. CASE answers'[w] = answers[w]
    BY <2>1 DEF IInv, AnswersTrue
  <2>2. CASE answers'[w] # answers[w]
    BY <2>2, <1>6
  <2> QED
    BY <2>1, <2>2
<1>12. InOrder'
  <2> SUFFICES ASSUME NEW u \in User, NEW j \in 1..Len(queue'[u]),
                      queue'[u][j].write \in applied, NEW i \in 1..j
               PROVE  queue'[u][i].write \in applied
    BY DEF InOrder
  <2>1. j + Gone(u) \in 1..Len(queue[u]) /\ queue'[u][j] = queue[u][j + Gone(u)]
    BY <1>3
  <2>2. i + Gone(u) \in 1..(j + Gone(u)) /\ i \in 1..Len(queue'[u])
    BY <1>3, <1>5
  <2>3. queue[u][i + Gone(u)].write \in applied
    BY <2>1, <2>2 DEF IInv, InOrder
  <2> QED
    BY <2>2, <2>3, <1>3
<1>13. Settled'
  <2> SUFFICES ASSUME NEW v \in Write, answers'[v] # "none",
                      NEW i \in 1..Len(queue'[owner[v]]), queue'[owner[v]][i].write <= v
               PROVE  killed /\ \E j \in 1..Len(queue'[owner[v]]) : queue'[owner[v]][j].write = v
    BY DEF Settled
  <2> DEFINE u == owner[v]
  <2>1. u \in User
    BY DEF IInv, TypeOK
  <2> HIDE DEF u
  <2>2. i + Gone(u) \in 1..Len(queue[u]) /\ queue'[u][i] = queue[u][i + Gone(u)]
    BY <2>1, <1>3 DEF u
  <2>3. queue[u][i + Gone(u)].write \in Nat /\ v \in Nat /\ queue[u][1].write \in Nat
        /\ queue[u][i + Gone(u)].write <= v
    <3>1. 1 \in 1..Len(queue[u])
      BY <2>1, <2>2, <1>3
    <3>2. \A j \in 1..Len(queue[u]) : queue[u][j].write \in Nat
      <4>1. TypeOK /\ Ordered
        BY DEF IInv
      <4>2. \A j \in 1..Len(queue[u]) : queue[u][j].write \in Write
        BY <2>1, <4>1, QueueFacts
      <4> QED
        BY <4>2 DEF Write
    <3>3. v \in Nat /\ queue[u][i + Gone(u)].write <= v
      BY <2>2 DEF Write, u
    <3> QED
      BY <2>2, <3>1, <3>2, <3>3
  <2>4. u = user => queue[u][1].write < v
    <3>1. u = user => 1 < i + Gone(u) /\ 1 \in 1..Len(queue[u])
      BY <2>1, <2>2, <1>3 DEF Gone
    <3>2. u = user => queue[u][1].write < queue[u][i + Gone(u)].write
      BY <2>1, <2>2, <3>1 DEF IInv, Ordered
    <3> QED
      BY <3>2, <2>3
  <2>5. answers'[v] = answers[v]
    <3> SUFFICES ASSUME answers'[v] # answers[v] PROVE FALSE
      OBVIOUS
    <3>1. v = queue[user][1].write /\ u = user
      BY <1>6 DEF u
    <3> QED
      BY <3>1, <2>3, <2>4
  <2>6. killed /\ \E j \in 1..Len(queue[u]) : queue[u][j].write = v
    BY <2>2, <2>3, <2>5 DEF IInv, Settled, u
  <2>7. PICK j \in 1..Len(queue[u]) : queue[u][j].write = v
    BY <2>6
  <2>8. u = user => j # 1
    BY <2>3, <2>4, <2>7
  <2>9. j - Gone(u) \in 1..Len(queue'[u]) /\ (j - Gone(u)) + Gone(u) = j
    BY <2>1, <2>8, <1>3 DEF Gone
  <2>10. queue'[u][j - Gone(u)].write = v
    BY <2>1, <2>7, <2>9, <1>3
  <2> QED
    BY <2>6, <2>9, <2>10 DEF u
<1> QED
  BY <1>1, <1>7, <1>8, <1>9, <1>10, <1>11, <1>12, <1>13

LEMMA MutationResultStep ==
  ASSUME IInv, OnWriteStreamMutationResult
  PROVE  IInv'
<1>1. /\ state = "Open" /\ down # <<>> /\ Head(down).ok
      /\ NotifyUser(Head(pipeline).id, "acked")
      /\ queue' = [queue EXCEPT ![user] = Without(queue[user], Head(pipeline))]
      /\ FillWritePipeline(Without(queue[user], Head(pipeline)), Tail(pipeline), state, up)
      /\ down' = Tail(down)
      /\ UNCHANGED <<user, nextId, owner, made, handshake, applied, refused, overtaken,
                     faults, killed>>
  BY DEF OnWriteStreamMutationResult, serverVars, faultVars
<1>2. /\ handshake /\ Head(down) = down[1] /\ Len(down) \in Nat /\ Len(down) >= 1
      /\ down[1].batch = queue[user][1]
      /\ Without(queue[user], Head(pipeline)) = Tail(queue[user])
  BY <1>1, FirstAnswer
<1>3. /\ queue' = [queue EXCEPT ![user] = Tail(queue[user])]
      /\ FillWritePipeline(Tail(queue[user]), Tail(pipeline), state, up)
  BY <1>1, <1>2
<1>4. queue[user][1].write \in applied
  <2>1. 1 \in 1..Len(down) /\ down[1].ok
    BY <1>1, <1>2
  <2>2. down[1].batch.write \in applied
    BY <2>1 DEF IInv, Wire
  <2> QED
    BY <2>2, <1>2
<1>5. /\ answers' \in [Write -> {"none", "acked", "rejected"}]
      /\ callbacks' \in [User -> SUBSET Batch]
      /\ Ordered' /\ Bounded' /\ Known' /\ CallbacksWait'
      /\ AnswersTrue' /\ InOrder' /\ Settled'
  BY <1>1, <1>3, <1>4, AnsweredStep
<1>6. /\ user \in User /\ queue' \in [User -> Seq(Batch)]
      /\ queue'[user] = Tail(queue[user])
      /\ Tail(queue[user]) \in Seq(Batch) /\ Ascending(Tail(queue[user]))
      /\ Tail(pipeline) \in Seq(Batch) /\ Heads(Tail(pipeline), Tail(queue[user]))
      /\ Len(Tail(pipeline)) = Len(pipeline) - 1 /\ Len(pipeline) \in Nat
      /\ \A i \in 1..Len(Tail(pipeline)) : Tail(pipeline)[i] = pipeline[i + 1]
  BY <1>1, <1>3, ShorterFacts
<1>7. /\ state \in States /\ up \in Seq(Batch) /\ down \in Seq(Reply)
      /\ handshake \in BOOLEAN /\ idle \in BOOLEAN
  BY DEF IInv, TypeOK
<1>8. /\ down' \in Seq(Reply) /\ Len(down') = Len(down) - 1
      /\ \A i \in 1..Len(down') : down'[i] = down[i + 1]
  BY <1>1, <1>7, HeadFacts
<1>9. /\ pipeline' \in Seq(Batch) /\ state' \in States /\ idle' \in BOOLEAN
      /\ up' \in Seq(Batch) /\ (state' = "Open" <=> state = "Open")
  BY <1>3, <1>6, <1>7, FilledFacts
<1>10. TypeOK'
  BY <1>1, <1>5, <1>6, <1>8, <1>9 DEF IInv, TypeOK
<1>11. Len(up) \in Nat
  BY <1>7, SeqFacts
<1>12. Correlated'
  <2>1. /\ Len(down) + Len(up) <= Len(pipeline)
        /\ \A i \in 1..Len(down) : down[i].batch = pipeline[i]
        /\ \A i \in 1..Len(up) : up[i] = pipeline[Len(down) + i]
        /\ state = "Open" /\ handshake => Len(down) + Len(up) = Len(pipeline)
    BY DEF IInv, Correlated
  <2>2. Len(down') + Len(up) <= Len(Tail(pipeline))
    <3> DEFINE a == Len(down)
               b == Len(up)
               c == Len(pipeline)
    <3>1. a \in Nat /\ b \in Nat /\ c \in Nat /\ a + b <= c
      BY <2>1, <1>2, <1>6, <1>11
    <3>2. (a - 1) + b <= c - 1
      <4> HIDE DEF a, b, c
      <4> QED
        BY <3>1
    <3> QED
      BY <3>2, <1>6, <1>8
  <2>3. ASSUME NEW i \in 1..Len(down') PROVE down'[i].batch = Tail(pipeline)[i]
    <3>1. i + 1 \in 1..Len(down) /\ i \in 1..Len(Tail(pipeline))
      BY <2>2, <1>2, <1>6, <1>8, <1>11
    <3> QED
      BY <3>1, <2>1, <1>6, <1>8
  <2>4. ASSUME NEW i \in 1..Len(up) PROVE up[i] = Tail(pipeline)[Len(down') + i]
    <3>1. Len(down') + i \in 1..Len(Tail(pipeline)) /\ (Len(down') + i) + 1 = Len(down) + i
      BY <2>2, <1>2, <1>6, <1>8, <1>11
    <3> QED
      BY <3>1, <2>1, <1>6
  <2>5. Matching(down', up, Tail(pipeline))
    BY <2>2, <2>3, <2>4 DEF Matching
  <2>6. state = "Open" /\ handshake => Len(down') + Len(up) = Len(Tail(pipeline))
    BY <2>1, <1>2, <1>6, <1>8, <1>11
  <2>7. queue'[user'] = Tail(queue[user]) /\ (handshake' => handshake)
    BY <1>1, <1>6
  <2> QED
    BY <2>5, <2>6, <2>7, <1>3, <1>6, <1>7, <1>8, FilledCorrelated
<1>13. Wire'
  <2>1. ASSUME NEW i \in 1..Len(down')
        PROVE  IF down'[i].ok THEN down'[i].batch.write \in applied'
               ELSE i = Len(down') /\ down'[i].batch.write \in refused'
    <3>1. i + 1 \in 1..Len(down) /\ (i + 1 = Len(down) => i = Len(down'))
      BY <1>2, <1>8
    <3>2. IF down[i + 1].ok THEN down[i + 1].batch.write \in applied
          ELSE i + 1 = Len(down) /\ down[i + 1].batch.write \in refused
      BY <3>1 DEF IInv, Wire
    <3> QED
      BY <3>1, <3>2, <1>1, <1>8
  <2>2. handshake' /\ state' = "Open"
    BY <1>1, <1>2, <1>9
  <2> QED
    BY <2>1, <2>2 DEF Wire
<1> QED
  BY <1>5, <1>10, <1>12, <1>13 DEF IInv

LEMMA WriteErrorStep ==
  ASSUME IInv, HandleWriteError
  PROVE  IInv'
<1>1. /\ handshake /\ down # <<>> /\ ~Last(down).ok
      /\ NotifyUser(Head(pipeline).id, "rejected")
      /\ queue' = [queue EXCEPT ![user] = Without(queue[user], Head(pipeline))]
      /\ FillWritePipeline(Without(queue[user], Head(pipeline)), Tail(pipeline), "Initial", <<>>)
      /\ overtaken' = (IF Len(down) = 1 THEN overtaken
                       ELSE overtaken \cup {Head(down).batch.write})
      /\ handshake' = FALSE /\ down' = <<>>
      /\ UNCHANGED <<user, nextId, owner, made, applied, refused, faults, killed>>
  BY DEF HandleWriteError, faultVars
<1>2. /\ Head(down) = down[1] /\ Len(down) \in Nat /\ Len(down) >= 1 /\ down[1] \in Reply
      /\ down[1].batch = queue[user][1]
      /\ Without(queue[user], Head(pipeline)) = Tail(queue[user])
  BY <1>1, FirstAnswer
<1>3. /\ queue' = [queue EXCEPT ![user] = Tail(queue[user])]
      /\ FillWritePipeline(Tail(queue[user]), Tail(pipeline), "Initial", <<>>)
  BY <1>1, <1>2
<1>4. queue[user][1].write \in refused \cup overtaken'
  <2>1. CASE Len(down) = 1
    <3>1. 1 \in 1..Len(down) /\ ~down[1].ok
      BY <2>1, <1>1 DEF Last
    <3>2. down[1].batch.write \in refused
      BY <3>1 DEF IInv, Wire
    <3> QED
      BY <3>2, <1>2
  <2>2. CASE Len(down) # 1
    BY <2>2, <1>1, <1>2
  <2> QED
    BY <2>1, <2>2
<1>5. overtaken \subseteq overtaken' /\ overtaken' \subseteq Write
  <2>1. Head(down).batch.write \in Write
    BY <1>2 DEF Reply, Batch
  <2> QED
    BY <2>1, <1>1 DEF IInv, TypeOK
<1>6. /\ answers' \in [Write -> {"none", "acked", "rejected"}]
      /\ callbacks' \in [User -> SUBSET Batch]
      /\ Ordered' /\ Bounded' /\ Known' /\ CallbacksWait'
      /\ AnswersTrue' /\ InOrder' /\ Settled'
  BY <1>1, <1>3, <1>4, <1>5, AnsweredStep
<1>7. /\ user \in User /\ queue' \in [User -> Seq(Batch)]
      /\ queue'[user] = Tail(queue[user])
      /\ Tail(queue[user]) \in Seq(Batch) /\ Ascending(Tail(queue[user]))
      /\ Tail(pipeline) \in Seq(Batch) /\ Heads(Tail(pipeline), Tail(queue[user]))
  BY <1>1, <1>3, ShorterFacts
<1>8. /\ "Initial" \in States /\ <<>> \in Seq(Batch) /\ down' \in Seq(Reply)
      /\ handshake \in BOOLEAN /\ idle \in BOOLEAN
  BY <1>1, EmptySeq DEF IInv, TypeOK, States
<1>9. /\ pipeline' \in Seq(Batch) /\ state' \in States /\ idle' \in BOOLEAN
      /\ up' = <<>>
  <2>1. /\ pipeline' \in Seq(Batch) /\ state' \in States /\ idle' \in BOOLEAN
        /\ ~ ("Initial" = "Open" /\ handshake) => up' = <<>>
    BY <1>3, <1>7, <1>8, FilledFacts
  <2> QED
    BY <2>1
<1>10. TypeOK'
  BY <1>1, <1>5, <1>6, <1>7, <1>8, <1>9 DEF IInv, TypeOK
<1>11. Correlated'
  <2>1. Matching(down', <<>>, Tail(pipeline))
    <3>1. Len(Tail(pipeline)) \in Nat /\ Len(down') = 0
      BY <1>1, <1>7, SeqFacts
    <3> QED
      BY <3>1 DEF Matching
  <2>2. ("Initial" = "Open" /\ handshake) => Len(down') + Len(<<>>) = Len(Tail(pipeline))
    OBVIOUS
  <2>3. queue'[user'] = Tail(queue[user]) /\ (handshake' => handshake)
    BY <1>1, <1>7
  <2> QED
    BY <2>1, <2>2, <2>3, <1>3, <1>7, <1>8, FilledCorrelated
<1>12. Wire'
  BY <1>1, <1>9 DEF Wire
<1> QED
  BY <1>6, <1>10, <1>11, <1>12 DEF IInv

-----------------------------------------------------------------------------
(* The theorems. *)

LEMMA InitIInv == Init => IInv
<1> SUFFICES ASSUME Init PROVE IInv
  OBVIOUS
<1>1. /\ user \in User
      /\ queue = [u \in User |-> <<>>]
      /\ nextId = 1
      /\ callbacks = [u \in User |-> {}]
      /\ answers = [w \in Write |-> "none"]
      /\ pipeline = <<>> /\ state = "Initial" /\ handshake = FALSE /\ idle = FALSE
      /\ up = <<>> /\ down = <<>>
      /\ applied = {} /\ refused = {} /\ overtaken = {}
      /\ owner = [w \in Write |-> user]
      /\ made = 0 /\ faults = 0 /\ killed = FALSE
  BY DEF Init
<1>2. \A u \in User : queue[u] = <<>> /\ Len(queue[u]) = 0
  BY <1>1
<1>3. Len(pipeline) = 0 /\ Len(up) = 0 /\ Len(down) = 0
  BY <1>1
<1>4. TypeOK
  <2>1. /\ queue \in [User -> Seq(Batch)] /\ pipeline \in Seq(Batch)
        /\ up \in Seq(Batch) /\ down \in Seq(Reply)
    BY <1>1, EmptySeq
  <2>2. made \in 0..MaxWrites /\ nextId \in Nat \ {0} /\ faults \in Nat
    BY <1>1, LimitsAssumption
  <2> QED
    BY <1>1, <2>1, <2>2 DEF TypeOK, States
<1>5. Correlated
  BY <1>1, <1>2, <1>3 DEF Correlated
<1>6. Ordered /\ Bounded /\ InOrder
  BY <1>2 DEF Ordered, Bounded, InOrder
<1>7. Known /\ AnswersTrue /\ Settled
  BY <1>1 DEF Known, AnswersTrue, Settled
<1>8. Wire
  BY <1>1, <1>3 DEF Wire
<1>9. CallbacksWait
  BY <1>1 DEF CallbacksWait
<1> QED
  BY <1>4, <1>5, <1>6, <1>7, <1>8, <1>9 DEF IInv

LEMMA NextIInv == IInv /\ [Next]_vars => IInv'
<1> SUFFICES ASSUME IInv, [Next]_vars PROVE IInv'
  OBVIOUS
<1>1. CASE WriteMutations
  BY <1>1, WriteMutationsStep
<1>2. CASE Stream
  BY <1>2, OnStreamStartStep, HandshakeStep, MutationResultStep, WriteErrorStep,
     BackoffElapsedStep, IdleTimeoutStep DEF Stream
<1>3. CASE Faults
  BY <1>3, StreamBreaksStep, ConnectivityStep, CredentialStep, ProcessRestartStep DEF Faults
<1>4. CASE Server
  BY <1>4, ServerAppliesStep, ServerRefusesStep DEF Server
<1>5. CASE UNCHANGED vars
  <2>1. UNCHANGED <<user, queue, nextId, callbacks, answers, pipeline, state, handshake,
                    idle, up, down, applied, refused, overtaken, owner, made, faults, killed>>
    BY <1>5 DEF vars, appVars, diskVars, streamVars, wireVars, serverVars, faultVars
  <2>2. TypeOK'
    BY <2>1 DEF IInv, TypeOK
  <2>3. Correlated' /\ Wire'
    BY <2>1 DEF IInv, Correlated, Wire
  <2> QED
    BY <2>1, <2>2, <2>3, QuietStep DEF IInv, appVars, diskVars, serverVars
<1> QED
  BY <1>1, <1>2, <1>3, <1>4, <1>5 DEF Next

LEMMA AlwaysIInv == Spec => []IInv
<1>1. Init => IInv
  BY InitIInv
<1>2. IInv /\ [Next]_vars => IInv'
  BY NextIInv
<1> QED
  BY <1>1, <1>2, PTL DEF Spec

\* Every variable keeps its type; ids counted anew from the disk are ids
\* (leveldb_mutation_queue.cc:58-139).
THEOREM TypeCorrect == Spec => []TypeOK
<1>1. IInv => TypeOK
  BY DEF IInv
<1> QED
  BY <1>1, AlwaysIInv, PTL

\* An answer without an id is always given to the batch it is about
\* (remote_store.cc:457-475).
THEOREM AnswersMeetTheirBatch == Spec => []Correlated
<1>1. IInv => Correlated
  BY DEF IInv
<1> QED
  BY <1>1, AlwaysIInv, PTL

\* No callback outlives its batch to be called for another one
\* (sync_engine.cc:466-481, leveldb_mutation_queue.cc:58-139).
THEOREM NoStrayCallback == Spec => []CallbacksWait
<1>1. IInv => CallbacksWait
  BY DEF IInv
<1> QED
  BY <1>1, AlwaysIInv, PTL

\* The app is told what the server did, but for a write whose answer was overtaken by
\* the error about a later one (sync_engine.cc:389-426, grpc_stream.cc:312-323).
THEOREM AppToldTheTruth == Spec => []AnswersTrue
<1>1. IInv => AnswersTrue
  BY DEF IInv
<1> QED
  BY <1>1, AlwaysIInv, PTL

\* No write of a user reaches the server before an earlier one that still waits
\* (remote_store.cc:395-455).
THEOREM AppliedInOrder == Spec => []InOrder
<1>1. IInv => InOrder
  BY DEF IInv
<1> QED
  BY <1>1, AlwaysIInv, PTL

\* Nothing the app has an answer for is sent again, unless a kill came between the
\* answer and the disk (sync_engine.cc:389-403).
THEOREM AnswersAreFinal == Spec => []AnsweredIsFinal
<1>1. IInv => AnsweredIsFinal
  <2> SUFFICES ASSUME IInv, NEW i \in 1..Len(up), NEW v \in Write,
                      v >= up[i].write, owner[v] = user, answers[v] # "none"
               PROVE  killed /\ \E j \in 1..Len(queue[user]) : queue[user][j].write = v
    BY DEF AnsweredIsFinal
  <2>1. /\ Len(up) \in Nat /\ Len(down) \in Nat /\ Len(pipeline) \in Nat
        /\ Len(queue[user]) \in Nat
    BY SeqFacts DEF IInv, TypeOK
  <2>2. /\ Len(pipeline) <= Len(queue[user])
        /\ Len(down) + Len(up) <= Len(pipeline)
        /\ up[i] = pipeline[Len(down) + i]
        /\ \A k \in 1..Len(pipeline) : pipeline[k] = queue[user][k]
    BY DEF IInv, Correlated
  <2>3. Len(down) + i \in 1..Len(pipeline) /\ Len(down) + i \in 1..Len(queue[user])
    BY <2>1, <2>2
  <2>4. queue[user][Len(down) + i].write <= v
    <3>1. queue[user][Len(down) + i] = up[i]
      BY <2>2, <2>3
    <3>2. queue[user][Len(down) + i].write \in Nat /\ v \in Nat
      BY <2>3, QueueFacts DEF IInv, TypeOK, Write
    <3> QED
      BY <3>1, <3>2
  <2> QED
    BY <2>3, <2>4 DEF IInv, Settled
<1> QED
  BY <1>1, AlwaysIInv, PTL

-----------------------------------------------------------------------------
(* The refinement: every step is the contract's Put, Apply, Accept, Refuse or *)
(* Reconnect for the user it concerns and changes nothing for the others.     *)

LEMMA WritesFacts ==
  ASSUME NEW q \in Seq(Batch)
  PROVE  /\ WritesOf(q) \in Seq(Write)
         /\ Len(WritesOf(q)) = Len(q) /\ Len(q) \in Nat
         /\ \A i \in 1..Len(q) : WritesOf(q)[i] = q[i].write /\ q[i].write \in Write
<1>1. Len(q) \in Nat /\ \A i \in 1..Len(q) : q[i] \in Batch
  BY SeqFacts
<1>2. \A i \in 1..Len(q) : q[i].write \in Write
  BY <1>1 DEF Batch
<1>3. WritesOf(q) \in [1..Len(q) -> Write] /\ \A i \in 1..Len(q) : WritesOf(q)[i] = q[i].write
  BY <1>2 DEF WritesOf
<1> HIDE DEF WritesOf
<1>4. WritesOf(q) \in Seq(Write)
  BY <1>1, <1>3, SeqDef
<1>5. Len(WritesOf(q)) = Len(q)
  <2>1. Len(WritesOf(q)) \in Nat /\ 1..Len(WritesOf(q)) = 1..Len(q)
    BY <1>3, <1>4, LenProperties
  <2> DEFINE m == Len(WritesOf(q))
             n == Len(q)
  <2>2. m \in Nat /\ n \in Nat /\ 1..m = 1..n
    BY <2>1, <1>1
  <2> HIDE DEF m, n
  <2>3. m = n
    <3>1. m > 0 => m \in 1..n
      BY <2>2
    <3>2. n > 0 => n \in 1..m
      BY <2>2
    <3> QED
      BY <2>2, <3>1, <3>2
  <2> QED
    BY <2>3 DEF m, n
<1> QED
  BY <1>1, <1>2, <1>3, <1>4, <1>5

LEMMA WritesOfTail ==
  ASSUME NEW q \in Seq(Batch), q # <<>>
  PROVE  WritesOf(Tail(q)) = Tail(WritesOf(q))
<1>1. /\ Tail(q) \in Seq(Batch) /\ Len(Tail(q)) = Len(q) - 1
      /\ \A i \in 1..Len(Tail(q)) : Tail(q)[i] = q[i + 1]
      /\ Len(q) \in Nat /\ Len(q) >= 1
  BY HeadFacts
<1>2. /\ WritesOf(q) \in Seq(Write) /\ Len(WritesOf(q)) = Len(q)
      /\ \A i \in 1..Len(q) : WritesOf(q)[i] = q[i].write
  BY WritesFacts
<1>3. /\ WritesOf(Tail(q)) \in Seq(Write) /\ Len(WritesOf(Tail(q))) = Len(Tail(q))
      /\ \A i \in 1..Len(Tail(q)) : WritesOf(Tail(q))[i] = Tail(q)[i].write
  BY <1>1, WritesFacts
<1>4. WritesOf(q) # <<>>
  BY <1>1, <1>2, EmptySeq
<1>5. /\ Tail(WritesOf(q)) \in Seq(Write) /\ Len(Tail(WritesOf(q))) = Len(q) - 1
      /\ \A i \in 1..Len(Tail(WritesOf(q))) : Tail(WritesOf(q))[i] = WritesOf(q)[i + 1]
  BY <1>2, <1>4, HeadFacts
<1>6. ASSUME NEW i \in 1..Len(Tail(q)) PROVE WritesOf(Tail(q))[i] = Tail(WritesOf(q))[i]
  <2>1. i + 1 \in 1..Len(q) /\ i \in 1..Len(Tail(WritesOf(q)))
    BY <1>1, <1>5
  <2> QED
    BY <2>1, <1>1, <1>2, <1>3, <1>5
<1> QED
  BY <1>1, <1>3, <1>5, <1>6, SeqEqual

LEMMA WritesOfAppend ==
  ASSUME NEW q \in Seq(Batch), NEW b \in Batch
  PROVE  WritesOf(Append(q, b)) = Append(WritesOf(q), b.write)
<1>1. /\ Append(q, b) \in Seq(Batch) /\ Len(Append(q, b)) = Len(q) + 1
      /\ \A i \in 1..Len(q) : Append(q, b)[i] = q[i]
      /\ Append(q, b)[Len(q) + 1] = b
  BY AppendProperties
<1>2. /\ WritesOf(q) \in Seq(Write) /\ Len(WritesOf(q)) = Len(q) /\ Len(q) \in Nat
      /\ \A i \in 1..Len(q) : WritesOf(q)[i] = q[i].write
  BY WritesFacts
<1>3. /\ WritesOf(Append(q, b)) \in Seq(Write)
      /\ Len(WritesOf(Append(q, b))) = Len(Append(q, b))
      /\ \A i \in 1..Len(Append(q, b)) : WritesOf(Append(q, b))[i] = Append(q, b)[i].write
  BY <1>1, WritesFacts
<1>4. b.write \in Write
  BY DEF Batch
<1>5. /\ Append(WritesOf(q), b.write) \in Seq(Write)
      /\ Len(Append(WritesOf(q), b.write)) = Len(q) + 1
      /\ \A i \in 1..Len(q) : Append(WritesOf(q), b.write)[i] = WritesOf(q)[i]
      /\ Append(WritesOf(q), b.write)[Len(q) + 1] = b.write
  BY <1>2, <1>4, AppendProperties
<1>6. ASSUME NEW i \in 1..Len(q) + 1
      PROVE  WritesOf(Append(q, b))[i] = Append(WritesOf(q), b.write)[i]
  <2>1. CASE i \in 1..Len(q)
    BY <2>1, <1>1, <1>2, <1>3, <1>5
  <2>2. CASE i \notin 1..Len(q)
    <3>1. i = Len(q) + 1
      BY <2>2, <1>2
    <3> QED
      BY <3>1, <1>1, <1>2, <1>3, <1>5
  <2> QED
    BY <2>1, <2>2
<1> QED
  BY <1>1, <1>3, <1>5, <1>6, SeqEqual

\* The accepted answers are those before a refusal, and they come first.
LEMMA AcceptedFacts ==
  ASSUME IInv
  PROVE  /\ Accepted(down) \in 0..Len(down) /\ Len(down) \in Nat
         /\ \A i \in 1..Accepted(down) : down[i].ok
         /\ (\A i \in 1..Len(down) : down[i].ok) => Accepted(down) = Len(down)
         /\ down # <<>> /\ ~Last(down).ok => Accepted(down) = Len(down) - 1
<1>1. down \in Seq(Reply)
  BY DEF IInv, TypeOK
<1>2. Len(down) \in Nat /\ (down = <<>> <=> Len(down) = 0)
  BY <1>1, SeqFacts
<1>3. Last(down) = down[Len(down)]
  BY DEF Last
<1>4. \A i \in 1..Len(down) : ~down[i].ok => i = Len(down)
  BY DEF IInv, Wire
<1>5. CASE down = <<>>
  BY <1>2, <1>5 DEF Accepted
<1>6. CASE down # <<>> /\ Last(down).ok
  <2>1. Accepted(down) = Len(down)
    BY <1>6 DEF Accepted
  <2> QED
    BY <2>1, <1>2, <1>3, <1>4, <1>6
<1>7. CASE down # <<>> /\ ~Last(down).ok
  <2>1. Accepted(down) = Len(down) - 1
    BY <1>7 DEF Accepted
  <2>2. Len(down) \in 1..Len(down)
    BY <1>2, <1>7
  <2> QED
    BY <2>1, <2>2, <1>2, <1>3, <1>4, <1>7
<1> QED
  BY <1>5, <1>6, <1>7

\* The observed queue: its writes are the observed user's, what is taken is applied.
LEMMA TheQueueFacts ==
  ASSUME IInv
  PROVE  /\ queue[Observed] \in Seq(Batch)
         /\ theQueue \in Seq(Write) /\ Len(theQueue) = Len(queue[Observed])
         /\ Len(theQueue) \in Nat
         /\ \A i \in 1..Len(theQueue) :
              /\ theQueue[i] = queue[Observed][i].write
              /\ theQueue[i] \in Write
              /\ owner[theQueue[i]] = Observed
         /\ theTaken \in 0..Len(theQueue)
         /\ \A i \in 1..theTaken : theQueue[i] \in theApplied
<1>1. queue[Observed] \in Seq(Batch)
  BY ObservedAssumption DEF IInv, TypeOK
<1>2. /\ theQueue \in Seq(Write) /\ Len(theQueue) = Len(queue[Observed])
      /\ Len(theQueue) \in Nat
      /\ \A i \in 1..Len(theQueue) :
           theQueue[i] = queue[Observed][i].write /\ theQueue[i] \in Write
  BY <1>1, WritesFacts DEF theQueue
<1>3. \A i \in 1..Len(theQueue) : owner[theQueue[i]] = Observed
  BY <1>2, ObservedAssumption DEF IInv, Bounded
<1>4. CASE Observed # user
  <2>1. theTaken = 0
    BY <1>4 DEF theTaken
  <2> QED
    BY <2>1, <1>1, <1>2, <1>3
<1>5. CASE Observed = user
  <2>1. theTaken = Accepted(down)
    BY <1>5 DEF theTaken
  <2>2. /\ theTaken \in 0..Len(down) /\ Len(down) \in Nat
        /\ \A i \in 1..theTaken : down[i].ok
    BY <2>1, AcceptedFacts
  <2>3. Len(up) \in Nat /\ Len(pipeline) \in Nat
    BY SeqFacts DEF IInv, TypeOK
  <2>4. /\ Len(pipeline) <= Len(queue[Observed])
        /\ Len(down) + Len(up) <= Len(pipeline)
        /\ \A i \in 1..Len(down) : down[i].batch = pipeline[i]
        /\ \A i \in 1..Len(pipeline) : pipeline[i] = queue[Observed][i]
    BY <1>5 DEF IInv, Correlated
  <2>5. theTaken \in 0..Len(theQueue)
    BY <2>2, <2>3, <2>4, <1>2
  <2>6. ASSUME NEW i \in 1..theTaken PROVE theQueue[i] \in theApplied
    <3>1. i \in 1..Len(down) /\ i \in 1..Len(pipeline) /\ i \in 1..Len(theQueue)
      BY <2>2, <2>3, <2>4, <2>5, <1>2
    <3>2. down[i].batch.write \in applied
      BY <3>1, <2>2 DEF IInv, Wire
    <3>3. down[i].batch = queue[Observed][i]
      BY <3>1, <2>4
    <3>4. theQueue[i] \in applied
      BY <3>1, <3>2, <3>3, <1>2
    <3> QED
      BY <3>1, <3>4, <1>3 DEF theApplied
  <2> QED
    BY <2>5, <2>6, <1>1, <1>2, <1>3
<1> QED
  BY <1>4, <1>5

-----------------------------------------------------------------------------
(* The steps. *)

\* Where the observed queue is untouched the contract sees nothing.
LEMMA Unseen ==
  ASSUME IInv, UNCHANGED <<user, queue, owner, applied>>,
         Observed = user => Accepted(down') = Accepted(down)
  PROVE  UNCHANGED Queue!queueVars
<1>1. theQueue' = theQueue
  BY DEF theQueue, WritesOf
<1>2. theTaken' = theTaken
  BY DEF theTaken, Accepted
<1>3. theApplied' = theApplied
  BY DEF theApplied
<1> QED
  BY <1>1, <1>2, <1>3 DEF Queue!queueVars

\* A stream given up, whoever is signed in afterwards.
LEMMA GivenUpReconnects ==
  ASSUME IInv, StreamEnds, UNCHANGED <<queue, owner>>
  PROVE  Queue!Reconnect \/ UNCHANGED Queue!queueVars
<1>1. PICK k \in 0..Len(up) :
        /\ k > 0 => \A i \in 1..Len(down) : down[i].ok
        /\ applied' = applied \cup {up[i].write : i \in 1..k}
  BY DEF StreamEnds
<1>2. theQueue' = theQueue
  BY DEF theQueue, WritesOf
<1>3. theTaken' = 0
  <2>1. down' = <<>> /\ Len(down') = 0
    BY DEF StreamEnds
  <2> QED
    BY <2>1 DEF theTaken, Accepted
<1>4. /\ Len(theQueue) = Len(queue[Observed]) /\ Len(theQueue) \in Nat
      /\ \A i \in 1..Len(theQueue) :
           theQueue[i] = queue[Observed][i].write /\ owner[theQueue[i]] = Observed
      /\ theTaken \in 0..Len(theQueue)
      /\ \A i \in 1..theTaken : theQueue[i] \in theApplied
  BY TheQueueFacts
<1>5. /\ Len(up) \in Nat /\ Len(pipeline) \in Nat /\ Len(down) \in Nat
      /\ user \in User /\ Len(queue[user]) \in Nat
  BY SeqFacts DEF IInv, TypeOK
<1>6. ASSUME NEW i \in 1..Len(up)
      PROVE  Len(down) + i \in 1..Len(queue[user]) /\ up[i] = queue[user][Len(down) + i]
  <2>1. /\ Len(pipeline) <= Len(queue[user]) /\ Len(down) + Len(up) <= Len(pipeline)
        /\ \A j \in 1..Len(pipeline) : pipeline[j] = queue[user][j]
        /\ up[i] = pipeline[Len(down) + i]
    BY DEF IInv, Correlated
  <2>2. Len(down) + i \in 1..Len(pipeline) /\ Len(down) + i \in 1..Len(queue[user])
    BY <2>1, <1>5
  <2> QED
    BY <2>1, <2>2
<1>7. \A i \in 1..k : i \in 1..Len(up)
  BY <1>5
<1>8. CASE Observed # user
  <2>1. theTaken = 0
    BY <1>8 DEF theTaken
  <2>2. \A i \in 1..k : owner[up[i].write] = user
    <3> SUFFICES ASSUME NEW i \in 1..k PROVE owner[up[i].write] = user
      OBVIOUS
    <3>1. Len(down) + i \in 1..Len(queue[user]) /\ up[i] = queue[user][Len(down) + i]
      BY <1>6, <1>7
    <3>2. \A j \in 1..Len(queue[user]) : owner[queue[user][j].write] = user
      BY <1>5 DEF IInv, Bounded
    <3> QED
      BY <3>1, <3>2
  <2>3. applied \subseteq applied' /\ \A w \in applied' : w \in applied \/ owner[w] # Observed
    BY <2>2, <1>1, <1>8
  <2>4. theApplied' = theApplied
    BY <2>3 DEF theApplied
  <2> QED
    BY <2>1, <2>4, <1>2, <1>3 DEF Queue!queueVars
<1>9. CASE Observed = user
  <2>1. theTaken = Accepted(down) /\ (k > 0 => theTaken = Len(down))
    BY <1>1, <1>9, AcceptedFacts DEF theTaken
  <2> DEFINE K == theTaken + k
  <2>2. K \in theTaken..Len(theQueue)
    <3>1. CASE k > 0
      <4>1. Len(down) + k \in 1..Len(queue[user])
        BY <3>1, <1>6, <1>7, <1>5
      <4> QED
        BY <3>1, <4>1, <2>1, <1>4, <1>5, <1>9
    <3>2. CASE k = 0
      BY <3>2, <1>4
    <3> QED
      BY <3>1, <3>2
  <2>3. ASSUME NEW w \in theApplied'
        PROVE  w \in theApplied \cup {theQueue[i] : i \in 1..K}
    <3>1. w \in applied' /\ owner[w] = Observed
      BY <2>3 DEF theApplied
    <3>2. CASE w \in applied
      BY <3>1, <3>2 DEF theApplied
    <3>3. CASE w \notin applied
      <4>1. PICK m \in 1..k : w = up[m].write
        BY <3>1, <3>3, <1>1
      <4>2. m \in 1..Len(up) /\ k > 0
        BY <4>1, <1>7
      <4>3. Len(down) + m \in 1..Len(queue[user]) /\ up[m] = queue[user][Len(down) + m]
        BY <4>2, <1>6
      <4>4. Len(down) + m \in 1..K
        BY <4>1, <4>2, <2>1, <1>5
      <4>5. theQueue[Len(down) + m] = w
        BY <4>1, <4>3, <1>4, <1>9
      <4> QED
        BY <4>4, <4>5
    <3> QED
      BY <3>2, <3>3
  <2>4. ASSUME NEW i \in 1..K PROVE theQueue[i] \in theApplied'
    <3>1. i \in 1..Len(theQueue) /\ theTaken \in Nat
      BY <2>2, <1>4
    <3>2. CASE i <= theTaken
      <4>1. theQueue[i] \in theApplied
        BY <3>1, <3>2, <1>4
      <4> QED
        BY <4>1, <1>1 DEF theApplied
    <3>3. CASE ~ (i <= theTaken)
      <4>1. k > 0 /\ i - Len(down) \in 1..k /\ Len(down) + (i - Len(down)) = i
        BY <3>1, <3>3, <2>1, <1>5
      <4>2. up[i - Len(down)] = queue[user][i]
        BY <4>1, <1>6, <1>7
      <4>3. up[i - Len(down)].write \in applied'
        BY <4>1, <1>1
      <4>4. theQueue[i] = up[i - Len(down)].write
        BY <4>2, <3>1, <1>4, <1>9
      <4> QED
        BY <3>1, <4>3, <4>4, <1>4 DEF theApplied
    <3> QED
      BY <3>2, <3>3
  <2>5. theApplied \subseteq theApplied'
    BY <1>1 DEF theApplied
  <2>6. theApplied' = theApplied \cup {theQueue[i] : i \in 1..K}
    BY <2>3, <2>4, <2>5
  <2> HIDE DEF K
  <2> QED
    BY <2>2, <2>6, <1>2, <1>3 DEF Queue!Reconnect
<1> QED
  BY <1>8, <1>9

LEMMA WriteMutationsPuts ==
  ASSUME IInv, WriteMutations
  PROVE  Queue!Put \/ UNCHANGED Queue!queueVars
<1>1. /\ owner' = [owner EXCEPT ![made + 1] = user]
      /\ UNCHANGED <<user, down, applied>>
  BY DEF WriteMutations, serverVars
<1>2. /\ user \in User /\ made \in Nat /\ made + 1 \in Write /\ NewBatch \in Batch
      /\ queue'[user] = Longer
      /\ \A u \in User \ {user} : queue'[u] = queue[u]
  BY LongerFacts
<1>3. theTaken' = theTaken
  BY <1>1 DEF theTaken, Accepted
<1>4. theApplied' = theApplied
  <2>1. \A w \in applied : w \in Write /\ w # made + 1
    BY <1>2 DEF IInv, TypeOK, Known, Write
  <2>2. \A w \in applied : owner'[w] = owner[w]
    BY <2>1, <1>1 DEF IInv, TypeOK
  <2> QED
    BY <2>2, <1>1 DEF theApplied
<1>5. CASE Observed # user
  <2>1. theQueue' = theQueue
    BY <1>2, <1>5, ObservedAssumption DEF theQueue, WritesOf
  <2> QED
    BY <2>1, <1>3, <1>4 DEF Queue!queueVars
<1>6. CASE Observed = user
  <2>1. queue[user] \in Seq(Batch) /\ NewBatch.write = made + 1
    BY <1>2 DEF IInv, TypeOK, NewBatch
  <2>2. theQueue' = Append(theQueue, made + 1)
    <3>1. theQueue' = WritesOf(Longer)
      BY <1>2, <1>6 DEF theQueue, WritesOf
    <3>2. WritesOf(Longer) = Append(WritesOf(queue[user]), NewBatch.write)
      BY <2>1, <1>2, WritesOfAppend DEF Longer
    <3> QED
      BY <3>1, <3>2, <2>1, <1>6 DEF theQueue
  <2>3. made + 1 \notin ToSet(theQueue)
    <3> SUFFICES ASSUME made + 1 \in ToSet(theQueue) PROVE FALSE
      OBVIOUS
    <3>1. theQueue \in Seq(Write)
      BY TheQueueFacts
    <3>2. PICK i \in 1..Len(theQueue) : theQueue[i] = made + 1
      BY <3>1, ToSetFacts
    <3>3. theQueue[i] = queue[user][i].write /\ i \in 1..Len(queue[user])
      BY <3>2, <1>6, TheQueueFacts
    <3>4. queue[user][i].write <= made
      BY <3>3, <1>2 DEF IInv, Bounded
    <3> QED
      BY <3>2, <3>3, <3>4, <1>2
  <2>4. made + 1 \notin Queue!ToSet(theQueue)
    BY <2>3 DEF ToSet, Queue!ToSet
  <2> QED
    BY <2>2, <2>4, <1>2, <1>3, <1>4 DEF Queue!Put
<1> QED
  BY <1>5, <1>6

LEMMA MutationResultAccepts ==
  ASSUME IInv, OnWriteStreamMutationResult
  PROVE  Queue!Accept \/ UNCHANGED Queue!queueVars
<1>1. /\ down # <<>> /\ Head(down).ok /\ down' = Tail(down)
      /\ queue' = [queue EXCEPT ![user] = Without(queue[user], Head(pipeline))]
      /\ UNCHANGED <<user, owner, applied>>
  BY DEF OnWriteStreamMutationResult, serverVars
<1>2. /\ Head(down) = down[1] /\ Len(down) \in Nat /\ Len(down) >= 1
      /\ Len(queue[user]) \in Nat /\ Len(queue[user]) >= 1
      /\ Without(queue[user], Head(pipeline)) = Tail(queue[user])
  BY <1>1, FirstAnswer
<1>3. /\ user \in User /\ queue \in [User -> Seq(Batch)] /\ down \in Seq(Reply)
  BY DEF IInv, TypeOK
<1>4. theApplied' = theApplied
  BY <1>1 DEF theApplied
<1>5. CASE Observed # user
  <2>1. theQueue' = theQueue
    BY <1>1, <1>3, <1>5, ObservedAssumption DEF theQueue, WritesOf
  <2>2. theTaken' = theTaken
    BY <1>1, <1>5 DEF theTaken
  <2> QED
    BY <2>1, <2>2, <1>4 DEF Queue!queueVars
<1>6. CASE Observed = user
  <2>1. queue[user] \in Seq(Batch) /\ queue[user] # <<>>
    BY <1>2, <1>3, SeqFacts
  <2>2. theQueue' = Tail(theQueue)
    <3>1. queue'[user] = Tail(queue[user])
      BY <1>1, <1>2, <1>3
    <3>2. theQueue' = WritesOf(Tail(queue[user]))
      BY <3>1, <1>6 DEF theQueue
    <3> QED
      BY <3>2, <2>1, <1>6, WritesOfTail DEF theQueue
  <2>3. /\ Len(Tail(down)) = Len(down) - 1 /\ Tail(down) \in Seq(Reply)
        /\ \A i \in 1..Len(Tail(down)) : Tail(down)[i] = down[i + 1]
    BY <1>1, <1>3, HeadFacts
  <2>4. theTaken = Accepted(down) /\ theTaken' = Accepted(Tail(down))
    BY <1>1, <1>6 DEF theTaken, Accepted
  <2>5. Accepted(down) > 0 /\ Accepted(Tail(down)) = Accepted(down) - 1
    <3>1. CASE Len(down) = 1
      <4>1. Tail(down) = <<>> /\ Len(Tail(down)) = 0
        BY <3>1, <2>3, SeqFacts
      <4>2. Last(down) = down[1]
        BY <3>1 DEF Last
      <4>3. Accepted(down) = 1
        BY <3>1, <4>2, <1>1, <1>2 DEF Accepted
      <4>4. Accepted(Tail(down)) = 0
        BY <4>1 DEF Accepted
      <4> QED
        BY <4>3, <4>4
    <3>2. CASE Len(down) # 1
      <4>1. Len(Tail(down)) \in 1..Len(Tail(down)) /\ Len(Tail(down)) + 1 = Len(down)
        BY <3>2, <2>3, <1>2
      <4>2. Tail(down) # <<>>
        BY <4>1, <2>3, <1>2, EmptySeq
      <4>3. Last(Tail(down)) = Last(down)
        BY <4>1, <2>3 DEF Last
      <4>4. /\ Accepted(down) = (IF Last(down).ok THEN Len(down) ELSE Len(down) - 1)
            /\ Accepted(Tail(down)) = (IF Last(down).ok THEN Len(Tail(down)) ELSE Len(Tail(down)) - 1)
        BY <4>2, <4>3, <1>1 DEF Accepted
      <4> QED
        BY <4>4, <3>2, <2>3, <1>2
    <3> QED
      BY <3>1, <3>2
  <2> QED
    BY <2>2, <2>4, <2>5, <1>4 DEF Queue!Accept
<1> QED
  BY <1>5, <1>6

LEMMA WriteErrorRefuses ==
  ASSUME IInv, HandleWriteError
  PROVE  Queue!Refuse \/ UNCHANGED Queue!queueVars
<1>1. /\ down # <<>> /\ ~Last(down).ok /\ down' = <<>> /\ (Len(down) = 1 \/ up # <<>>)
      /\ queue' = [queue EXCEPT ![user] = Without(queue[user], Head(pipeline))]
      /\ UNCHANGED <<user, owner, applied>>
  BY DEF HandleWriteError
<1>2. /\ Len(down) \in Nat /\ Len(down) >= 1
      /\ Len(queue[user]) \in Nat /\ Len(queue[user]) >= 1
      /\ Len(pipeline) \in Nat
      /\ Without(queue[user], Head(pipeline)) = Tail(queue[user])
  BY <1>1, FirstAnswer
<1>3. /\ user \in User /\ queue \in [User -> Seq(Batch)] /\ up \in Seq(Batch)
  BY DEF IInv, TypeOK
<1>4. theApplied' = theApplied
  BY <1>1 DEF theApplied
<1>5. theTaken' = 0
  <2>1. Len(down') = 0
    BY <1>1
  <2> QED
    BY <2>1, <1>1 DEF theTaken, Accepted
<1>6. CASE Observed # user
  <2>1. theQueue' = theQueue
    BY <1>1, <1>3, <1>6, ObservedAssumption DEF theQueue, WritesOf
  <2>2. theTaken = 0
    BY <1>6 DEF theTaken
  <2> QED
    BY <2>1, <2>2, <1>4, <1>5 DEF Queue!queueVars
<1>7. CASE Observed = user
  <2>1. queue[user] \in Seq(Batch) /\ queue[user] # <<>>
    BY <1>2, <1>3, SeqFacts
  <2>2. theQueue' = Tail(theQueue)
    <3>1. queue'[user] = Tail(queue[user])
      BY <1>1, <1>2, <1>3
    <3>2. theQueue' = WritesOf(Tail(queue[user]))
      BY <3>1, <1>1, <1>7 DEF theQueue
    <3> QED
      BY <3>2, <2>1, <1>7, WritesOfTail DEF theQueue
  <2>3. Len(theQueue) = Len(queue[user]) /\ theQueue \in Seq(Write)
    BY <1>7, TheQueueFacts
  <2>4. theQueue # <<>>
    BY <2>3, <1>2, SeqFacts
  <2>5. theTaken = Len(down) - 1
    BY <1>1, <1>7, AcceptedFacts DEF theTaken
  <2>6. theTaken = 0 \/ theTaken + 1 < Len(theQueue)
    <3>1. CASE Len(down) = 1
      BY <3>1, <2>5
    <3>2. CASE up # <<>>
      <4>1. /\ Len(up) \in Nat /\ Len(up) # 0
        BY <3>2, <1>3, SeqFacts
      <4>2. Len(down) + Len(up) <= Len(pipeline) /\ Len(pipeline) <= Len(queue[user])
        BY DEF IInv, Correlated
      <4> DEFINE a == Len(down)
                 b == Len(up)
                 c == Len(pipeline)
                 d == Len(queue[user])
      <4>3. a \in Nat /\ b \in Nat /\ c \in Nat /\ d \in Nat /\ b # 0 /\ a + b <= c /\ c <= d
        BY <4>1, <4>2, <1>2
      <4>4. (a - 1) + 1 < d
        <5> HIDE DEF a, b, c, d
        <5> QED
          BY <4>3
      <4> QED
        BY <4>4, <2>3, <2>5
    <3> QED
      BY <3>1, <3>2, <1>1
  <2> QED
    BY <2>2, <2>4, <2>6, <1>4, <1>5 DEF Queue!Refuse
<1> QED
  BY <1>6, <1>7

LEMMA ServerAppliesApplies ==
  ASSUME IInv, ServerApplies
  PROVE  Queue!Apply \/ UNCHANGED Queue!queueVars
<1>1. /\ Reads(TRUE) /\ applied' = applied \cup {Head(up).write}
      /\ UNCHANGED <<user, owner, queue>>
  BY DEF ServerApplies, Reads, appVars, diskVars
<1>2. /\ up # <<>> /\ Head(up) = up[1] /\ 1 \in 0..Len(up)
      /\ \A i \in 1..Len(down) : down[i].ok
      /\ Len(down') = Len(down) + 1 /\ Len(down) \in Nat
      /\ down'[Len(down) + 1] = [batch |-> Head(up), ok |-> TRUE]
      /\ down' \in Seq(Reply)
  BY <1>1, ReadsFacts
<1>3. theQueue' = theQueue
  BY <1>1 DEF theQueue, WritesOf
<1>4. up[1] = queue[user][Len(down) + 1] /\ Len(down) + 1 \in 1..Len(queue[user])
  <2>1. Len(up) \in Nat /\ Len(pipeline) \in Nat /\ Len(queue[user]) \in Nat
    BY SeqFacts DEF IInv, TypeOK
  <2>2. /\ Len(pipeline) <= Len(queue[user]) /\ Len(down) + Len(up) <= Len(pipeline)
        /\ \A j \in 1..Len(pipeline) : pipeline[j] = queue[user][j]
        /\ \A i \in 1..Len(up) : up[i] = pipeline[Len(down) + i]
    BY DEF IInv, Correlated
  <2>3. 1 \in 1..Len(up) /\ Len(down) + 1 \in 1..Len(pipeline)
    BY <2>1, <2>2, <1>2
  <2> QED
    BY <2>1, <2>2, <2>3
<1>5. CASE Observed # user
  <2>1. theTaken' = theTaken
    BY <1>1, <1>5 DEF theTaken
  <2>2. owner[Head(up).write] = user
    BY <1>2, <1>4 DEF IInv, TypeOK, Bounded
  <2>3. theApplied' = theApplied
    BY <2>2, <1>1, <1>5 DEF theApplied
  <2> QED
    BY <2>1, <2>3, <1>3 DEF Queue!queueVars
<1>6. CASE Observed = user
  <2>1. theTaken = Len(down)
    BY <1>2, <1>6, AcceptedFacts DEF theTaken
  <2>2. theTaken' = Len(down) + 1
    <3>1. Last(down').ok
      BY <1>2 DEF Last
    <3> QED
      BY <3>1, <1>1, <1>2, <1>6 DEF theTaken, Accepted
  <2>3. /\ Len(down) + 1 \in 1..Len(theQueue) /\ Len(theQueue) \in Nat
        /\ theQueue[Len(down) + 1] = Head(up).write
        /\ owner[Head(up).write] = Observed
    <3>1. Len(down) + 1 \in 1..Len(theQueue) /\ Len(theQueue) \in Nat
      BY <1>4, <1>6, TheQueueFacts
    <3>2. /\ theQueue[Len(down) + 1] = queue[Observed][Len(down) + 1].write
          /\ owner[theQueue[Len(down) + 1]] = Observed
      BY <3>1, TheQueueFacts
    <3> QED
      BY <3>1, <3>2, <1>2, <1>4, <1>6
  <2>4. theApplied' = theApplied \cup {theQueue[Len(down) + 1]}
    BY <2>3, <1>1 DEF theApplied
  <2> QED
    BY <2>1, <2>2, <2>3, <2>4, <1>2, <1>3 DEF Queue!Apply
<1> QED
  BY <1>5, <1>6

LEMMA ServerRefusesUnseen ==
  ASSUME IInv, ServerRefuses
  PROVE  UNCHANGED Queue!queueVars
<1>1. Reads(FALSE) /\ UNCHANGED <<user, owner, queue, applied>>
  BY DEF ServerRefuses, Reads, appVars, diskVars
<1>2. /\ \A i \in 1..Len(down) : down[i].ok
      /\ Len(down') = Len(down) + 1 /\ Len(down) \in Nat
      /\ down'[Len(down) + 1] = [batch |-> Head(up), ok |-> FALSE]
      /\ down' \in Seq(Reply)
  BY <1>1, ReadsFacts
<1>3. Accepted(down) = Len(down)
  BY <1>2, AcceptedFacts
<1>4. Accepted(down') = Len(down)
  <2>1. ~Last(down').ok
    BY <1>2 DEF Last
  <2>2. down' # <<>>
    BY <1>2, EmptySeq
  <2> QED
    BY <2>1, <2>2, <1>2 DEF Accepted
<1> QED
  BY <1>1, <1>3, <1>4, Unseen

LEMMA IdleTimeoutReconnects ==
  ASSUME IInv, IdleTimeout
  PROVE  Queue!Reconnect \/ UNCHANGED Queue!queueVars
<1>1. /\ handshake' = FALSE /\ down' = <<>>
      /\ UNCHANGED <<queue, owner, applied, refused, overtaken>>
  BY DEF IdleTimeout, appVars, diskVars, serverVars
<1>2. Len(up) \in Nat
  BY SeqFacts DEF IInv, TypeOK
<1>3. applied' = applied \cup {up[i].write : i \in 1..0}
  BY <1>1
<1>4. StreamEnds
  BY <1>1, <1>2, <1>3 DEF StreamEnds
<1> QED
  BY <1>1, <1>4, GivenUpReconnects

LEMMA QueueStep == IInv /\ [Next]_vars => [Queue!Next]_(Queue!queueVars)
<1> SUFFICES ASSUME IInv, [Next]_vars PROVE Queue!Next \/ UNCHANGED Queue!queueVars
  OBVIOUS
<1>1. CASE WriteMutations
  BY <1>1, WriteMutationsPuts DEF Queue!Next
<1>2. CASE Stream
  <2>1. ASSUME OnStreamStart \/ OnWriteStreamHandshakeComplete \/ BackoffElapsed
        PROVE  UNCHANGED Queue!queueVars
    <3>1. UNCHANGED <<user, queue, owner, applied, down>>
      BY <2>1 DEF OnStreamStart, OnWriteStreamHandshakeComplete, BackoffElapsed,
                  appVars, diskVars, wireVars, serverVars
    <3> QED
      BY <3>1, Unseen
  <2> QED
    BY <1>2, <2>1, MutationResultAccepts, WriteErrorRefuses, IdleTimeoutReconnects
       DEF Stream, Queue!Next
<1>3. CASE Faults
  <2>1. StreamEnds /\ UNCHANGED <<queue, owner>>
    BY <1>3 DEF Faults, StreamBreaks, ConnectivityChanged, HandleCredentialChange,
                ProcessRestart, RestartNetwork, appVars, diskVars
  <2> QED
    BY <2>1, GivenUpReconnects DEF Queue!Next
<1>4. CASE Server
  BY <1>4, ServerAppliesApplies, ServerRefusesUnseen DEF Server, Queue!Next
<1>5. CASE UNCHANGED vars
  <2>1. UNCHANGED <<user, queue, owner, applied, down>>
    BY <1>5 DEF vars, appVars, diskVars, wireVars, serverVars
  <2> QED
    BY <2>1, Unseen
<1> QED
  BY <1>1, <1>2, <1>3, <1>4, <1>5 DEF Next

LEMMA QueueInit == Init => Queue!Init
<1> SUFFICES ASSUME Init PROVE Queue!Init
  OBVIOUS
<1>1. queue[Observed] = <<>> /\ down = <<>> /\ applied = {}
  BY ObservedAssumption DEF Init
<1>2. theQueue \in Seq(Write)
  BY InitIInv, TheQueueFacts
<1>3. theTaken = 0
  <2>1. Len(down) = 0
    BY <1>1
  <2> QED
    BY <2>1, <1>1 DEF theTaken, Accepted
<1>4. theApplied = {}
  BY <1>1 DEF theApplied
<1> QED
  BY <1>2, <1>3, <1>4 DEF Queue!Init

\* What the app may rely on holds of every user's queue: writes are applied in order,
\* each is answered once and removed when it is, and none is lost, through broken
\* streams, changes of user and kills (remote_store.cc:395-552).
THEOREM ImplementsWriteQueue == Spec => KeepsWriteQueue
<1>1. Init => Queue!Init
  BY QueueInit
<1>2. IInv /\ [Next]_vars => [Queue!Next]_(Queue!queueVars)
  BY QueueStep
<1> QED
  BY <1>1, <1>2, AlwaysIInv, PTL DEF Spec, KeepsWriteQueue, Queue!Spec
=============================================================================
