-------------------------- MODULE FirestoreWrites --------------------------
(***************************************************************************)
(* How the Firestore client of one installation brings local writes to the *)
(* server: SyncEngine and LocalStore keep a queue of batches per user on   *)
(* disk, RemoteStore moves up to MaxPending of the current user's batches  *)
(* into the write pipeline and sends them over one WriteStream, whose      *)
(* answers carry no batch id: each belongs to the first batch in the       *)
(* pipeline.  Everything runs on one worker queue; what interleaves are    *)
(* the app's writes, the answers, the timers, broken connections, changes  *)
(* of the signed-in user and kills of the process.                         *)
(*                                                                         *)
(* The server is external: it works through a stream's requests in order,  *)
(* closes the stream with an error at the first it refuses, is done with   *)
(* an old stream before the client's next one opens, and never closes a    *)
(* stream with status OK.                                                  *)
(***************************************************************************)
EXTENDS Integers, Sequences, SequencesExt, FiniteSets

CONSTANTS User,
          MaxPending,  \* kMaxPendingWrites
          MaxWrites,   \* bound: writes the app makes
          MaxFaults    \* bound: broken streams, changes of connectivity or credentials, kills

Write == 1..MaxWrites   \* in the order the app makes them

ASSUME UserAssumption == User # {} /\ IsFiniteSet(User)
ASSUME PendingAssumption == MaxPending \in Nat \ {0}
ASSUME LimitsAssumption ==
  MaxWrites \in Nat /\ MaxFaults \in Nat

VARIABLES
  user,       \* current_user_
  queue,      \* queue[u]: the batches of u on disk, in the order of their ids
  nextId,     \* next_batch_id_
  callbacks,  \* mutation_callbacks_[u]: the id of a batch and the write to answer
  answers,    \* what the app was told about each write
  pipeline,   \* write_pipeline_
  state,      \* state_ of the write stream, Healthy counted as Open
  handshake,  \* handshake_complete_
  idle,       \* idleness_timer_ is running
  up,         \* requests the server has not read
  down,       \* answers the client has not read
  applied,    \* writes the server has applied at least once
  refused,    \* writes the server has refused at least once
  overtaken,  \* writes whose answer was discarded when the stream's error came first
  owner,      \* owner[w]: the user who made w
  made,       \* how many writes the app has made
  faults,     \* how many of MaxFaults have happened
  killed      \* the process was killed at least once

appVars    == <<callbacks, answers, owner, made>>
diskVars   == <<queue, nextId>>
streamVars == <<pipeline, state, handshake, idle>>
wireVars   == <<up, down>>
serverVars == <<applied, refused, overtaken>>
faultVars  == <<faults, killed>>
vars == <<user, appVars, diskVars, streamVars, wireVars, serverVars, faultVars>>

Batch  == [id : Nat, write : Write]
Reply  == [batch : Batch, ok : BOOLEAN]
States == {"Initial", "Starting", "Open", "Error", "Backoff"}

TypeOK ==
  /\ user \in User
  /\ queue \in [User -> Seq(Batch)]
  /\ nextId \in Nat \ {0}
  /\ callbacks \in [User -> SUBSET Batch]
  /\ answers \in [Write -> {"none", "acked", "rejected"}]
  /\ pipeline \in Seq(Batch)
  /\ state \in States
  /\ handshake \in BOOLEAN
  /\ idle \in BOOLEAN
  /\ up \in Seq(Batch)
  /\ down \in Seq(Reply)
  /\ applied \subseteq Write
  /\ refused \subseteq Write
  /\ overtaken \subseteq Write
  /\ owner \in [Write -> User]
  /\ made \in 0..MaxWrites
  /\ faults \in Nat
  /\ killed \in BOOLEAN

\* A client just installed: nothing on disk, EnableNetwork found nothing to send.
Init ==
  /\ user \in User
  /\ queue = [u \in User |-> <<>>]
  /\ nextId = 1
  /\ callbacks = [u \in User |-> {}]
  /\ answers = [w \in Write |-> "none"]
  /\ pipeline = <<>>
  /\ state = "Initial"
  /\ handshake = FALSE
  /\ idle = FALSE
  /\ up = <<>>
  /\ down = <<>>
  /\ applied = {}
  /\ refused = {}
  /\ overtaken = {}
  /\ owner = [w \in Write |-> user]
  /\ made = 0
  /\ faults = 0
  /\ killed = FALSE

-----------------------------------------------------------------------------
(* The mutation queue on disk. *)

\* Mutant: ids start from 1 again although batches wait on disk.
IdsFromOne(q) == 1

\* Mutant: the highest id itself.
HighestBatchId(q) ==
  CHOOSE n \in 0..nextId :
    /\ \A u \in User : \A i \in 1..Len(q[u]) : q[u][i].id <= n
    /\ n = 0 \/ \E u \in User : \E i \in 1..Len(q[u]) : q[u][i].id = n

\* LoadNextBatchIdFromDb: one more than the highest id in any user's queue q[u].
LoadNextBatchId(q) ==
  CHOOSE n \in 1..nextId :
    /\ \A u \in User : \A i \in 1..Len(q[u]) : q[u][i].id < n
    /\ n = 1 \/ \E u \in User : \E i \in 1..Len(q[u]) : q[u][i].id = n - 1

\* RemoveMutationBatch deletes the row with the batch's id.
Without(q, batch) == RemoveAt(q, SelectInSeq(q, LAMBDA b : b.id = batch.id))

\* The loop of FillWritePipeline: GetNextMutationBatch reads the first batch with an
\* id above the last one taken, until the pipeline is full or the queue at its end.
Fetched(q, pipe) ==
  LET last == IF pipe = <<>> THEN -1 ELSE Last(pipe).id
      i    == SelectInSeq(q, LAMBDA b : b.id > last)
      j    == i + MaxPending - Len(pipe) - 1
  IN IF i = 0 THEN <<>> ELSE SubSeq(q, i, IF j < Len(q) THEN j ELSE Len(q))

\* Mutant: a stream that has failed is not started again.
StartedOnce(st) == IF st = "Initial" THEN "Starting" ELSE st

\* Start: after an error only when the backoff has passed.
Started(st) == CASE st = "Initial" -> "Starting"
                 [] st = "Error"   -> "Backoff"
                 [] OTHER          -> st

\* Mutant: new batches are sent although the handshake is not complete.
FillWhileOpen(q, pipe, st, sent) ==
  LET new == Fetched(q, pipe)
  IN /\ pipeline' = pipe \o new
     /\ up' = IF st = "Open" THEN sent \o new ELSE sent
     /\ idle' = (st = "Open" /\ pipe \o new = <<>>)
     /\ state' = IF pipe \o new = <<>> THEN st ELSE Started(st)

\* FillWritePipeline with q on disk, pipe in the pipeline, the stream in state st and
\* sent on its way: new batches are sent if the stream is ready, else it is started;
\* with nothing to send it is marked idle.
FillWritePipeline(q, pipe, st, sent) ==
  LET new   == Fetched(q, pipe)
      ready == st = "Open" /\ handshake
  IN /\ pipeline' = pipe \o new
     /\ up' = IF ready THEN sent \o new ELSE sent
     /\ idle' = (st = "Open" /\ IF new = <<>> THEN idle \/ pipe = <<>>
                                              ELSE idle /\ ~ready)
     /\ state' = IF pipe \o new = <<>> THEN st ELSE Started(st)

\* Mutant: the callback stays registered.
NotifyUserAgain(id, answer) ==
  /\ answers' = [w \in Write |-> IF \E c \in callbacks[user] : c.id = id /\ c.write = w
                                  THEN answer ELSE answers[w]]
  /\ UNCHANGED callbacks

\* NotifyUser: the callback registered under the id is called, if there is one, and
\* forgotten.
NotifyUser(id, answer) ==
  LET told == {c \in callbacks[user] : c.id = id}
  IN /\ answers' = [w \in Write |-> IF \E c \in told : c.write = w THEN answer
                                                                   ELSE answers[w]]
     /\ callbacks' = [callbacks EXCEPT ![user] = @ \ told]

-----------------------------------------------------------------------------
(* The app. *)

\* setData: the batch is stored, its callback kept in memory, the pipeline filled.
\* A callback already kept under the id would stay (insert).
WriteMutations ==
  LET w     == made + 1
      batch == [id |-> nextId, write |-> w]
      mine  == Append(queue[user], batch)
  IN /\ made < MaxWrites
     /\ made' = w
     /\ owner' = [owner EXCEPT ![w] = user]
     /\ queue' = [queue EXCEPT ![user] = mine]
     /\ nextId' = nextId + 1
     /\ callbacks' = [callbacks EXCEPT ![user] =
                        IF \E c \in @ : c.id = nextId THEN @ ELSE @ \cup {batch}]
     /\ FillWritePipeline(mine, pipeline, state, up)
     /\ UNCHANGED <<user, answers, handshake, down, serverVars, faultVars>>

-----------------------------------------------------------------------------
(* The write stream. *)

\* The token has come and the connection is up: the handshake is sent.
OnStreamStart ==
  /\ state = "Starting"
  /\ state' = "Open"
  /\ UNCHANGED <<user, appVars, diskVars, pipeline, handshake, idle,
                 wireVars, serverVars, faultVars>>

\* Mutant: only what came into the pipeline last is sent.
HandshakeSendsLast ==
  /\ state = "Open"
  /\ ~handshake
  /\ handshake' = TRUE
  /\ up' = <<Last(pipeline)>>
  /\ UNCHANGED <<user, appVars, diskVars, pipeline, state, idle, down,
                 serverVars, faultVars>>

\* The server has answered the handshake: the whole pipeline is sent, without a
\* stream token that would tell the server what it has seen before.
OnWriteStreamHandshakeComplete ==
  /\ state = "Open"
  /\ ~handshake
  /\ handshake' = TRUE
  /\ up' = pipeline
  /\ idle' = (idle /\ pipeline = <<>>)
  /\ UNCHANGED <<user, appVars, diskVars, pipeline, state, down, serverVars, faultVars>>

\* An answer is correlated to the first batch of the pipeline: its callback is
\* called, then the batch is removed from disk, then another one may be sent.
OnWriteStreamMutationResult ==
  /\ state = "Open"
  /\ down # <<>>
  /\ Head(down).ok
  /\ LET batch == Head(pipeline)
         left  == Without(queue[user], batch)
     IN /\ NotifyUser(batch.id, "acked")
        /\ queue' = [queue EXCEPT ![user] = left]
        /\ FillWritePipeline(left, Tail(pipeline), state, up)
  /\ down' = Tail(down)
  /\ UNCHANGED <<user, nextId, owner, made, handshake, serverVars, faultVars>>

\* Mutant: the stream is restarted with the refused batch still in the pipeline.
RefusedKeptInPipeline ==
  /\ state = "Open"
  /\ handshake
  /\ down # <<>>
  /\ ~Last(down).ok
  /\ Len(down) = 1 \/ up # <<>>
  /\ LET batch == Head(pipeline)
         left  == Without(queue[user], batch)
     IN /\ NotifyUser(batch.id, "rejected")
        /\ queue' = [queue EXCEPT ![user] = left]
        /\ FillWritePipeline(left, pipeline, "Initial", <<>>)
  /\ overtaken' = IF Len(down) = 1 THEN overtaken
                   ELSE overtaken \cup {Head(down).batch.write}
  /\ handshake' = FALSE
  /\ down' = <<>>
  /\ UNCHANGED <<user, nextId, owner, made, applied, refused, faultVars>>

\* The stream closes with a permanent error, taken to be about the first batch of the
\* pipeline: that one is removed and the stream starts again without backoff.  The
\* error comes when all answers before it are read; or earlier, when a request can no
\* longer be written: the first failed operation finishes the call, and answers not
\* yet read are discarded.
HandleWriteError ==
  /\ state = "Open"
  /\ handshake
  /\ down # <<>>
  /\ ~Last(down).ok
  /\ Len(down) = 1 \/ up # <<>>
  /\ LET batch == Head(pipeline)
         left  == Without(queue[user], batch)
     IN /\ NotifyUser(batch.id, "rejected")
        /\ queue' = [queue EXCEPT ![user] = left]
        /\ FillWritePipeline(left, Tail(pipeline), "Initial", <<>>)
  /\ overtaken' = IF Len(down) = 1 THEN overtaken
                   ELSE overtaken \cup {Head(down).batch.write}
  /\ handshake' = FALSE
  /\ down' = <<>>
  /\ UNCHANGED <<user, nextId, owner, made, applied, refused, faultVars>>

BackoffElapsed ==
  /\ state = "Backoff"
  /\ state' = "Starting"
  /\ UNCHANGED <<user, appVars, diskVars, pipeline, handshake, idle,
                 wireVars, serverVars, faultVars>>

\* The idleness timer stops the stream.
IdleTimeout ==
  /\ idle
  /\ idle' = FALSE
  /\ state' = "Initial"
  /\ handshake' = FALSE
  /\ up' = <<>>
  /\ down' = <<>>
  /\ UNCHANGED <<user, appVars, diskVars, pipeline, serverVars, faultVars>>

\* A stream is given up.  What it had sent the server may still apply: some of it, in
\* order, unless it has already refused one.
StreamEnds ==
  /\ \E k \in 0..Len(up) :
       /\ k > 0 => \A i \in 1..Len(down) : down[i].ok
       /\ applied' = applied \cup {up[i].write : i \in 1..k}
  /\ handshake' = FALSE
  /\ down' = <<>>
  /\ UNCHANGED <<refused, overtaken>>

\* A transient error, an error before the handshake, or no token: the pipeline stays
\* and is sent again by the next stream, started after a backoff.
StreamBreaks ==
  /\ state \in {"Starting", "Open"}
  /\ faults < MaxFaults
  /\ faults' = faults + 1
  /\ StreamEnds
  /\ up' = <<>>
  /\ idle' = FALSE
  /\ state' = IF pipeline = <<>> THEN "Error" ELSE Started("Error")
  /\ UNCHANGED <<user, appVars, diskVars, pipeline, killed>>

\* Mutant: the pipeline is not cleared when the network is restarted.
RestartKeepingPipeline(q) ==
  /\ StreamEnds
  /\ FillWritePipeline(q, pipeline, "Initial", <<>>)

\* RestartNetwork: the stream is stopped, the pipeline emptied and filled again from
\* the current user's queue q, without backoff.
RestartNetwork(q) ==
  /\ StreamEnds
  /\ FillWritePipeline(q, <<>>, "Initial", <<>>)

ConnectivityChanged ==
  /\ faults < MaxFaults
  /\ faults' = faults + 1
  /\ RestartNetwork(queue[user])
  /\ UNCHANGED <<user, appVars, diskVars, killed>>

\* The signed-in user changes, or only the token does.
HandleCredentialChange(u) ==
  /\ faults < MaxFaults
  /\ faults' = faults + 1
  /\ user' = u
  /\ nextId' = IF u = user THEN nextId ELSE LoadNextBatchId(queue)
  /\ RestartNetwork(queue[u])
  /\ UNCHANGED <<queue, appVars, killed>>

\* The process is killed and started again: the callbacks are gone, the queues are on
\* disk.  An answer just read may have reached its callback but not the disk.
ProcessRestart(answering) ==
  /\ faults < MaxFaults
  /\ faults' = faults + 1
  /\ killed' = TRUE
  /\ answering => down # <<>> /\ Head(down).ok
  /\ answers' = [w \in Write |->
                   IF answering /\ \E c \in callbacks[user] :
                                     c.id = Head(pipeline).id /\ c.write = w
                   THEN "acked" ELSE answers[w]]
  /\ callbacks' = [u \in User |-> {}]
  /\ nextId' = LoadNextBatchId(queue)
  /\ RestartNetwork(queue[user])
  /\ UNCHANGED <<user, queue, owner, made>>

-----------------------------------------------------------------------------
(* The server. *)

Reads(ok) ==
  /\ up # <<>>
  /\ \A i \in 1..Len(down) : down[i].ok
  /\ up' = Tail(up)
  /\ down' = Append(down, [batch |-> Head(up), ok |-> ok])
  /\ UNCHANGED <<user, appVars, diskVars, streamVars, faultVars>>

ServerApplies ==
  /\ Reads(TRUE)
  /\ applied' = applied \cup {Head(up).write}
  /\ UNCHANGED <<refused, overtaken>>

ServerRefuses ==
  /\ Reads(FALSE)
  /\ refused' = refused \cup {Head(up).write}
  /\ UNCHANGED <<applied, overtaken>>

-----------------------------------------------------------------------------
Stream ==
  \/ OnStreamStart
  \/ OnWriteStreamHandshakeComplete
  \/ OnWriteStreamMutationResult
  \/ HandleWriteError
  \/ BackoffElapsed
  \/ IdleTimeout

Faults ==
  \/ StreamBreaks
  \/ ConnectivityChanged
  \/ \E u \in User : HandleCredentialChange(u)
  \/ \E answering \in BOOLEAN : ProcessRestart(answering)

Server == ServerApplies \/ ServerRefuses

Next == WriteMutations \/ Stream \/ Faults \/ Server

Spec == Init /\ [][Next]_vars

\* The worker queue runs, timers fire, tokens and answers come, the server reads on.
\* Connections may break, but not for ever (MaxFaults).
FairSpec == Spec /\ WF_vars(Stream) /\ WF_vars(Server)

-----------------------------------------------------------------------------
(* Properties *)

\* The answers on their way and the requests not yet read stand for the batches of
\* the pipeline, position by position, so that an answer that carries no id is given
\* to the batch it is about (remote_store.cc:457-475); what is not ahead is on disk.
Correlated ==
  /\ Len(pipeline) <= Len(queue[user])
  /\ \A i \in 1..Len(pipeline) : pipeline[i] = queue[user][i]
  /\ Len(down) + Len(up) <= Len(pipeline)
  /\ \A i \in 1..Len(down) : down[i].batch = pipeline[i]
  /\ \A i \in 1..Len(up) : up[i] = pipeline[Len(down) + i]
  /\ state = "Open" /\ handshake => Len(down) + Len(up) = Len(pipeline)

\* A callback waits for the batch it was registered with, although ids are counted
\* from the highest one on disk again whenever the user changes or the app is started
\* (leveldb_mutation_queue.cc:58-139, sync_engine.cc:466-481).
CallbacksWait ==
  \A u \in User : callbacks[u] \subseteq ToSet(queue[u])

\* What the app is told of a write is what the server did with it, but for a write
\* that is reported rejected because a request behind the one the server refused could
\* not be written before its own answer was read (sync_engine.cc:389-426,
\* remote_store.cc:529-552, grpc_stream.cc:312-323).
AnswersTrue ==
  \A w \in Write : /\ answers[w] = "acked" => w \in applied
                   /\ answers[w] = "rejected" => w \in refused \cup overtaken

\* The server applies a user's writes in the order they were made: a write that still
\* waits has not been overtaken (remote_store.cc:395-455).
InOrder ==
  \A u \in User : \A j \in 1..Len(queue[u]) :
    queue[u][j].write \in applied =>
      \A i \in 1..j : queue[u][i].write \in applied

\* A write the app has an answer for is not sent again, nor is an earlier one of its
\* user, so the answered state stays; only a kill between the callback and the
\* transaction that removes the batch brings it back (sync_engine.cc:389-403).
AnsweredIsFinal ==
  \A i \in 1..Len(up) : \A v \in Write :
    v >= up[i].write /\ owner[v] = user /\ answers[v] # "none" =>
      /\ killed
      /\ \E j \in 1..Len(queue[user]) : queue[user][j].write = v

Queued(w) == \E j \in 1..Len(queue[owner[w]]) : queue[owner[w]][j].write = w

\* While its user is signed in every write gets an answer in the end, whatever timers,
\* full pipelines, idle stops and backoffs come in between (remote_store.cc:395-441).
Drains ==
  \A w \in Write :
    (owner[w] = user /\ Queued(w)) ~> (owner[w] # user \/ ~Queued(w))
=============================================================================
