-------------------------- MODULE OfferTransactions --------------------------
(***************************************************************************)
(* Mechanics of one wave answer at the same time.  Every answer is handled *)
(* by respond_mechanic_offer in a session and a transaction of its own,    *)
(* under PostgreSQL's READ COMMITTED: a SELECT sees what is committed when *)
(* it runs and the transaction's own writes, an UPDATE waits for the row's *)
(* lock and then writes blindly, and no row is read FOR UPDATE.  What the  *)
(* session has loaded it keeps: a second SELECT of the job or of the       *)
(* attempt returns the object it already has, with its old attributes.     *)
(*                                                                         *)
(* The job's row says here whom it is assigned to.  Its status matters for *)
(* one thing, whether a wave has to write it: other handlers of the job    *)
(* write it too, so a session may have loaded any status.                  *)
(*                                                                         *)
(* The module takes one step of a handler for each statement that reads or *)
(* writes a row the handlers share.  The order in which a flush updates    *)
(* the rows of two tables is SQLAlchemy's: both orders are modelled.       *)
(***************************************************************************)
EXTENDS Naturals, FiniteSets, Sequences

CONSTANTS
  Mechanics,    \* the mechanics of the open wave
  Reserve,      \* the candidates nobody contacted yet
  NoMechanic,   \* assigned_mechanic_id is NULL
  Requests,     \* the answers that reach the service
  NoRequest,    \* a row is not locked
  Job,          \* the row of the job
  BatchSize     \* settings.DISPATCH_BATCH_SIZE

ASSUME BatchAssumption == BatchSize \in Nat

\* A handler serves as many people as there are.
ASSUME FiniteAssumption ==
  IsFiniteSet(Mechanics) /\ IsFiniteSet(Reserve) /\ IsFiniteSet(Requests)

\* A candidate for the next wave has no offer in the open one.
ASSUME ReserveAssumption == Mechanics \cap Reserve = {}

\* NULL is no request and no mechanic, and no row has two names.
ASSUME NoRequestAssumption == NoRequest \notin Requests
ASSUME NoMechanicAssumption == NoMechanic \notin Mechanics
ASSUME RowAssumption ==
  /\ Job \notin Mechanics \cup (Requests \X Reserve)
  /\ Mechanics \cap (Requests \X Reserve) = {}

\* A status is nobody's name.
ASSUME StatusAssumption == "calling_mechanics" \notin Mechanics

VARIABLES
  call,         \* what each request is: which mechanic answers what
  pc,           \* where each request's handler is
  seen,         \* job.assigned_mechanic_id as each session loaded it
  queue,        \* the UPDATEs left in each session's current flush
  lock,         \* the request that holds each row's lock
  dirty,        \* what the lock's holder wrote to the row
  db,           \* what is committed: an offer's status; the job's assignment
  sessions      \* the requests whose tracking session is committed

vars == <<call, pc, seen, queue, lock, dirty, db, sessions>>

\* An offer of the open wave is named by its mechanic, one of a later wave by
\* the request that made it and its mechanic.
Offers == Mechanics \cup (Requests \X Reserve)

Rows == Offers \cup {Job}

Open == {"queued", "calling"}

OfferStatus == Open \cup {"none", "accepted", "declined", "superseded"}

Assignment == Mechanics \cup {NoMechanic}

\* What the rows can say, and the UPDATEs that keep it so.
Contents ==
  {f \in [Rows -> OfferStatus \cup Assignment] :
     f[Job] \in Assignment /\ \A o \in Offers : f[o] \in OfferStatus}

\* The UPDATE of the job's status alone.
StatusUpdate == <<Job, "calling_mechanics">>

Updates ==
  (Offers \X OfferStatus) \cup ({Job} \X Assignment) \cup {StatusUpdate}

InFlight == {"job_read", "flush", "wave", "commit"}

TypeOK ==
  /\ call \in [Requests -> [mechanic : Mechanics, answer : {"accepted", "declined"}]]
  /\ pc \in [Requests -> InFlight \cup {"idle", "done", "failed"}]
  /\ seen \in [Requests -> Assignment]
  /\ queue \in [Requests -> Seq(Updates)]
  /\ lock \in [Rows -> Requests \cup {NoRequest}]
  /\ dirty \in Contents
  /\ db \in Contents
  /\ sessions \subseteq Requests

Init ==
  /\ call \in [Requests -> [mechanic : Mechanics, answer : {"accepted", "declined"}]]
  /\ pc = [r \in Requests |-> "idle"]
  /\ seen = [r \in Requests |-> NoMechanic]
  /\ queue = [r \in Requests |-> <<>>]
  /\ lock = [x \in Rows |-> NoRequest]
  /\ db = [x \in Rows |-> IF x = Job THEN NoMechanic
                          ELSE IF x \in Mechanics THEN "calling" ELSE "none"]
  /\ dirty = db
  /\ sessions = {}

(***************************************************************************)
(* The database.                                                           *)
(***************************************************************************)
Visible(r, x) == IF lock[x] = r THEN dirty[x] ELSE db[x]

OpenTo(r) == {o \in Offers : Visible(r, o) \in Open}

\* The orders in which a flush can run a set of UPDATEs.
Orders(W) ==
  {q \in [1 .. Cardinality(W) -> W] : \A i, j \in DOMAIN q : i # j => q[i] # q[j]}

Goto(r, label) == pc' = [pc EXCEPT ![r] = label]

Blocked(r) ==
  /\ queue[r] # <<>>
  /\ lock[Head(queue[r])[1]] \notin {r, NoRequest}

\* What a row says after an UPDATE: one of the status leaves the assignment as
\* it is when the UPDATE gets the row.
Written(r, u) == IF u = StatusUpdate THEN Visible(r, Job) ELSE u[2]

Write(r) ==
  /\ queue[r] # <<>>
  /\ ~Blocked(r)
  /\ LET u == Head(queue[r])
     IN /\ lock' = [lock EXCEPT ![u[1]] = r]
        /\ dirty' = [dirty EXCEPT ![u[1]] = Written(r, u)]
  /\ queue' = [queue EXCEPT ![r] = Tail(@)]
  /\ UNCHANGED <<call, pc, seen, db, sessions>>

Unlocked(r) == [x \in Rows |-> IF lock[x] = r THEN NoRequest ELSE lock[x]]

\* Mutant: the session of a finished request is never closed.
CommitKeepingLocks(r) ==
  /\ pc[r] = "commit"
  /\ queue[r] = <<>>
  /\ db' = [x \in Rows |-> Visible(r, x)]
  /\ sessions' = IF call[r].answer = "accepted" THEN sessions \cup {r} ELSE sessions
  /\ Goto(r, "done")
  /\ UNCHANGED <<call, seen, queue, lock, dirty>>

Commit(r) ==
  /\ pc[r] = "commit"
  /\ queue[r] = <<>>
  /\ db' = [x \in Rows |-> Visible(r, x)]
  /\ lock' = Unlocked(r)
  /\ sessions' = IF call[r].answer = "accepted" THEN sessions \cup {r} ELSE sessions
  /\ Goto(r, "done")
  /\ UNCHANGED <<call, seen, queue, dirty>>

RollBack(r) ==
  /\ lock' = Unlocked(r)
  /\ queue' = [queue EXCEPT ![r] = <<>>]
  /\ Goto(r, "failed")
  /\ UNCHANGED <<call, seen, dirty, db, sessions>>

Blocker(r) == lock[Head(queue[r])[1]]

\* A transaction of a cycle of transactions that wait for each other.
Deadlocked(r) ==
  \E C \in SUBSET Requests :
    /\ r \in C
    /\ \A q \in C : Blocked(q) /\ Blocker(q) \in C
    /\ \A q \in C : \E p \in C : Blocker(p) = q

\* PostgreSQL aborts one of them.
DeadlockAbort(r) == Deadlocked(r) /\ RollBack(r)

\* The worker or its connection dies in the middle of the request.
Crash(r) ==
  /\ pc[r] \in InFlight
  /\ RollBack(r)

(***************************************************************************)
(* The handler.                                                            *)
(***************************************************************************)
ReadJob(r) ==
  /\ pc[r] = "idle"
  /\ seen' = [seen EXCEPT ![r] = db[Job]]
  /\ Goto(r, "job_read")
  /\ UNCHANGED <<call, queue, lock, dirty, db, sessions>>

\* Mutant: the word of the offer page is stored as it came.
AnswerVerbatim(r) ==
  {<<call[r].mechanic, IF call[r].answer = "accepted" THEN "yes" ELSE "no">>}

\* Mutant: the acceptance does not write the job's row.
AnswerWithoutJob(r) == {<<call[r].mechanic, call[r].answer>>}

\* Mutant: a refusal writes the job's row as well, as it found it.
AnswerTouchingJob(r) ==
  {<<call[r].mechanic, call[r].answer>>,
   <<Job, IF call[r].answer = "accepted" THEN call[r].mechanic ELSE seen[r]>>}

\* What the answer writes in its first flush.
Answer(r) ==
  {<<call[r].mechanic, call[r].answer>>} \cup
    (IF call[r].answer = "accepted" THEN {<<Job, call[r].mechanic>>} ELSE {})

\* An attempt that is already final is left alone.
ReadOffer(r) ==
  /\ pc[r] = "job_read"
  /\ \/ /\ db[call[r].mechanic] \in Open
        /\ \E q \in Orders(Answer(r)) : queue' = [queue EXCEPT ![r] = q]
        /\ Goto(r, "flush")
     \/ /\ db[call[r].mechanic] \notin Open
        /\ Goto(r, "done")
        /\ UNCHANGED queue
  /\ UNCHANGED <<call, seen, lock, dirty, db, sessions>>

\* An acceptance selects the other open offers and supersedes them.
SelectOthers(r) ==
  /\ pc[r] = "flush" /\ queue[r] = <<>>
  /\ call[r].answer = "accepted"
  /\ LET others == OpenTo(r) \ {call[r].mechanic}
     IN \E q \in Orders({<<o, "superseded">> : o \in others}) :
          queue' = [queue EXCEPT ![r] = q]
  /\ Goto(r, "commit")
  /\ UNCHANGED <<call, seen, lock, dirty, db, sessions>>

\* Mutant: only offers that were not sent yet count as open.
CheckPendingQueuedOnly(r) ==
  /\ pc[r] = "flush" /\ queue[r] = <<>>
  /\ call[r].answer = "declined"
  /\ Goto(r, IF seen[r] # NoMechanic \/ \E o \in Offers : Visible(r, o) = "queued"
             THEN "commit" ELSE "wave")
  /\ UNCHANGED <<call, seen, queue, lock, dirty, db, sessions>>

\* maybe_dispatch_next_wave: the assignment as the session loaded it, the open
\* offers as they are now.
CheckPending(r) ==
  /\ pc[r] = "flush" /\ queue[r] = <<>>
  /\ call[r].answer = "declined"
  /\ Goto(r, IF seen[r] # NoMechanic \/ OpenTo(r) # {} THEN "commit" ELSE "wave")
  /\ UNCHANGED <<call, seen, queue, lock, dirty, db, sessions>>

Candidates(r) == {m \in Reserve : \A q \in Requests : Visible(r, <<q, m>>) = "none"}

\* dispatch_mechanics_batch: the attempts are new rows that nobody sees before
\* the commit. With the first of them the job becomes "calling_mechanics", an
\* UPDATE of its row unless the session loaded it with that status.
InsertWave(r) ==
  /\ pc[r] = "wave"
  /\ \E S \in SUBSET Candidates(r) :
       /\ Cardinality(S) = IF BatchSize < Cardinality(Candidates(r))
                           THEN BatchSize ELSE Cardinality(Candidates(r))
       /\ lock' = [x \in Rows |-> IF x \in {r} \X S THEN r ELSE lock[x]]
       /\ dirty' = [x \in Rows |-> IF x \in {r} \X S THEN "calling" ELSE dirty[x]]
       /\ \/ S # {} /\ queue' = [queue EXCEPT ![r] = <<StatusUpdate>>]
          \/ UNCHANGED queue
  /\ Goto(r, "commit")
  /\ UNCHANGED <<call, seen, db, sessions>>

Handle(r) ==
  \/ ReadOffer(r)
  \/ Write(r)
  \/ SelectOthers(r)
  \/ CheckPending(r)
  \/ InsertWave(r)
  \/ Commit(r)
  \/ DeadlockAbort(r)

Next == \E r \in Requests : ReadJob(r) \/ Handle(r) \/ Crash(r)

\* A handler that has begun goes on: the event loop runs whatever is ready and
\* PostgreSQL breaks deadlocks.  Nobody has to answer at all.
Fairness == \A r \in Requests : WF_vars(Handle(r))

Spec == Init /\ [][Next]_vars /\ Fairness

-----------------------------------------------------------------------------

\* Two requests turn the offer of m down: the mechanic tapped twice, and both
\* requests found the offer open.
RepeatsDecline(m) ==
  \E q, r \in Requests :
    q # r /\ call[q] = call[r] /\ call[r] = [mechanic |-> m, answer |-> "declined"]

\* Mechanics who turn the offer down at the same time bring one next wave,
\* although each handler looks for open offers on its own: each flushes its
\* answer before it looks, so only the last one to commit can find none. It
\* takes an acceptance, which supersedes the offers of mechanics who are just
\* declining, or two mechanics who each decline twice to bring two waves.
OneNextWave ==
  sessions = {} /\ (\A m, n \in Mechanics : RepeatsDecline(m) /\ RepeatsDecline(n) => m = n)
    => \A q, r \in Requests, m, n \in Reserve :
         db[<<q, m>>] # "none" /\ db[<<r, n>>] # "none" => q = r

\* Once an acceptance is committed the job has a mechanic with a tracking
\* session, and that mechanic's offer is not superseded, even when the
\* acceptances of several mechanics overwrote each other.
AcceptanceHolds ==
  sessions # {} =>
    /\ db[Job] \in {call[r].mechanic : r \in sessions}
    /\ db[db[Job]] # "superseded"

\* Overlapping acceptances can wait for each other's rows. A refusal is part of
\* such a deadlock in one case only: it brings a wave, for which it has to write
\* the row of the job that an acceptance is just assigning. The refusal as such
\* waits for its own offer before it holds anything.
RefusalsDeadlockByWave ==
  \A r \in Requests : Deadlocked(r) /\ call[r].answer = "declined" =>
    /\ pc[r] = "commit" /\ Head(queue[r]) = StatusUpdate
    /\ call[Blocker(r)].answer = "accepted"

\* Every answer that reaches the service is finished or given up: no two
\* handlers wait for each other's rows for ever.
AnswersFinish ==
  \A r \in Requests : pc[r] # "idle" ~> pc[r] \in {"done", "failed"}

\* "First accepted mechanic becomes assigned" (README.md): an assignment is
\* not taken over by another acceptance.
FirstAcceptanceWins == [][db[Job] # NoMechanic => db'[Job] = db[Job]]_vars

\* "If no mechanic is assigned and no open parallel offers remain, queue the
\* next batch" (maybe_dispatch_next_wave): when every answer has been handled,
\* a job without a mechanic and without an open offer has no candidate left.
NextWaveGoesOut ==
  (\A r \in Requests : pc[r] = "done") /\ db[Job] = NoMechanic
    => \/ \E o \in Offers : db[o] \in Open
       \/ \A m \in Reserve : \E q \in Requests : db[<<q, m>>] # "none"

\* "already finalized, skipping duplicate record" (record_mechanic_response):
\* a mechanic who taps Accept twice gets one tracking session.
OneSessionPerMechanic ==
  \A q, r \in sessions : call[q].mechanic = call[r].mechanic => q = r
=============================================================================
