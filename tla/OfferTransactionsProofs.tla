------------------------ MODULE OfferTransactionsProofs ------------------------
(***************************************************************************)
(* What holds of concurrent answers to a wave for every number of          *)
(* mechanics, of requests and of reserve mechanics, however the handlers   *)
(* interleave, crash or are aborted.                                       *)
(*                                                                         *)
(* The invariant ties the rows to the handlers that hold them.  A handler  *)
(* that is past its first flush holds the rows of its answer until it      *)
(* commits; what an uncommitted row says follows from who holds it; and    *)
(* the UPDATEs a flush has left are those of the step the handler is in.   *)
(* What is committed follows, because a commit publishes exactly the rows  *)
(* its handler holds.                                                      *)
(***************************************************************************)
EXTENDS OfferTransactions, FiniteSetTheorems, SequenceTheorems, TLAPS

Own(r) == call[r].mechanic

Accepts(r) == call[r].answer = "accepted"

\* The UPDATEs of a flush that are not run yet.
Left(q) == {q[i] : i \in DOMAIN q}

\* Only a handler past its reads holds rows.
HeldInFlight(r) ==
  \A x \in Rows : lock[x] = r => pc[r] \in {"flush", "wave", "commit"}

\* An acceptance writes its mechanic to the job's row; a refusal that brings a
\* wave leaves the assignment alone, and has nothing to wait for any more.
HeldJob(r) ==
  lock[Job] = r =>
    IF Accepts(r) THEN dirty[Job] = Own(r)
    ELSE pc[r] = "commit" /\ queue[r] = <<>> /\ dirty[Job] = db[Job]

\* A handler writes its answer to its own offer and nothing else.
HeldOwn(r) == lock[Own(r)] = r => dirty[Own(r)] = call[r].answer

\* Of the other offers, an acceptance supersedes some and a refusal inserts
\* its own wave.
HeldOthers(r) ==
  \A o \in Offers \ {Own(r)} :
    lock[o] = r =>
      /\ pc[r] = "commit"
      /\ Accepts(r) => dirty[o] = "superseded"
      /\ ~Accepts(r) => o \in {r} \X Reserve /\ dirty[o] = "calling"

\* The first flush writes the answer, and what it has written is held.
FlushesAnswer(r) ==
  pc[r] = "flush" =>
    /\ Left(queue[r]) \subseteq Answer(r)
    /\ \A e \in Answer(r) : e \in Left(queue[r]) \/ lock[e[1]] = r

\* After it the handler holds every row of the answer.
HoldsAnswer(r) ==
  pc[r] \in {"wave", "commit"} => \A e \in Answer(r) : lock[e[1]] = r

\* The last flush: an acceptance supersedes the others, a refusal writes the
\* status of the job at most.
SecondFlush(r) ==
  pc[r] = "commit" =>
    IF Accepts(r) THEN Left(queue[r]) \subseteq (Offers \ {Own(r)}) \X {"superseded"}
    ELSE queue[r] \in {<<>>, <<StatusUpdate>>}

\* Elsewhere no flush is running, and only a refusal asks for a wave.
NoFlush(r) ==
  /\ pc[r] \notin {"flush", "commit"} => queue[r] = <<>>
  /\ pc[r] = "wave" => ~Accepts(r)

Held(r) ==
  HeldInFlight(r) /\ HeldJob(r) /\ HeldOwn(r) /\ HeldOthers(r)

Flushed(r) ==
  FlushesAnswer(r) /\ HoldsAnswer(r) /\ SecondFlush(r) /\ NoFlush(r)

LockInv == \A r \in Requests : Held(r) /\ Flushed(r)

(***************************************************************************)
(* Refusals alone.                                                         *)
(***************************************************************************)
\* A refusal that is about to bring a wave, or has one uncommitted.
Waving(r) ==
  ~Accepts(r) /\ (pc[r] = "wave" \/ \E m \in Reserve : lock[<<r, m>>] = r)

\* The committed offers of the wave are closed by committed refusals.
ClosedByRefusal ==
  \A m \in Mechanics :
    db[m] \notin Open =>
      \E d \in Requests : Own(d) = m /\ ~Accepts(d) /\ pc[d] = "done"

ReserveUntouched ==
  \A q \in Requests, m \in Reserve : db[<<q, m>>] \in {"none", "calling"}

\* Whoever waves found nothing open, and nothing has been opened since.
WavesLast(r) ==
  Waving(r) =>
    /\ \A m \in Mechanics \ {Own(r)} : db[m] \notin Open
    /\ \A q \in Requests, m \in Reserve : db[<<q, m>>] = "none"

OneWaves == \A q, r \in Requests : Waving(q) /\ Waving(r) => q = r

OneWave ==
  \A q, r \in Requests, m, n \in Reserve :
    db[<<q, m>>] # "none" /\ db[<<r, n>>] # "none" => q = r

OneRepeats == \A m, n \in Mechanics : RepeatsDecline(m) /\ RepeatsDecline(n) => m = n

RefusalInv ==
  sessions = {} /\ OneRepeats =>
    /\ ClosedByRefusal
    /\ ReserveUntouched
    /\ \A r \in Requests : WavesLast(r)
    /\ OneWaves
    /\ OneWave

-----------------------------------------------------------------------------
(***************************************************************************)
(* Rows, and the orders a flush can take.                                  *)
(***************************************************************************)
LEMMA RowFacts ==
  /\ Job \in Rows /\ Job \notin Offers
  /\ Offers \subseteq Rows
  /\ \A m \in Mechanics : m \in Offers /\ m # Job
  /\ \A q \in Requests, m \in Reserve : <<q, m>> \in Offers /\ <<q, m>> # Job
  /\ \A q \in Requests, m \in Reserve, n \in Mechanics : <<q, m>> # n
BY RowAssumption DEF Rows, Offers

LEMMA OffersFinite == IsFiniteSet(Offers)
<1>1. IsFiniteSet(Requests \X Reserve)
  BY FiniteAssumption, FS_Product
<1> QED
  BY <1>1, FiniteAssumption, FS_Union DEF Offers

LEMMA OrdersAreSequences ==
  ASSUME NEW W, IsFiniteSet(W), NEW q \in Orders(W)
  PROVE  q \in Seq(W) /\ Left(q) \subseteq W
<1>1. Cardinality(W) \in Nat
  BY FS_CardinalityType
<1>2. q \in [1 .. Cardinality(W) -> W]
  BY DEF Orders
<1> QED
  BY <1>1, <1>2 DEF Left

\* What remains of a flush after its first UPDATE.
LEMMA LeftTail ==
  ASSUME NEW S, NEW q \in Seq(S), q # <<>>
  PROVE  /\ Head(q) \in S /\ Head(q) \in Left(q)
         /\ Tail(q) \in Seq(S)
         /\ Left(Tail(q)) \subseteq Left(q)
         /\ Left(q) \subseteq Left(Tail(q)) \cup {Head(q)}
<1>1. Len(q) \in Nat /\ Len(q) # 0 /\ DOMAIN q = 1 .. Len(q)
  OBVIOUS
<1>2. Len(Tail(q)) = Len(q) - 1 /\ \A i \in 1 .. Len(q) - 1 : Tail(q)[i] = q[i + 1]
  BY <1>1
<1>3. Tail(q) \in Seq(S) /\ DOMAIN Tail(q) = 1 .. Len(q) - 1
  BY <1>1, <1>2
<1>4. Head(q) = q[1] /\ Head(q) \in S /\ Head(q) \in Left(q)
  BY <1>1 DEF Left
<1>5. Left(Tail(q)) \subseteq Left(q)
  BY <1>1, <1>2, <1>3 DEF Left
<1>6. ASSUME NEW i \in 1 .. Len(q)
      PROVE  q[i] \in Left(Tail(q)) \cup {Head(q)}
  <2>1. CASE i = 1
    BY <2>1, <1>4
  <2>2. CASE i # 1
    <3>1. i - 1 \in 1 .. Len(q) - 1 /\ q[i] = Tail(q)[i - 1]
      BY <2>2, <1>1, <1>2
    <3> QED
      BY <3>1, <1>3 DEF Left
  <2> QED
    BY <2>1, <2>2
<1> QED
  BY <1>1, <1>3, <1>4, <1>5, <1>6 DEF Left

\* A flush of one or of two UPDATEs runs each of them.
LEMMA OrdersOfOne ==
  ASSUME NEW a, NEW q \in Orders({a})
  PROVE  Left(q) = {a}
<1>1. Cardinality({a}) = 1
  BY FS_Singleton
<1>2. q \in [1 .. 1 -> {a}]
  BY <1>1 DEF Orders
<1> QED
  BY <1>2 DEF Left

LEMMA OrdersOfTwo ==
  ASSUME NEW a, NEW b, a # b, NEW q \in Orders({a, b})
  PROVE  Left(q) = {a, b}
<1>1. IsFiniteSet({a}) /\ Cardinality({a}) = 1
  BY FS_Singleton
<1>2. {a} \cup {b} = {a, b} /\ b \notin {a}
  OBVIOUS
<1>3. Cardinality({a, b}) = 2
  BY <1>1, <1>2, FS_AddElement
<1>4. q \in [1 .. 2 -> {a, b}] /\ q[1] # q[2]
  BY <1>3 DEF Orders
<1>5. q[1] \in {a, b} /\ q[2] \in {a, b} /\ DOMAIN q = 1 .. 2
  BY <1>4
<1> QED
  BY <1>4, <1>5 DEF Left

LEMMA AnswerIs ==
  ASSUME TypeOK, NEW r \in Requests
  PROVE  /\ Own(r) \in Mechanics
         /\ Accepts(r) =>
              Answer(r) = {<<Own(r), "accepted">>, <<Job, Own(r)>>}
         /\ ~Accepts(r) =>
              call[r].answer = "declined" /\ Answer(r) = {<<Own(r), "declined">>}
         /\ Answer(r) \subseteq Updates
         /\ StatusUpdate \notin Answer(r)
<1>1. Own(r) \in Mechanics /\ call[r].answer \in {"accepted", "declined"}
  BY DEF TypeOK, Own
<1>2. Accepts(r) => Answer(r) = {<<Own(r), "accepted">>, <<Job, Own(r)>>}
  BY DEF Answer, Accepts, Own
<1>3. ~Accepts(r) =>
        call[r].answer = "declined" /\ Answer(r) = {<<Own(r), "declined">>}
  BY <1>1 DEF Answer, Accepts, Own
<1>4. Answer(r) \subseteq Updates
  BY <1>1, <1>2, <1>3, RowFacts DEF Updates, Assignment, OfferStatus
<1>5. /\ StatusUpdate # <<Job, Own(r)>>
      /\ StatusUpdate # <<Own(r), "accepted">> /\ StatusUpdate # <<Own(r), "declined">>
  BY <1>1, RowFacts, StatusAssumption DEF StatusUpdate
<1> QED
  BY <1>1, <1>2, <1>3, <1>4, <1>5

LEMMA AnswerOrders ==
  ASSUME TypeOK, NEW r \in Requests, NEW q \in Orders(Answer(r))
  PROVE  Left(q) = Answer(r) /\ q \in Seq(Updates)
<1>1. Left(q) = Answer(r)
  <2>1. CASE Accepts(r)
    <3>1. <<Own(r), "accepted">> # <<Job, Own(r)>>
      BY AnswerIs, RowFacts
    <3>2. Answer(r) = {<<Own(r), "accepted">>, <<Job, Own(r)>>}
      BY <2>1, AnswerIs
    <3>3. q \in Orders({<<Own(r), "accepted">>, <<Job, Own(r)>>})
      BY <3>2
    <3>4. Left(q) = {<<Own(r), "accepted">>, <<Job, Own(r)>>}
      BY <3>1, <3>3, OrdersOfTwo
    <3> QED
      BY <3>2, <3>4
  <2>2. CASE ~Accepts(r)
    <3>1. Answer(r) = {<<Own(r), "declined">>}
      BY <2>2, AnswerIs
    <3>2. q \in Orders({<<Own(r), "declined">>})
      BY <3>1
    <3>3. Left(q) = {<<Own(r), "declined">>}
      BY <3>2, OrdersOfOne
    <3> QED
      BY <3>1, <3>3
  <2> QED
    BY <2>1, <2>2
<1>2. IsFiniteSet(Answer(r))
  <2>1. IsFiniteSet({<<Own(r), "accepted">>}) /\ IsFiniteSet({<<Job, Own(r)>>})
        /\ IsFiniteSet({<<Own(r), "declined">>})
    BY FS_Singleton
  <2>2. IsFiniteSet({<<Own(r), "accepted">>} \cup {<<Job, Own(r)>>})
    BY <2>1, FS_Union
  <2>3. {<<Own(r), "accepted">>} \cup {<<Job, Own(r)>>}
          = {<<Own(r), "accepted">>, <<Job, Own(r)>>}
    OBVIOUS
  <2> QED
    BY <2>1, <2>2, <2>3, AnswerIs
<1>3. q \in Seq(Answer(r))
  BY <1>2, OrdersAreSequences
<1> QED
  BY <1>1, <1>3, AnswerIs

\* The offers an acceptance supersedes.
LEMMA OthersOrders ==
  ASSUME NEW O \in SUBSET Offers,
         NEW q \in Orders({<<o, "superseded">> : o \in O})
  PROVE  /\ q \in Seq(Updates)
         /\ Left(q) \subseteq O \X {"superseded"}
<1> DEFINE W == {<<o, "superseded">> : o \in O}
<1>1. IsFiniteSet(O)
  BY OffersFinite, FS_Subset
<1>2. IsFiniteSet(W)
  <2>1. W = O \X {"superseded"}
    OBVIOUS
  <2>2. IsFiniteSet({"superseded"})
    BY FS_Singleton
  <2> QED
    BY <1>1, <2>1, <2>2, FS_Product
<1>3. W \subseteq Updates /\ W \subseteq O \X {"superseded"}
  BY RowFacts DEF Updates, OfferStatus
<1>4. q \in Seq(W) /\ Left(q) \subseteq W
  BY <1>2, OrdersAreSequences
<1> QED
  BY <1>3, <1>4

LEMMA UpdateFacts ==
  ASSUME NEW e \in Updates
  PROVE  /\ e = <<e[1], e[2]>> /\ e[1] \in Rows
         /\ e[1] = Job => e = StatusUpdate \/ e[2] \in Assignment
         /\ e[1] \in Offers => e # StatusUpdate /\ e[2] \in OfferStatus
         /\ e = StatusUpdate => e[1] = Job
BY RowFacts DEF Updates, StatusUpdate

-----------------------------------------------------------------------------
(***************************************************************************)
(* Type correctness.                                                       *)
(***************************************************************************)
LEMMA InitTypeOK == Init => TypeOK
<1> SUFFICES ASSUME Init PROVE TypeOK
  OBVIOUS
<1>1. db \in Contents
  <2>1. db[Job] \in Assignment /\ \A o \in Offers : db[o] \in OfferStatus
    BY RowFacts DEF Init, Assignment, OfferStatus, Open
  <2>2. db \in [Rows -> OfferStatus \cup Assignment]
    BY DEF Init, Assignment, OfferStatus, Open
  <2> QED
    BY <2>1, <2>2 DEF Contents
<1>2. queue \in [Requests -> Seq(Updates)]
  BY DEF Init
<1> QED
  BY <1>1, <1>2 DEF Init, TypeOK, Assignment

\* One more row is written.
LEMMA WriteContents ==
  ASSUME TypeOK, NEW r \in Requests, NEW e \in Updates
  PROVE  [dirty EXCEPT ![e[1]] = Written(r, e)] \in Contents
<1> DEFINE w == Written(r, e)
<1>1. Visible(r, Job) \in Assignment
  BY DEF TypeOK, Contents, Visible
<1>2. /\ e[1] \in Rows
      /\ e[1] = Job => w \in Assignment
      /\ e[1] \in Offers => w \in OfferStatus
  BY <1>1, UpdateFacts, RowFacts DEF Written
<1> HIDE DEF w
<1>3. dirty \in Contents
  BY DEF TypeOK
<1> QED
  <2> DEFINE d == [dirty EXCEPT ![e[1]] = w]
  <2>1. /\ DOMAIN d = Rows /\ d[e[1]] = w
        /\ \A x \in Rows \ {e[1]} : d[x] = dirty[x]
    BY <1>2, <1>3 DEF Contents
  <2>2. w \in OfferStatus \cup Assignment
    BY <1>2 DEF Rows
  <2>3. d \in [Rows -> OfferStatus \cup Assignment]
    BY <1>3, <2>2 DEF Contents
  <2>4. d[Job] \in Assignment /\ \A o \in Offers : d[o] \in OfferStatus
    BY <1>2, <1>3, <2>1, RowFacts DEF Contents
  <2>5. d \in Contents
    BY <2>3, <2>4 DEF Contents
  <2> QED
    BY <2>5 DEF w

\* Every step keeps the types.
LEMMA NextTypeOK == TypeOK /\ [Next]_vars => TypeOK'
<1> SUFFICES ASSUME TypeOK, [Next]_vars PROVE TypeOK'
  OBVIOUS
<1>1. ASSUME NEW r \in Requests, ReadJob(r) PROVE TypeOK'
  <2>1. db[Job] \in Assignment
    BY DEF TypeOK, Contents
  <2> QED
    BY <1>1, <2>1 DEF TypeOK, ReadJob, Goto, InFlight
<1>2. ASSUME NEW r \in Requests, ReadOffer(r) PROVE TypeOK'
  <2>1. \A q \in Orders(Answer(r)) : q \in Seq(Updates)
    BY AnswerOrders
  <2> QED
    BY <1>2, <2>1 DEF TypeOK, ReadOffer, Goto, InFlight
<1>3. ASSUME NEW r \in Requests, Write(r) PROVE TypeOK'
  <2> DEFINE e == Head(queue[r])
  <2>1. e \in Updates /\ Tail(queue[r]) \in Seq(Updates)
    BY <1>3, LeftTail DEF TypeOK, Write
  <2>2. dirty' \in Contents
    BY <1>3, <2>1, WriteContents DEF TypeOK, Write
  <2>3. lock' \in [Rows -> Requests \cup {NoRequest}]
    BY <1>3, <2>1, UpdateFacts DEF TypeOK, Write
  <2>4. queue' \in [Requests -> Seq(Updates)]
    BY <1>3, <2>1 DEF TypeOK, Write
  <2> QED
    BY <1>3, <2>2, <2>3, <2>4 DEF TypeOK, Write
<1>4. ASSUME NEW r \in Requests, SelectOthers(r) PROVE TypeOK'
  <2> DEFINE O == OpenTo(r) \ {call[r].mechanic}
  <2>1. O \in SUBSET Offers
    BY DEF OpenTo
  <2>2. PICK q \in Orders({<<o, "superseded">> : o \in O}) :
          queue' = [queue EXCEPT ![r] = q]
    BY <1>4 DEF SelectOthers
  <2>3. q \in Seq(Updates)
    BY <2>1, OthersOrders
  <2> HIDE DEF O
  <2> QED
    BY <1>4, <2>2, <2>3 DEF TypeOK, SelectOthers, Goto, InFlight
<1>5. ASSUME NEW r \in Requests, CheckPending(r) PROVE TypeOK'
  BY <1>5 DEF TypeOK, CheckPending, Goto, InFlight
<1>6. ASSUME NEW r \in Requests, InsertWave(r) PROVE TypeOK'
  <2>1. PICK S \in SUBSET Candidates(r) :
          /\ lock' = [x \in Rows |-> IF x \in {r} \X S THEN r ELSE lock[x]]
          /\ dirty' = [x \in Rows |-> IF x \in {r} \X S THEN "calling" ELSE dirty[x]]
    BY <1>6 DEF InsertWave
  <2>2. Job \notin {r} \X S
    BY RowFacts DEF Candidates
  <2>3. dirty' \in [Rows -> OfferStatus \cup Assignment]
    BY <2>1 DEF TypeOK, Contents, OfferStatus, Open
  <2>4. dirty'[Job] \in Assignment /\ \A o \in Offers : dirty'[o] \in OfferStatus
    BY <2>1, <2>2, RowFacts DEF TypeOK, Contents, OfferStatus, Open
  <2>5. lock' \in [Rows -> Requests \cup {NoRequest}]
    BY <2>1 DEF TypeOK
  <2>6. <<StatusUpdate>> \in Seq(Updates)
    BY DEF Updates
  <2>7. queue' \in [Requests -> Seq(Updates)]
    BY <1>6, <2>6 DEF TypeOK, InsertWave
  <2> QED
    BY <1>6, <2>3, <2>4, <2>5, <2>7 DEF TypeOK, Contents, InsertWave, Goto, InFlight
<1>7. ASSUME NEW r \in Requests, Commit(r) PROVE TypeOK'
  <2>1. db' \in Contents
    BY <1>7, RowFacts DEF TypeOK, Contents, Commit, Visible
  <2>2. lock' \in [Rows -> Requests \cup {NoRequest}]
    BY <1>7 DEF TypeOK, Commit, Unlocked
  <2> QED
    BY <1>7, <2>1, <2>2 DEF TypeOK, Commit, Goto, InFlight
<1>8. ASSUME NEW r \in Requests, RollBack(r) PROVE TypeOK'
  <2>1. lock' \in [Rows -> Requests \cup {NoRequest}]
    BY <1>8 DEF TypeOK, RollBack, Unlocked
  <2> QED
    BY <1>8, <2>1 DEF TypeOK, RollBack, Goto, InFlight
<1>9. CASE UNCHANGED vars
  BY <1>9 DEF TypeOK, vars
<1> QED
  BY <1>1, <1>2, <1>3, <1>4, <1>5, <1>6, <1>7, <1>8, <1>9
  DEF Next, Handle, DeadlockAbort, Crash

\* The variables of the handlers and of the database keep their types: an
\* offer's row holds a status of the offer, the job's row a mechanic or NULL,
\* and every flush writes what its row may hold.
THEOREM TypeCorrect == Spec => []TypeOK
  BY InitTypeOK, NextTypeOK, PTL DEF Spec

-----------------------------------------------------------------------------
(***************************************************************************)
(* Locks.                                                                  *)
(***************************************************************************)
LEMMA InitLockInv == Init => LockInv
<1> SUFFICES ASSUME Init, NEW r \in Requests PROVE Held(r) /\ Flushed(r)
  BY DEF LockInv
<1>1. TypeOK
  BY InitTypeOK
<1>2. pc[r] = "idle" /\ queue[r] = <<>> /\ \A x \in Rows : lock[x] # r
  BY NoRequestAssumption DEF Init
<1>3. Own(r) \in Rows
  BY <1>1, AnswerIs, RowFacts
<1> QED
  BY <1>2, <1>3, RowFacts
  DEF Held, HeldInFlight, HeldJob, HeldOwn, HeldOthers, Flushed, FlushesAnswer,
      HoldsAnswer, SecondFlush, NoFlush

\* A step of r leaves the other handlers where they are, takes no row from
\* them that their answers need, and writes none they hold.
OnlyTouches(r) ==
  /\ call' = call
  /\ \A q \in Requests \ {r} :
       /\ pc'[q] = pc[q] /\ queue'[q] = queue[q]
       /\ \A x \in Rows : lock'[x] = q => lock[x] = q /\ dirty'[x] = dirty[x]
       /\ \A x \in Mechanics \cup {Job} : lock[x] = q => lock'[x] = q
       /\ lock'[Job] = q => db'[Job] = db[Job]

LEMMA AnswerRows ==
  ASSUME TypeOK, NEW r \in Requests
  PROVE  \A e \in Answer(r) : e[1] \in Mechanics \cup {Job}
BY AnswerIs

LEMMA HeldAnswer ==
  ASSUME TypeOK, NEW r \in Requests, \A e \in Answer(r) : lock[e[1]] = r
  PROVE  lock[Own(r)] = r /\ (Accepts(r) => lock[Job] = r)
<1>1. CASE Accepts(r)
  <2>1. <<Own(r), "accepted">> \in Answer(r) /\ <<Job, Own(r)>> \in Answer(r)
    BY <1>1, AnswerIs
  <2>2. <<Own(r), "accepted">>[1] = Own(r) /\ <<Job, Own(r)>>[1] = Job
    OBVIOUS
  <2> QED
    BY <2>1, <2>2
<1>2. CASE ~Accepts(r)
  <2>1. <<Own(r), "declined">> \in Answer(r)
    BY <1>2, AnswerIs
  <2>2. <<Own(r), "declined">>[1] = Own(r)
    OBVIOUS
  <2> QED
    BY <1>2, <2>1, <2>2
<1> QED
  BY <1>1, <1>2

LEMMA SameAnswer ==
  ASSUME call' = call, NEW r
  PROVE  Answer(r)' = Answer(r) /\ Own(r)' = Own(r) /\ Accepts(r)' = Accepts(r)
BY DEF Answer, Own, Accepts

LEMMA OthersKept ==
  ASSUME TypeOK, LockInv, NEW r \in Requests, OnlyTouches(r),
         NEW q \in Requests \ {r}
  PROVE  Held(q)' /\ Flushed(q)'
<1>1. Held(q) /\ Flushed(q)
  BY DEF LockInv
<1>2. /\ pc'[q] = pc[q] /\ queue'[q] = queue[q]
      /\ \A x \in Rows : lock'[x] = q => lock[x] = q /\ dirty'[x] = dirty[x]
      /\ \A x \in Mechanics \cup {Job} : lock[x] = q => lock'[x] = q
      /\ lock'[Job] = q => db'[Job] = db[Job]
  BY DEF OnlyTouches
<1>3. /\ Answer(q)' = Answer(q) /\ Own(q)' = Own(q) /\ Accepts(q)' = Accepts(q)
      /\ call' = call
  BY SameAnswer DEF OnlyTouches
<1>4. Own(q) \in Mechanics /\ Own(q) \in Rows /\ Job \in Rows
  BY AnswerIs, RowFacts
<1>5. HeldInFlight(q)'
  BY <1>1, <1>2 DEF Held, HeldInFlight
<1>6. HeldJob(q)'
  BY <1>1, <1>2, <1>3, <1>4 DEF Held, HeldJob
<1>7. HeldOwn(q)'
  BY <1>1, <1>2, <1>3, <1>4 DEF Held, HeldOwn
<1>8. HeldOthers(q)'
  BY <1>1, <1>2, <1>3, RowFacts DEF Held, HeldOthers
<1>9. FlushesAnswer(q)'
  BY <1>1, <1>2, <1>3, AnswerRows DEF Flushed, FlushesAnswer
<1>10. HoldsAnswer(q)'
  BY <1>1, <1>2, <1>3, AnswerRows DEF Flushed, HoldsAnswer
<1>11. SecondFlush(q)'
  BY <1>1, <1>2, <1>3 DEF Flushed, SecondFlush
<1>12. NoFlush(q)'
  BY <1>1, <1>2, <1>3 DEF Flushed, NoFlush
<1> QED
  BY <1>5, <1>6, <1>7, <1>8, <1>9, <1>10, <1>11, <1>12 DEF Held, Flushed

\* It is enough to look at the handler that takes the step.
LEMMA OneHandlerSteps ==
  ASSUME TypeOK, LockInv, NEW r \in Requests, OnlyTouches(r),
         Held(r)', Flushed(r)'
  PROVE  LockInv'
BY OthersKept DEF LockInv

\* A handler that holds the same rows as before.
LEMMA SameRows ==
  ASSUME TypeOK, NEW r \in Requests, Held(r), call' = call,
         lock' = lock, dirty' = dirty, db' = db, pc[r] # "commit",
         pc'[r] \in {"flush", "wave", "commit"} \/ pc[r] \notin {"flush", "wave", "commit"}
  PROVE  Held(r)'
<1>1. Own(r)' = Own(r) /\ Accepts(r)' = Accepts(r)
  BY SameAnswer
<1>2. HeldInFlight(r)'
  BY DEF Held, HeldInFlight
<1>3. HeldJob(r)' /\ HeldOwn(r)'
  BY <1>1 DEF Held, HeldJob, HeldOwn
<1>4. HeldOthers(r)'
  BY <1>1 DEF Held, HeldOthers
<1> QED
  BY <1>2, <1>3, <1>4 DEF Held

LEMMA ReadJobKeepsLocks ==
  ASSUME TypeOK, LockInv, NEW r \in Requests, ReadJob(r)
  PROVE  LockInv'
<1>1. /\ pc[r] = "idle" /\ pc'[r] = "job_read"
      /\ \A q \in Requests \ {r} : pc'[q] = pc[q]
      /\ call' = call /\ queue' = queue /\ lock' = lock /\ dirty' = dirty /\ db' = db
  BY DEF ReadJob, Goto, TypeOK
<1>2. OnlyTouches(r)
  BY <1>1 DEF OnlyTouches
<1>3. Held(r) /\ Flushed(r)
  BY DEF LockInv
<1>4. Held(r)'
  BY <1>1, <1>3, SameRows
<1>5. Flushed(r)'
  BY <1>1, <1>3
  DEF Flushed, FlushesAnswer, HoldsAnswer, SecondFlush, NoFlush
<1> QED
  BY <1>2, <1>4, <1>5, OneHandlerSteps

LEMMA ReadOfferKeepsLocks ==
  ASSUME TypeOK, LockInv, NEW r \in Requests, ReadOffer(r)
  PROVE  LockInv'
<1>1. /\ pc[r] = "job_read" /\ pc'[r] \in {"flush", "done"}
      /\ \A q \in Requests \ {r} : pc'[q] = pc[q] /\ queue'[q] = queue[q]
      /\ call' = call /\ lock' = lock /\ dirty' = dirty /\ db' = db
  BY DEF ReadOffer, Goto, TypeOK
<1>2. OnlyTouches(r)
  BY <1>1 DEF OnlyTouches
<1>3. Held(r) /\ Flushed(r)
  BY DEF LockInv
<1>4. Held(r)'
  BY <1>1, <1>3, SameRows
<1>5. Answer(r)' = Answer(r) /\ Accepts(r)' = Accepts(r)
  BY <1>1, SameAnswer
<1>6. CASE pc'[r] = "flush"
  <2>1. PICK q \in Orders(Answer(r)) : queue'[r] = q
    BY <1>6 DEF ReadOffer, Goto, TypeOK
  <2>2. Left(queue'[r]) = Answer(r)
    BY <2>1, AnswerOrders
  <2>3. FlushesAnswer(r)'
    BY <2>2, <1>5 DEF FlushesAnswer
  <2> QED
    BY <1>2, <1>4, <1>6, <2>3, OneHandlerSteps
    DEF Flushed, HoldsAnswer, SecondFlush, NoFlush
<1>7. CASE pc'[r] = "done"
  <2>1. queue'[r] = queue[r]
    BY <1>7 DEF ReadOffer, Goto, TypeOK
  <2>2. queue[r] = <<>>
    BY <1>1, <1>3 DEF Flushed, NoFlush
  <2> QED
    BY <1>2, <1>4, <1>7, <2>1, <2>2, OneHandlerSteps
    DEF Flushed, FlushesAnswer, HoldsAnswer, SecondFlush, NoFlush
<1> QED
  BY <1>1, <1>6, <1>7

\* An UPDATE of the first flush writes a row of the answer, one of the second
\* supersedes another offer or writes the status of the job.
LEMMA WritesWhat ==
  ASSUME TypeOK, LockInv, NEW r \in Requests, Write(r)
  PROVE  LET e == Head(queue[r])
         IN  /\ e \in Updates
             /\ lock[e[1]] \in {r, NoRequest}
             /\ lock' = [lock EXCEPT ![e[1]] = r]
             /\ dirty' = [dirty EXCEPT ![e[1]] = Written(r, e)]
             /\ queue'[r] = Tail(queue[r])
             /\ \A q \in Requests \ {r} : queue'[q] = queue[q]
             /\ call' = call /\ pc' = pc /\ db' = db
             /\ Left(queue'[r]) \subseteq Left(queue[r])
             /\ Left(queue[r]) \subseteq Left(queue'[r]) \cup {e}
             /\ \/ pc[r] = "flush" /\ e \in Answer(r) /\ Written(r, e) = e[2]
                \/ /\ pc[r] = "commit" /\ Accepts(r) /\ Written(r, e) = e[2]
                   /\ e \in (Offers \ {Own(r)}) \X {"superseded"}
                \/ /\ pc[r] = "commit" /\ ~Accepts(r)
                   /\ e = StatusUpdate /\ queue'[r] = <<>>
<1> DEFINE e == Head(queue[r])
<1>1. queue[r] \in Seq(Updates) /\ queue[r] # <<>>
  BY DEF TypeOK, Write
<1>2. /\ e \in Updates /\ e \in Left(queue[r])
      /\ Left(Tail(queue[r])) \subseteq Left(queue[r])
      /\ Left(queue[r]) \subseteq Left(Tail(queue[r])) \cup {e}
  BY <1>1, LeftTail
<1>3. /\ lock' = [lock EXCEPT ![e[1]] = r]
      /\ dirty' = [dirty EXCEPT ![e[1]] = Written(r, e)]
      /\ queue'[r] = Tail(queue[r])
      /\ \A q \in Requests \ {r} : queue'[q] = queue[q]
      /\ call' = call /\ pc' = pc /\ db' = db
  BY DEF Write, TypeOK
<1>4. lock[e[1]] \in {r, NoRequest}
  BY DEF Write, Blocked
<1>5. pc[r] \in {"flush", "commit"} /\ FlushesAnswer(r) /\ SecondFlush(r)
  BY <1>1 DEF LockInv, Flushed, NoFlush
<1>6. CASE pc[r] = "flush"
  <2>1. e \in Answer(r) /\ Written(r, e) = e[2]
    BY <1>2, <1>5, <1>6, AnswerIs DEF FlushesAnswer, Written
  <2> QED
    BY <1>2, <1>3, <1>4, <1>6, <2>1
<1>7. CASE pc[r] = "commit" /\ Accepts(r)
  <2>1. e \in (Offers \ {Own(r)}) \X {"superseded"}
    BY <1>2, <1>5, <1>7 DEF SecondFlush
  <2>2. Written(r, e) = e[2]
    BY <2>1, RowFacts DEF Written, StatusUpdate
  <2> QED
    BY <1>2, <1>3, <1>4, <1>7, <2>1, <2>2
<1>8. CASE pc[r] = "commit" /\ ~Accepts(r)
  <2>1. queue[r] = <<StatusUpdate>>
    BY <1>1, <1>5, <1>8 DEF SecondFlush
  <2>2. e = StatusUpdate /\ queue'[r] = <<>>
    BY <1>3, <2>1
  <2> QED
    BY <1>2, <1>3, <1>4, <1>8, <2>2
<1> QED
  BY <1>5, <1>6, <1>7, <1>8

LEMMA WriteKeepsLocks ==
  ASSUME TypeOK, LockInv, NEW r \in Requests, Write(r)
  PROVE  LockInv'
<1> DEFINE e == Head(queue[r])
           x == e[1]
<1>1. /\ e \in Updates
      /\ lock[x] \in {r, NoRequest}
      /\ lock' = [lock EXCEPT ![x] = r] /\ dirty' = [dirty EXCEPT ![x] = Written(r, e)]
      /\ \A q \in Requests \ {r} : queue'[q] = queue[q]
      /\ call' = call /\ pc' = pc /\ db' = db
  BY WritesWhat
<1>2. /\ Left(queue'[r]) \subseteq Left(queue[r])
      /\ Left(queue[r]) \subseteq Left(queue'[r]) \cup {e}
  BY WritesWhat
<1>3. \/ pc[r] = "flush" /\ e \in Answer(r) /\ Written(r, e) = e[2]
      \/ /\ pc[r] = "commit" /\ Accepts(r) /\ Written(r, e) = e[2]
         /\ e \in (Offers \ {Own(r)}) \X {"superseded"}
      \/ /\ pc[r] = "commit" /\ ~Accepts(r)
         /\ e = StatusUpdate /\ queue'[r] = <<>>
  BY WritesWhat
<1>4. x \in Rows /\ e = <<x, e[2]>>
  BY <1>1, UpdateFacts
<1>5. Held(r) /\ Flushed(r)
  BY DEF LockInv
<1>6. Answer(r)' = Answer(r) /\ Own(r)' = Own(r) /\ Accepts(r)' = Accepts(r)
  BY <1>1, SameAnswer
<1>7. /\ lock'[x] = r /\ dirty'[x] = Written(r, e)
      /\ \A y \in Rows \ {x} : lock'[y] = lock[y] /\ dirty'[y] = dirty[y]
  BY <1>1, <1>4 DEF TypeOK, Contents
<1> HIDE DEF e, x
<1>8. OnlyTouches(r)
  <2>1. ASSUME NEW q \in Requests \ {r}, NEW y \in Rows
        PROVE  /\ lock'[y] = q => lock[y] = q /\ dirty'[y] = dirty[y]
               /\ lock[y] = q => lock'[y] = q
    BY <1>1, <1>7, NoRequestAssumption
  <2> QED
    BY <1>1, <2>1, RowFacts DEF OnlyTouches
<1>9. HeldInFlight(r)'
  BY <1>1, <1>3 DEF HeldInFlight
<1>10. CASE pc[r] = "flush" /\ e \in Answer(r) /\ Written(r, e) = e[2]
  <2>1. \/ x = Own(r) /\ e[2] = call[r].answer
        \/ x = Job /\ e[2] = Own(r) /\ Accepts(r)
    BY <1>10, AnswerIs DEF Accepts, x
  <2>2. Own(r) \in Offers /\ Own(r) \in Rows /\ Own(r) # Job
    BY AnswerIs, RowFacts
  <2>3. HeldJob(r)'
    BY <1>5, <1>6, <1>7, <1>10, <2>1, <2>2, RowFacts DEF Held, HeldJob
  <2>4. HeldOwn(r)'
    BY <1>1, <1>5, <1>6, <1>7, <1>10, <2>1, <2>2, RowFacts DEF Held, HeldOwn
  <2>5. HeldOthers(r)'
    <3> SUFFICES ASSUME NEW o \in Offers \ {Own(r)}, lock'[o] = r PROVE FALSE
      BY <1>6 DEF HeldOthers
    <3>1. o \in Rows /\ o # x
      BY <2>1, RowFacts
    <3>2. lock[o] = r
      BY <1>7, <3>1
    <3> QED
      BY <1>5, <1>10, <3>2 DEF Held, HeldOthers
  <2>6. FlushesAnswer(r)'
    <3>1. Left(queue[r]) \subseteq Answer(r)
          /\ \A f \in Answer(r) : f \in Left(queue[r]) \/ lock[f[1]] = r
      BY <1>5, <1>10 DEF Flushed, FlushesAnswer
    <3>2. ASSUME NEW f \in Answer(r)
          PROVE  f \in Left(queue'[r]) \/ lock'[f[1]] = r
      <4>1. f[1] \in Rows
        BY AnswerRows, RowFacts
      <4> QED
        BY <1>2, <1>7, <3>1, <4>1 DEF x
    <3> QED
      BY <1>2, <1>6, <3>1, <3>2 DEF FlushesAnswer
  <2> QED
    BY <1>1, <1>8, <1>9, <1>10, <2>3, <2>4, <2>5, <2>6, OneHandlerSteps
    DEF Held, Flushed, HoldsAnswer, SecondFlush, NoFlush
<1>11. CASE /\ pc[r] = "commit" /\ Accepts(r) /\ Written(r, e) = e[2]
            /\ e \in (Offers \ {Own(r)}) \X {"superseded"}
  <2>1. x \in Offers /\ x # Own(r) /\ x # Job /\ e[2] = "superseded"
    BY <1>11, RowFacts DEF x
  <2>2. Own(r) \in Rows
    BY AnswerIs, RowFacts
  <2>3. HeldJob(r)' /\ HeldOwn(r)'
    BY <1>1, <1>5, <1>6, <1>7, <1>11, <2>1, <2>2, RowFacts DEF Held, HeldJob, HeldOwn
  <2>4. HeldOthers(r)'
    <3> SUFFICES ASSUME NEW o \in Offers \ {Own(r)}, lock'[o] = r
                 PROVE  dirty'[o] = "superseded"
      BY <1>1, <1>6, <1>11 DEF HeldOthers
    <3>1. o \in Rows
      BY RowFacts
    <3>2. CASE o = x
      BY <1>7, <1>11, <2>1, <3>2
    <3>3. CASE o # x
      BY <1>5, <1>7, <1>11, <3>1, <3>3 DEF Held, HeldOthers
    <3> QED
      BY <3>2, <3>3
  <2>5. HoldsAnswer(r)'
    <3>1. \A f \in Answer(r) : lock[f[1]] = r
      BY <1>5, <1>11 DEF Flushed, HoldsAnswer
    <3>2. \A f \in Answer(r) : lock'[f[1]] = r
      BY <1>7, <3>1, AnswerRows, RowFacts
    <3> QED
      BY <1>6, <3>2 DEF HoldsAnswer
  <2>6. SecondFlush(r)'
    BY <1>1, <1>2, <1>5, <1>6, <1>11 DEF Flushed, SecondFlush
  <2> QED
    BY <1>1, <1>8, <1>9, <1>11, <2>3, <2>4, <2>5, <2>6, OneHandlerSteps
    DEF Held, Flushed, FlushesAnswer, NoFlush
<1>12. CASE /\ pc[r] = "commit" /\ ~Accepts(r)
            /\ e = StatusUpdate /\ queue'[r] = <<>>
  <2>1. x = Job /\ \A o \in Offers : o \in Rows \ {x}
    BY <1>12, RowFacts DEF StatusUpdate, x
  <2>2. Own(r) \in Offers
    BY AnswerIs, RowFacts
  <2>3. HeldJob(r)'
    <3>1. Visible(r, Job) = db[Job]
      BY <1>5, <1>12 DEF Held, HeldJob, Visible
    <3> QED
      BY <1>1, <1>6, <1>7, <1>12, <2>1, <3>1 DEF HeldJob, Written
  <2>4. HeldOwn(r)' /\ HeldOthers(r)'
    BY <1>1, <1>5, <1>6, <1>7, <2>1, <2>2 DEF Held, HeldOwn, HeldOthers
  <2>5. HoldsAnswer(r)'
    <3>1. \A f \in Answer(r) : lock[f[1]] = r
      BY <1>5, <1>12 DEF Flushed, HoldsAnswer
    <3>2. \A f \in Answer(r) : lock'[f[1]] = r
      BY <1>7, <3>1, AnswerRows, RowFacts
    <3> QED
      BY <1>6, <3>2 DEF HoldsAnswer
  <2> QED
    BY <1>1, <1>6, <1>8, <1>9, <1>12, <2>3, <2>4, <2>5, OneHandlerSteps
    DEF Held, Flushed, FlushesAnswer, SecondFlush, NoFlush
<1> QED
  BY <1>3, <1>10, <1>11, <1>12

\* When nothing of the first flush is left, the rows of the answer are held.
LEMMA FlushedAnswer ==
  ASSUME LockInv, NEW r \in Requests, pc[r] = "flush", queue[r] = <<>>
  PROVE  \A e \in Answer(r) : lock[e[1]] = r
<1>1. Left(queue[r]) = {}
  BY DEF Left
<1> QED
  BY <1>1 DEF LockInv, Flushed, FlushesAnswer

LEMMA SelectOthersKeepsLocks ==
  ASSUME TypeOK, LockInv, NEW r \in Requests, SelectOthers(r)
  PROVE  LockInv'
<1> DEFINE O == OpenTo(r) \ {call[r].mechanic}
<1>1. PICK u \in Orders({<<o, "superseded">> : o \in O}) :
        queue' = [queue EXCEPT ![r] = u]
  BY DEF SelectOthers
<1>2. O \in SUBSET (Offers \ {Own(r)})
  BY DEF OpenTo, Own
<1>3. Left(u) \subseteq O \X {"superseded"}
  BY <1>2, OthersOrders
<1> HIDE DEF O
<1>4. /\ pc[r] = "flush" /\ queue[r] = <<>> /\ Accepts(r)
      /\ pc'[r] = "commit" /\ queue'[r] = u
      /\ \A q \in Requests \ {r} : pc'[q] = pc[q] /\ queue'[q] = queue[q]
      /\ call' = call /\ lock' = lock /\ dirty' = dirty /\ db' = db
  BY <1>1 DEF SelectOthers, Goto, TypeOK, Accepts
<1>5. OnlyTouches(r)
  BY <1>4 DEF OnlyTouches
<1>6. Held(r) /\ Flushed(r)
  BY DEF LockInv
<1>7. Held(r)'
  BY <1>4, <1>6, SameRows
<1>8. Answer(r)' = Answer(r) /\ Own(r)' = Own(r) /\ Accepts(r)' = Accepts(r)
  BY <1>4, SameAnswer
<1>9. HoldsAnswer(r)'
  BY <1>4, <1>8, FlushedAnswer DEF HoldsAnswer
<1>10. SecondFlush(r)'
  BY <1>2, <1>3, <1>4, <1>8 DEF SecondFlush
<1> QED
  BY <1>4, <1>5, <1>7, <1>9, <1>10, OneHandlerSteps
  DEF Flushed, FlushesAnswer, NoFlush

LEMMA CheckPendingKeepsLocks ==
  ASSUME TypeOK, LockInv, NEW r \in Requests, CheckPending(r)
  PROVE  LockInv'
<1>1. /\ pc[r] = "flush" /\ queue[r] = <<>> /\ ~Accepts(r)
      /\ pc'[r] \in {"commit", "wave"} /\ queue' = queue
      /\ \A q \in Requests \ {r} : pc'[q] = pc[q]
      /\ call' = call /\ lock' = lock /\ dirty' = dirty /\ db' = db
  BY DEF CheckPending, Goto, TypeOK, Accepts
<1>2. OnlyTouches(r)
  BY <1>1 DEF OnlyTouches
<1>3. Held(r) /\ Flushed(r)
  BY DEF LockInv
<1>4. Held(r)'
  BY <1>1, <1>3, SameRows
<1>5. Answer(r)' = Answer(r) /\ Accepts(r)' = Accepts(r)
  BY <1>1, SameAnswer
<1>6. HoldsAnswer(r)'
  BY <1>1, <1>5, FlushedAnswer DEF HoldsAnswer
<1>7. SecondFlush(r)'
  BY <1>1, <1>5 DEF SecondFlush
<1> QED
  BY <1>1, <1>2, <1>4, <1>5, <1>6, <1>7, OneHandlerSteps
  DEF Flushed, FlushesAnswer, NoFlush

\* The rows a wave inserts are new: no answer is about them.
LEMMA InsertsWhat ==
  ASSUME TypeOK, LockInv, NEW r \in Requests, InsertWave(r)
  PROVE  /\ pc[r] = "wave" /\ pc'[r] = "commit" /\ ~Accepts(r)
         /\ \A q \in Requests \ {r} : pc'[q] = pc[q]
         /\ call' = call /\ db' = db /\ sessions' = sessions
         /\ \A q \in Requests \ {r} : queue'[q] = queue[q]
         /\ queue'[r] \in {<<>>, <<StatusUpdate>>}
         /\ \E S \in SUBSET Reserve :
              /\ {r} \X S \subseteq Offers
              /\ \A x \in {r} \X S : lock'[x] = r /\ dirty'[x] = "calling"
              /\ \A x \in Rows \ ({r} \X S) : lock'[x] = lock[x] /\ dirty'[x] = dirty[x]
<1>1. PICK S \in SUBSET Candidates(r) :
        /\ lock' = [x \in Rows |-> IF x \in {r} \X S THEN r ELSE lock[x]]
        /\ dirty' = [x \in Rows |-> IF x \in {r} \X S THEN "calling" ELSE dirty[x]]
  BY DEF InsertWave
<1>2. S \in SUBSET Reserve /\ {r} \X S \subseteq Offers /\ {r} \X S \subseteq Rows
  BY RowFacts DEF Candidates
<1>3. /\ \A x \in {r} \X S : lock'[x] = r /\ dirty'[x] = "calling"
      /\ \A x \in Rows \ ({r} \X S) : lock'[x] = lock[x] /\ dirty'[x] = dirty[x]
  BY <1>1, <1>2
<1>4. /\ pc[r] = "wave" /\ pc'[r] = "commit"
      /\ \A q \in Requests \ {r} : pc'[q] = pc[q]
      /\ call' = call /\ db' = db /\ sessions' = sessions
      /\ \A q \in Requests \ {r} : queue'[q] = queue[q]
      /\ queue'[r] \in {queue[r], <<StatusUpdate>>}
  BY DEF InsertWave, Goto, TypeOK
<1>5. ~Accepts(r) /\ queue[r] = <<>>
  BY <1>4 DEF LockInv, Flushed, NoFlush
<1> QED
  BY <1>2, <1>3, <1>4, <1>5

LEMMA InsertWaveKeepsLocks ==
  ASSUME TypeOK, LockInv, NEW r \in Requests, InsertWave(r)
  PROVE  LockInv'
<1>1. /\ pc[r] = "wave" /\ pc'[r] = "commit" /\ ~Accepts(r)
      /\ \A q \in Requests \ {r} : pc'[q] = pc[q] /\ queue'[q] = queue[q]
      /\ call' = call /\ db' = db /\ queue'[r] \in {<<>>, <<StatusUpdate>>}
  BY InsertsWhat
<1>2. PICK S \in SUBSET Reserve :
        /\ {r} \X S \subseteq Offers
        /\ \A x \in {r} \X S : lock'[x] = r /\ dirty'[x] = "calling"
        /\ \A x \in Rows \ ({r} \X S) : lock'[x] = lock[x] /\ dirty'[x] = dirty[x]
  BY InsertsWhat
<1>3. \A x \in Mechanics \cup {Job} : x \in Rows \ ({r} \X S)
  BY RowFacts
<1>4. OnlyTouches(r)
  <2>1. ASSUME NEW q \in Requests \ {r}, NEW x \in Rows, lock'[x] = q
        PROVE  lock[x] = q /\ dirty'[x] = dirty[x]
    BY <1>2, <2>1
  <2> QED
    BY <1>1, <1>2, <1>3, <2>1 DEF OnlyTouches
<1>5. Held(r) /\ Flushed(r)
  BY DEF LockInv
<1>6. Answer(r)' = Answer(r) /\ Own(r)' = Own(r) /\ Accepts(r)' = Accepts(r)
  BY <1>1, SameAnswer
<1>7. Own(r) \in Mechanics
  BY AnswerIs
<1>8. HeldInFlight(r)'
  BY <1>1 DEF HeldInFlight
<1>9. HeldJob(r)' /\ HeldOwn(r)'
  BY <1>1, <1>2, <1>3, <1>5, <1>6, <1>7 DEF Held, HeldJob, HeldOwn
<1>10. HeldOthers(r)'
  <2> SUFFICES ASSUME NEW o \in Offers \ {Own(r)}, lock'[o] = r
               PROVE  o \in {r} \X Reserve /\ dirty'[o] = "calling"
    BY <1>1, <1>6 DEF HeldOthers
  <2>1. CASE o \in {r} \X S
    BY <1>2, <2>1
  <2>2. CASE o \notin {r} \X S
    <3>1. lock[o] = r
      BY <1>2, <2>2, RowFacts
    <3> QED
      BY <1>1, <1>5, <3>1 DEF Held, HeldOthers
  <2> QED
    BY <2>1, <2>2
<1>11. HoldsAnswer(r)'
  <2>1. \A e \in Answer(r) : lock[e[1]] = r
    BY <1>1, <1>5 DEF Flushed, HoldsAnswer
  <2>2. \A e \in Answer(r) : lock'[e[1]] = r
    BY <1>2, <1>3, <2>1, AnswerRows
  <2> QED
    BY <1>6, <2>2 DEF HoldsAnswer
<1>12. SecondFlush(r)'
  BY <1>1, <1>6 DEF SecondFlush
<1> QED
  BY <1>1, <1>4, <1>8, <1>9, <1>10, <1>11, <1>12, OneHandlerSteps
  DEF Held, Flushed, FlushesAnswer, NoFlush

\* The end of a handler: its rows are released and its flush is forgotten.
LEMMA EndKeepsLocks ==
  ASSUME TypeOK, LockInv, NEW r \in Requests,
         call' = call, dirty' = dirty, lock' = Unlocked(r),
         pc'[r] \in {"done", "failed"}, queue'[r] = <<>>,
         lock[Job] # r => db'[Job] = db[Job],
         \A q \in Requests \ {r} : pc'[q] = pc[q] /\ queue'[q] = queue[q]
  PROVE  LockInv'
<1>1. \A x \in Rows : lock'[x] # r /\ (lock[x] # r => lock'[x] = lock[x])
  BY NoRequestAssumption DEF Unlocked
<1>2. \A x \in Rows, q \in Requests \ {r} : lock'[x] = q <=> lock[x] = q
  BY NoRequestAssumption DEF Unlocked
<1>3. OnlyTouches(r)
  BY <1>2, RowFacts DEF OnlyTouches
<1>4. Own(r)' \in Rows
  BY SameAnswer, AnswerIs, RowFacts
<1>5. Held(r)'
  BY <1>1, <1>4, RowFacts DEF Held, HeldInFlight, HeldJob, HeldOwn, HeldOthers
<1>6. Flushed(r)'
  BY DEF Flushed, FlushesAnswer, HoldsAnswer, SecondFlush, NoFlush
<1> QED
  BY <1>3, <1>5, <1>6, OneHandlerSteps

LEMMA NextLockInv == TypeOK /\ LockInv /\ [Next]_vars => LockInv'
<1> SUFFICES ASSUME TypeOK, LockInv, [Next]_vars PROVE LockInv'
  OBVIOUS
<1>1. ASSUME NEW r \in Requests, Commit(r) PROVE LockInv'
  BY <1>1, RowFacts, EndKeepsLocks DEF Commit, Goto, TypeOK, Visible
<1>2. ASSUME NEW r \in Requests, RollBack(r) PROVE LockInv'
  BY <1>2, EndKeepsLocks DEF RollBack, Goto, TypeOK
<1>3. CASE UNCHANGED vars
  BY <1>3
  DEF vars, LockInv, Held, HeldInFlight, HeldJob, HeldOwn, HeldOthers, Flushed,
      FlushesAnswer, HoldsAnswer, SecondFlush, NoFlush, Own, Accepts, Answer, Left
<1> QED
  BY <1>1, <1>2, <1>3, ReadJobKeepsLocks, ReadOfferKeepsLocks, WriteKeepsLocks,
     SelectOthersKeepsLocks, CheckPendingKeepsLocks, InsertWaveKeepsLocks
  DEF Next, Handle, DeadlockAbort, Crash

-----------------------------------------------------------------------------
(***************************************************************************)
(* What a commit publishes.                                                *)
(***************************************************************************)
\* Committed rows change when a handler that holds its answer commits, and
\* only those it holds.
LEMMA CommitsWhat ==
  ASSUME TypeOK, LockInv, NEW r \in Requests, Commit(r)
  PROVE  /\ pc[r] = "commit" /\ pc'[r] = "done" /\ call' = call
         /\ \A q \in Requests \ {r} : pc'[q] = pc[q]
         /\ sessions' = IF Accepts(r) THEN sessions \cup {r} ELSE sessions
         /\ db'[Own(r)] = call[r].answer
         /\ Accepts(r) => db'[Job] = Own(r)
         /\ ~Accepts(r) => db'[Job] = db[Job]
         /\ ~Accepts(r) => \A m \in Mechanics \ {Own(r)} : db'[m] = db[m]
         /\ ~Accepts(r) => \A q \in Requests, m \in Reserve :
              \/ db'[<<q, m>>] = db[<<q, m>>]
              \/ q = r /\ lock[<<q, m>>] = r /\ db'[<<q, m>>] = "calling"
<1>1. /\ pc[r] = "commit" /\ pc'[r] = "done" /\ call' = call
      /\ \A q \in Requests \ {r} : pc'[q] = pc[q]
      /\ sessions' = IF Accepts(r) THEN sessions \cup {r} ELSE sessions
  BY DEF Commit, Goto, TypeOK, Accepts
<1>2. \A x \in Rows : db'[x] = IF lock[x] = r THEN dirty[x] ELSE db[x]
  BY DEF Commit, Visible
<1>3. /\ \A e \in Answer(r) : lock[e[1]] = r
      /\ HeldJob(r) /\ HeldOwn(r) /\ HeldOthers(r)
  BY <1>1 DEF LockInv, Held, Flushed, HoldsAnswer
<1>4. Own(r) \in Mechanics /\ Own(r) \in Rows
  BY AnswerIs, RowFacts
<1>5. db'[Own(r)] = call[r].answer
  <2>1. lock[Own(r)] = r
    BY <1>3, HeldAnswer
  <2> QED
    BY <1>2, <1>3, <1>4, <2>1 DEF HeldOwn
<1>6. Accepts(r) => db'[Job] = Own(r)
  <2>1. Accepts(r) => lock[Job] = r
    BY <1>3, HeldAnswer
  <2> QED
    BY <1>2, <1>3, <2>1, RowFacts DEF HeldJob
<1>7. ~Accepts(r) => db'[Job] = db[Job]
  BY <1>2, <1>3, RowFacts DEF HeldJob
<1>8. ASSUME ~Accepts(r), NEW m \in Mechanics \ {Own(r)}
      PROVE  db'[m] = db[m]
  <2>1. m \in Offers \ {Own(r)} /\ m \in Rows /\ m \notin {r} \X Reserve
    BY RowFacts
  <2>2. lock[m] # r
    BY <1>3, <1>8, <2>1 DEF HeldOthers
  <2> QED
    BY <1>2, <2>1, <2>2
<1>9. ASSUME ~Accepts(r), NEW q \in Requests, NEW m \in Reserve
      PROVE  \/ db'[<<q, m>>] = db[<<q, m>>]
             \/ q = r /\ lock[<<q, m>>] = r /\ db'[<<q, m>>] = "calling"
  <2>1. <<q, m>> \in Offers \ {Own(r)} /\ <<q, m>> \in Rows
    BY <1>4, RowFacts
  <2>2. CASE lock[<<q, m>>] = r
    <3>1. <<q, m>> \in {r} \X Reserve /\ dirty[<<q, m>>] = "calling"
      BY <1>3, <1>9, <2>1, <2>2 DEF HeldOthers
    <3> QED
      BY <1>2, <2>1, <2>2, <3>1
  <2>3. CASE lock[<<q, m>>] # r
    BY <1>2, <2>1, <2>3
  <2> QED
    BY <2>2, <2>3
<1> QED
  BY <1>1, <1>5, <1>6, <1>7, <1>8, <1>9

\* Nothing else writes what is committed.
LEMMA OnlyCommits ==
  ASSUME TypeOK, [Next]_vars
  PROVE  \/ call' = call /\ db' = db /\ sessions' = sessions
         \/ \E r \in Requests : Commit(r)
BY DEF Next, Handle, vars, ReadJob, ReadOffer, Write, SelectOthers, CheckPending,
       InsertWave, DeadlockAbort, Crash, RollBack

LEMMA NextAcceptanceHolds ==
  TypeOK /\ LockInv /\ AcceptanceHolds /\ [Next]_vars => AcceptanceHolds'
<1> SUFFICES ASSUME TypeOK, LockInv, AcceptanceHolds, [Next]_vars
             PROVE  AcceptanceHolds'
  OBVIOUS
<1>1. CASE call' = call /\ db' = db /\ sessions' = sessions
  BY <1>1 DEF AcceptanceHolds
<1>2. ASSUME NEW r \in Requests, Commit(r) PROVE AcceptanceHolds'
  <2>1. CASE Accepts(r)
    <3>1. /\ db'[Job] = Own(r) /\ db'[Own(r)] = "accepted"
          /\ r \in sessions' /\ call' = call
      BY <1>2, <2>1, CommitsWhat DEF Accepts
    <3> QED
      BY <3>1 DEF AcceptanceHolds, Own
  <2>2. CASE ~Accepts(r)
    <3>1. /\ db'[Job] = db[Job] /\ sessions' = sessions /\ call' = call
          /\ db'[Own(r)] = "declined"
          /\ \A m \in Mechanics \ {Own(r)} : db'[m] = db[m]
      BY <1>2, <2>2, CommitsWhat, AnswerIs
    <3>2. ASSUME sessions # {}
          PROVE  db[Job] \in Mechanics /\ db[db[Job]] # "superseded"
      BY <3>2 DEF AcceptanceHolds, TypeOK
    <3> QED
      BY <3>1, <3>2 DEF AcceptanceHolds
  <2> QED
    BY <2>1, <2>2
<1> QED
  BY <1>1, <1>2, OnlyCommits

\* However many mechanics accept at the same time, in whatever order their
\* handlers read, flush, wait, crash and commit: once one acceptance is
\* committed the job is assigned to a mechanic who has a tracking session, and
\* that mechanic's own offer is not superseded.
THEOREM AcceptanceHoldsAlways == Spec => []AcceptanceHolds
<1>1. Init => AcceptanceHolds
  BY DEF Init, AcceptanceHolds
<1> QED
  BY <1>1, TypeCorrect, InitLockInv, NextLockInv, NextAcceptanceHolds, PTL DEF Spec

-----------------------------------------------------------------------------
(***************************************************************************)
(* Refusals alone.                                                         *)
(***************************************************************************)
LEMMA InitRefusalInv == Init => RefusalInv
<1> SUFFICES ASSUME Init PROVE RefusalInv
  OBVIOUS
<1>1. \A m \in Mechanics : db[m] \in Open
  BY RowFacts DEF Init, Open
<1>2. \A q \in Requests, m \in Reserve : db[<<q, m>>] = "none"
  BY RowFacts DEF Init
<1>3. \A r \in Requests : ~Waving(r)
  BY NoRequestAssumption, RowFacts DEF Init, Waving
<1> QED
  BY <1>1, <1>2, <1>3
  DEF RefusalInv, ClosedByRefusal, ReserveUntouched, WavesLast, OneWaves, OneWave

LEMMA SameCalls ==
  ASSUME call' = call
  PROVE  /\ OneRepeats' <=> OneRepeats
         /\ \A q \in Requests : Own(q)' = Own(q) /\ Accepts(q)' = Accepts(q)
BY DEF OneRepeats, RepeatsDecline, Own, Accepts

\* A step that commits nothing and brings no handler to a wave.
LEMMA RefusalKept ==
  ASSUME RefusalInv, call' = call, db' = db, sessions' = sessions,
         \A q \in Requests : pc[q] = "done" => pc'[q] = "done",
         \A q \in Requests : Waving(q)' => Waving(q)
  PROVE  RefusalInv'
<1> SUFFICES ASSUME sessions = {} /\ OneRepeats
             PROVE  /\ ClosedByRefusal' /\ ReserveUntouched'
                    /\ \A r \in Requests : WavesLast(r)'
                    /\ OneWaves' /\ OneWave'
  BY SameCalls DEF RefusalInv
<1>1. /\ ClosedByRefusal /\ ReserveUntouched
      /\ \A r \in Requests : WavesLast(r)
      /\ OneWaves /\ OneWave
  BY DEF RefusalInv
<1>2. ClosedByRefusal'
  BY <1>1, SameCalls DEF ClosedByRefusal
<1>3. ReserveUntouched' /\ OneWave'
  BY <1>1 DEF ReserveUntouched, OneWave
<1>4. \A r \in Requests : WavesLast(r)'
  BY <1>1, SameCalls DEF WavesLast
<1>5. OneWaves'
  BY <1>1 DEF OneWaves
<1> QED
  BY <1>2, <1>3, <1>4, <1>5

\* Whoever waves holds its own mechanic's offer.
LEMMA WavingHoldsOwn ==
  ASSUME TypeOK, LockInv, NEW r \in Requests, Waving(r)
  PROVE  lock[Own(r)] = r /\ pc[r] \in {"wave", "commit"}
<1>1. pc[r] \in {"wave", "commit"}
  <2>1. CASE pc[r] = "wave"
    BY <2>1
  <2>2. ASSUME NEW m \in Reserve, lock[<<r, m>>] = r PROVE pc[r] = "commit"
    <3>1. <<r, m>> \in Offers \ {Own(r)}
      BY AnswerIs, RowFacts
    <3> QED
      BY <2>2, <3>1 DEF LockInv, Held, HeldOthers
  <2> QED
    BY <2>1, <2>2 DEF Waving
<1>2. \A e \in Answer(r) : lock[e[1]] = r
  BY <1>1 DEF LockInv, Flushed, HoldsAnswer
<1> QED
  BY <1>1, <1>2, HeldAnswer

\* A refusal that finds no open offer: the others of the wave are closed and
\* nobody has brought one.
LEMMA FindsNoneOpen ==
  ASSUME TypeOK, LockInv, RefusalInv, sessions = {} /\ OneRepeats,
         NEW r \in Requests, pc[r] = "flush", OpenTo(r) = {}
  PROVE  /\ \A m \in Mechanics \ {Own(r)} : db[m] \notin Open
         /\ \A q \in Requests, m \in Reserve : db[<<q, m>>] = "none"
<1>1. \A o \in Offers \ {Own(r)} : lock[o] # r
  BY DEF LockInv, Held, HeldOthers
<1>2. \A o \in Offers \ {Own(r)} : db[o] \notin Open
  BY <1>1 DEF OpenTo, Visible
<1>3. Own(r) \in Mechanics
  BY AnswerIs
<1>4. ReserveUntouched
  BY DEF RefusalInv
<1> QED
  BY <1>2, <1>3, <1>4, RowFacts DEF ReserveUntouched, Open

\* The offer of a mechanic whose refusal is not committed is closed only if
\* another refusal of the same mechanic is.
LEMMA ClosedUncommitted ==
  ASSUME TypeOK, ClosedByRefusal, NEW r \in Requests, pc[r] # "done", ~Accepts(r),
         db[Own(r)] \notin Open
  PROVE  RepeatsDecline(Own(r))
<1>1. PICK d \in Requests : Own(d) = Own(r) /\ ~Accepts(d) /\ pc[d] = "done"
  BY AnswerIs DEF ClosedByRefusal
<1>2. d # r
  BY <1>1
<1>3. \A q \in Requests : call[q] = [mechanic |-> Own(q), answer |-> call[q].answer]
  BY DEF TypeOK, Own
<1>4. call[d].answer = "declined" /\ call[r].answer = "declined"
  BY <1>1, AnswerIs
<1> QED
  BY <1>1, <1>2, <1>3, <1>4 DEF RepeatsDecline

LEMMA CheckPendingKeepsRefusals ==
  ASSUME TypeOK, LockInv, RefusalInv, NEW r \in Requests, CheckPending(r)
  PROVE  RefusalInv'
<1>1. /\ pc[r] = "flush" /\ queue[r] = <<>> /\ ~Accepts(r)
      /\ \/ pc'[r] = "commit"
         \/ pc'[r] = "wave" /\ OpenTo(r) = {}
      /\ \A q \in Requests \ {r} : pc'[q] = pc[q]
      /\ call' = call /\ lock' = lock /\ db' = db /\ sessions' = sessions
  BY DEF CheckPending, Goto, TypeOK, Accepts
<1>2. \A q \in Requests \ {r} : Waving(q)' <=> Waving(q)
  BY <1>1, SameCalls DEF Waving
<1>3. \A q \in Requests : pc[q] = "done" => pc'[q] = "done"
  BY <1>1
<1>4. CASE pc'[r] = "commit"
  <2>1. Waving(r)' => Waving(r)
    BY <1>1, <1>4, SameCalls DEF Waving
  <2> QED
    BY <1>1, <1>2, <1>3, <2>1, RefusalKept
<1>5. CASE pc'[r] = "wave" /\ OpenTo(r) = {}
  <2> SUFFICES ASSUME sessions = {} /\ OneRepeats
               PROVE  /\ ClosedByRefusal' /\ ReserveUntouched'
                      /\ \A q \in Requests : WavesLast(q)'
                      /\ OneWaves' /\ OneWave'
    BY <1>1, SameCalls DEF RefusalInv
  <2>1. /\ ClosedByRefusal /\ ReserveUntouched
        /\ \A q \in Requests : WavesLast(q)
        /\ OneWaves /\ OneWave
    BY DEF RefusalInv
  <2>2. /\ \A m \in Mechanics \ {Own(r)} : db[m] \notin Open
        /\ \A q \in Requests, m \in Reserve : db[<<q, m>>] = "none"
    BY <1>1, <1>5, FindsNoneOpen
  <2>3. ClosedByRefusal'
    BY <1>1, <1>3, <2>1, SameCalls DEF ClosedByRefusal
  <2>4. ReserveUntouched' /\ OneWave'
    BY <1>1, <2>1 DEF ReserveUntouched, OneWave
  <2>5. ASSUME NEW q \in Requests PROVE WavesLast(q)'
    <3>1. CASE q = r
      BY <1>1, <2>2, <3>1, SameCalls DEF WavesLast
    <3>2. CASE q # r
      BY <1>1, <1>2, <2>1, <3>2, SameCalls DEF WavesLast
    <3> QED
      BY <3>1, <3>2
  <2>6. ASSUME NEW q \in Requests \ {r} PROVE ~Waving(q)
    <3> SUFFICES ASSUME Waving(q) PROVE FALSE
      OBVIOUS
    <3>1. lock[Own(q)] = q /\ pc[q] # "done" /\ ~Accepts(q)
      BY WavingHoldsOwn DEF Waving
    <3>2. lock[Own(r)] = r
      BY <1>1, FlushedAnswer, HeldAnswer
    <3>3. Own(q) # Own(r) /\ Own(q) \in Mechanics /\ Own(r) \in Mechanics
      BY <3>1, <3>2, AnswerIs
    <3>4. RepeatsDecline(Own(q))
      BY <2>1, <2>2, <3>1, <3>3, ClosedUncommitted
    <3>5. db[Own(r)] \notin Open
      BY <2>1, <3>3 DEF WavesLast
    <3>6. RepeatsDecline(Own(r))
      BY <1>1, <2>1, <3>5, ClosedUncommitted
    <3> QED
      BY <3>3, <3>4, <3>6 DEF OneRepeats
  <2>7. OneWaves'
    BY <1>2, <2>6 DEF OneWaves
  <2> QED
    BY <2>3, <2>4, <2>5, <2>7
<1> QED
  BY <1>1, <1>4, <1>5

LEMMA CommitKeepsRefusals ==
  ASSUME TypeOK, LockInv, RefusalInv, NEW r \in Requests, Commit(r)
  PROVE  RefusalInv'
<1> SUFFICES ASSUME sessions' = {}, OneRepeats'
             PROVE  /\ ClosedByRefusal' /\ ReserveUntouched'
                    /\ \A q \in Requests : WavesLast(q)'
                    /\ OneWaves' /\ OneWave'
  BY DEF RefusalInv
<1>1. /\ pc[r] = "commit" /\ pc'[r] = "done" /\ call' = call
      /\ \A q \in Requests \ {r} : pc'[q] = pc[q]
      /\ sessions' = IF Accepts(r) THEN sessions \cup {r} ELSE sessions
  BY CommitsWhat
<1>2. ~Accepts(r) /\ sessions = {} /\ OneRepeats
  BY <1>1, SameCalls
<1>3. /\ db'[Own(r)] = "declined"
      /\ \A m \in Mechanics \ {Own(r)} : db'[m] = db[m]
      /\ \A q \in Requests, m \in Reserve :
           \/ db'[<<q, m>>] = db[<<q, m>>]
           \/ q = r /\ lock[<<q, m>>] = r /\ db'[<<q, m>>] = "calling"
  BY <1>2, CommitsWhat, AnswerIs
<1>4. /\ ClosedByRefusal /\ ReserveUntouched
      /\ \A q \in Requests : WavesLast(q)
      /\ OneWaves /\ OneWave
  BY <1>2 DEF RefusalInv
<1>5. \A q \in Requests : Own(q)' = Own(q) /\ Accepts(q)' = Accepts(q)
  BY <1>1, SameCalls
<1>6. ClosedByRefusal'
  <2> SUFFICES ASSUME NEW m \in Mechanics, db'[m] \notin Open
               PROVE  \E d \in Requests : Own(d) = m /\ ~Accepts(d) /\ pc'[d] = "done"
    BY <1>5 DEF ClosedByRefusal
  <2>1. CASE m = Own(r)
    BY <1>1, <1>2, <2>1
  <2>2. CASE m # Own(r)
    <3>1. PICK d \in Requests : Own(d) = m /\ ~Accepts(d) /\ pc[d] = "done"
      BY <1>3, <1>4, <2>2 DEF ClosedByRefusal
    <3> QED
      BY <1>1, <3>1
  <2> QED
    BY <2>1, <2>2
<1>7. ReserveUntouched'
  BY <1>3, <1>4 DEF ReserveUntouched
<1>8. ASSUME NEW q \in Requests, Waving(q)'
      PROVE  q # r /\ Waving(q)
  <2>1. \A m \in Reserve : <<q, m>> \in Rows
    BY RowFacts
  <2>2. \A m \in Reserve : lock'[<<q, m>>] = q => lock[<<q, m>>] = q /\ q # r
    BY <2>1, NoRequestAssumption DEF Commit, Unlocked
  <2> QED
    BY <1>1, <1>5, <1>8, <2>2 DEF Waving
<1>9. ASSUME NEW q \in Requests, Waving(q), q # r
      PROVE  \A p \in Requests, m \in Reserve : db'[<<p, m>>] = db[<<p, m>>]
  <2>1. ~Waving(r)
    BY <1>4, <1>9 DEF OneWaves
  <2>2. \A m \in Reserve : lock[<<r, m>>] # r
    BY <1>2, <2>1 DEF Waving
  <2> QED
    BY <1>3, <2>2
<1>10. ASSUME NEW q \in Requests PROVE WavesLast(q)'
  <2> SUFFICES ASSUME Waving(q)'
               PROVE  /\ \A m \in Mechanics \ {Own(q)} : db'[m] \notin Open
                      /\ \A p \in Requests, m \in Reserve : db'[<<p, m>>] = "none"
    BY <1>5 DEF WavesLast
  <2>1. q # r /\ Waving(q)
    BY <1>8
  <2>2. /\ \A m \in Mechanics \ {Own(q)} : db[m] \notin Open
        /\ \A p \in Requests, m \in Reserve : db[<<p, m>>] = "none"
    BY <1>4, <2>1 DEF WavesLast
  <2>3. \A m \in Mechanics \ {Own(q)} : db'[m] \notin Open
    BY <1>3, <2>2 DEF Open
  <2>4. \A p \in Requests, m \in Reserve : db'[<<p, m>>] = "none"
    BY <1>9, <2>1, <2>2
  <2> QED
    BY <2>3, <2>4
<1>11. OneWaves'
  BY <1>4, <1>8 DEF OneWaves
<1>12. OneWave'
  <2>1. CASE \E m \in Reserve : lock[<<r, m>>] = r
    <3>1. Waving(r)
      BY <1>2, <2>1 DEF Waving
    <3>2. \A q \in Requests, m \in Reserve : db[<<q, m>>] = "none"
      BY <1>4, <3>1 DEF WavesLast
    <3>3. \A q \in Requests, m \in Reserve : db'[<<q, m>>] # "none" => q = r
      BY <1>3, <3>2
    <3> QED
      BY <3>3 DEF OneWave
  <2>2. CASE ~ \E m \in Reserve : lock[<<r, m>>] = r
    <3>1. \A q \in Requests, m \in Reserve : db'[<<q, m>>] = db[<<q, m>>]
      BY <1>3, <2>2
    <3> QED
      BY <1>4, <3>1 DEF OneWave
  <2> QED
    BY <2>1, <2>2
<1> QED
  BY <1>6, <1>7, <1>10, <1>11, <1>12

LEMMA NextRefusalInv ==
  TypeOK /\ LockInv /\ RefusalInv /\ [Next]_vars => RefusalInv'
<1> SUFFICES ASSUME TypeOK, LockInv, RefusalInv, [Next]_vars PROVE RefusalInv'
  OBVIOUS
<1>1. ASSUME NEW r \in Requests, ReadJob(r) \/ ReadOffer(r) \/ SelectOthers(r)
      PROVE  RefusalInv'
  <2>1. /\ call' = call /\ lock' = lock /\ db' = db /\ sessions' = sessions
        /\ pc[r] # "done" /\ pc'[r] # "wave"
        /\ \A q \in Requests \ {r} : pc'[q] = pc[q]
    BY <1>1 DEF ReadJob, ReadOffer, SelectOthers, Goto, TypeOK
  <2>2. \A q \in Requests : Waving(q)' => Waving(q)
    BY <2>1, SameCalls DEF Waving
  <2> QED
    BY <2>1, <2>2, RefusalKept
<1>2. ASSUME NEW r \in Requests, Write(r) PROVE RefusalInv'
  <2> DEFINE x == Head(queue[r])[1]
  <2>1. /\ lock' = [lock EXCEPT ![x] = r] /\ call' = call /\ pc' = pc
        /\ db' = db /\ sessions' = sessions /\ Head(queue[r]) \in Updates
    BY <1>2, WritesWhat DEF Write
  <2>2. ~Accepts(r) => x \in Mechanics \cup {Job}
    BY <1>2, WritesWhat, AnswerIs DEF StatusUpdate
  <2>3. x \in Rows
    BY <2>1, UpdateFacts
  <2> HIDE DEF x
  <2>4. ASSUME NEW q \in Requests, Waving(q)' PROVE Waving(q)
    <3>1. ASSUME NEW m \in Reserve, lock'[<<q, m>>] = q, ~Accepts(q)
          PROVE  lock[<<q, m>>] = q
      <4>1. <<q, m>> \in Rows /\ (x \in Mechanics \cup {Job} => x # <<q, m>>)
        BY RowFacts
      <4> QED
        BY <2>1, <2>2, <2>3, <3>1, <4>1 DEF TypeOK
    <3> QED
      BY <2>1, <2>4, <3>1, SameCalls DEF Waving
  <2> QED
    BY <2>1, <2>4, RefusalKept
<1>3. ASSUME NEW r \in Requests, InsertWave(r) PROVE RefusalInv'
  <2>1. /\ pc[r] = "wave" /\ pc'[r] = "commit" /\ ~Accepts(r)
        /\ \A q \in Requests \ {r} : pc'[q] = pc[q]
        /\ call' = call /\ db' = db /\ sessions' = sessions
    BY <1>3, InsertsWhat
  <2>2. PICK S \in SUBSET Reserve :
          \A x \in Rows \ ({r} \X S) : lock'[x] = lock[x]
    <3>1. PICK S \in SUBSET Candidates(r) :
            lock' = [x \in Rows |-> IF x \in {r} \X S THEN r ELSE lock[x]]
      BY <1>3 DEF InsertWave
    <3>2. S \in SUBSET Reserve
      BY DEF Candidates
    <3> QED
      BY <3>1, <3>2
  <2>3. ASSUME NEW q \in Requests, Waving(q)' PROVE Waving(q)
    <3>1. CASE q = r
      BY <2>1, <3>1 DEF Waving
    <3>2. CASE q # r
      <4>1. \A m \in Reserve : <<q, m>> \in Rows \ ({r} \X S)
        BY <3>2, RowFacts
      <4> QED
        BY <2>1, <2>2, <2>3, <3>2, <4>1, SameCalls DEF Waving
    <3> QED
      BY <3>1, <3>2
  <2> QED
    BY <2>1, <2>3, RefusalKept
<1>4. ASSUME NEW r \in Requests, RollBack(r), pc[r] # "done" PROVE RefusalInv'
  <2>1. /\ call' = call /\ db' = db /\ sessions' = sessions
        /\ lock' = Unlocked(r) /\ pc'[r] = "failed"
        /\ \A q \in Requests \ {r} : pc'[q] = pc[q]
    BY <1>4 DEF RollBack, Goto, TypeOK
  <2>2. ASSUME NEW q \in Requests, Waving(q)' PROVE Waving(q)
    <3>1. \A m \in Reserve : lock'[<<q, m>>] = q => lock[<<q, m>>] = q
      BY <2>1, RowFacts, NoRequestAssumption DEF Unlocked
    <3> QED
      BY <2>1, <2>2, <3>1, SameCalls DEF Waving
  <2> QED
    BY <1>4, <2>1, <2>2, RefusalKept
<1>5. ASSUME NEW r \in Requests, DeadlockAbort(r) PROVE pc[r] # "done"
  <2>1. Blocked(r)
    BY <1>5 DEF DeadlockAbort, Deadlocked
  <2> QED
    BY <2>1 DEF Blocked, LockInv, Flushed, NoFlush
<1>6. CASE UNCHANGED vars
  <2>1. \A q \in Requests : Waving(q)' => Waving(q)
    BY <1>6, SameCalls DEF vars, Waving
  <2> QED
    BY <1>6, <2>1, RefusalKept DEF vars
<1>7. ASSUME NEW r \in Requests, Crash(r) PROVE RollBack(r) /\ pc[r] # "done"
  BY <1>7 DEF Crash, InFlight
<1>8. ASSUME NEW r \in Requests, DeadlockAbort(r) PROVE RollBack(r)
  BY <1>8 DEF DeadlockAbort
<1> QED
  BY <1>1, <1>2, <1>3, <1>4, <1>5, <1>6, <1>7, <1>8,
     CheckPendingKeepsRefusals, CommitKeepsRefusals
  DEF Next, Handle

\* Refusals that overlap in any way bring one next wave, as long as no
\* acceptance is committed and no two mechanics each decline twice: two
\* handlers that both find no open offer each hold the row of a mechanic whose
\* refusal the other one saw committed.
THEOREM OneNextWaveAlways == Spec => []OneNextWave
<1>1. RefusalInv => OneNextWave
  BY DEF RefusalInv, OneWave, OneRepeats, OneNextWave
<1> QED
  BY <1>1, TypeCorrect, InitLockInv, NextLockInv, InitRefusalInv, NextRefusalInv, PTL
  DEF Spec

-----------------------------------------------------------------------------
(***************************************************************************)
(* Deadlocks.                                                              *)
(***************************************************************************)
\* The answer of a refusal is one UPDATE, and it holds nothing before it.
RefusalWaits(r) ==
  ~Accepts(r) /\ pc[r] = "flush" /\ queue[r] # <<>> =>
    Len(queue[r]) = 1 /\ \A x \in Rows : lock[x] # r

WaitInv == \A r \in Requests : RefusalWaits(r)

LEMMA RefusalOrders ==
  ASSUME TypeOK, NEW r \in Requests, ~Accepts(r), NEW q \in Orders(Answer(r))
  PROVE  Len(q) = 1
<1>1. Cardinality(Answer(r)) = 1
  BY AnswerIs, FS_Singleton
<1>2. q \in [1 .. 1 -> Answer(r)]
  BY <1>1 DEF Orders
<1> QED
  BY <1>2

\* A handler that starts no flush and takes no row waits as before.
LEMMA WaitsAsBefore ==
  ASSUME NEW r, RefusalWaits(r), call' = call, pc'[r] = pc[r],
         queue'[r] = queue[r], \A x \in Rows : lock'[x] = r => lock[x] = r
  PROVE  RefusalWaits(r)'
BY DEF RefusalWaits, Accepts

LEMMA NextWaitInv == TypeOK /\ LockInv /\ WaitInv /\ [Next]_vars => WaitInv'
<1> SUFFICES ASSUME TypeOK, LockInv, WaitInv, [Next]_vars, NEW q \in Requests
             PROVE  RefusalWaits(q)'
  BY DEF WaitInv
<1>1. RefusalWaits(q)
  BY DEF WaitInv
<1>2. ASSUME NEW r \in Requests,
             ReadJob(r) \/ SelectOthers(r) \/ CheckPending(r)
      PROVE  RefusalWaits(q)'
  <2>1. CASE q = r
    <3>1. pc'[q] # "flush"
      BY <1>2, <2>1 DEF ReadJob, SelectOthers, CheckPending, Goto, TypeOK
    <3> QED
      BY <3>1 DEF RefusalWaits
  <2>2. CASE q # r
    <3>1. pc'[q] = pc[q] /\ queue'[q] = queue[q] /\ lock' = lock /\ call' = call
      BY <1>2, <2>2 DEF ReadJob, SelectOthers, CheckPending, Goto, TypeOK
    <3> QED
      BY <1>1, <3>1, WaitsAsBefore
  <2> QED
    BY <2>1, <2>2
<1>3. ASSUME NEW r \in Requests, ReadOffer(r) PROVE RefusalWaits(q)'
  <2>1. /\ pc[r] = "job_read" /\ call' = call /\ lock' = lock
        /\ q # r => queue'[q] = queue[q] /\ pc'[q] = pc[q]
        /\ pc'[r] = "done" \/ queue'[r] \in Orders(Answer(r))
    BY <1>3 DEF ReadOffer, Goto, TypeOK
  <2>2. CASE q # r
    BY <1>1, <2>1, <2>2, WaitsAsBefore
  <2>3. CASE q = r /\ pc'[r] = "done"
    BY <2>3 DEF RefusalWaits
  <2>4. CASE q = r /\ queue'[r] \in Orders(Answer(r))
    <3>1. \A x \in Rows : lock[x] # r
      BY <2>1 DEF LockInv, Held, HeldInFlight
    <3>2. ~Accepts(r) => Len(queue'[r]) = 1
      BY <2>4, RefusalOrders
    <3> QED
      BY <2>1, <2>4, <3>1, <3>2, SameAnswer DEF RefusalWaits
  <2> QED
    BY <2>1, <2>2, <2>3, <2>4
<1>4. ASSUME NEW r \in Requests, Write(r) PROVE RefusalWaits(q)'
  <2> DEFINE x == Head(queue[r])[1]
  <2>1. /\ Head(queue[r]) \in Updates /\ lock' = [lock EXCEPT ![x] = r]
        /\ queue'[r] = Tail(queue[r]) /\ call' = call /\ pc' = pc
        /\ q # r => queue'[q] = queue[q]
    BY <1>4, WritesWhat
  <2>2. CASE q = r
    <3>1. queue[r] \in Seq(Updates) /\ queue[r] # <<>>
      BY <1>4 DEF TypeOK, Write
    <3>2. ~Accepts(r) /\ pc[r] = "flush" => queue'[r] = <<>>
      <4>1. ~Accepts(r) /\ pc[r] = "flush" => Len(queue[r]) = 1
        BY <1>1, <2>2, <3>1 DEF RefusalWaits
      <4>2. Tail(queue[r]) \in Seq(Updates) /\ Len(Tail(queue[r])) = Len(queue[r]) - 1
        BY <3>1
      <4>3. Len(Tail(queue[r])) = 0 => Tail(queue[r]) = <<>>
        BY <4>2, EmptySeq
      <4> QED
        BY <2>1, <4>1, <4>2, <4>3
    <3> QED
      BY <2>1, <2>2, <3>2, SameAnswer DEF RefusalWaits
  <2>3. CASE q # r
    <3>1. x \in Rows
      BY <2>1, UpdateFacts
    <3> HIDE DEF x
    <3>2. \A y \in Rows : lock'[y] = q => lock[y] = q
      BY <2>1, <2>3, <3>1 DEF TypeOK
    <3> QED
      BY <1>1, <2>1, <2>3, <3>2, WaitsAsBefore
  <2> QED
    BY <2>2, <2>3
<1>5. ASSUME NEW r \in Requests, InsertWave(r) PROVE RefusalWaits(q)'
  <2>1. CASE q = r
    BY <1>5, <2>1, InsertsWhat DEF RefusalWaits
  <2>2. CASE q # r
    <3>1. call' = call /\ pc'[q] = pc[q] /\ queue'[q] = queue[q]
      BY <1>5, <2>2, InsertsWhat
    <3>2. \A y \in Rows : lock'[y] = q => lock[y] = q
      BY <1>5, <2>2 DEF InsertWave
    <3> QED
      BY <1>1, <3>1, <3>2, WaitsAsBefore
  <2> QED
    BY <2>1, <2>2
<1>6. ASSUME NEW r \in Requests, Commit(r) \/ RollBack(r) PROVE RefusalWaits(q)'
  <2>1. CASE q = r
    <3>1. pc'[q] # "flush"
      BY <1>6, <2>1 DEF Commit, RollBack, Goto, TypeOK
    <3> QED
      BY <3>1 DEF RefusalWaits
  <2>2. CASE q # r
    <3>1. \A y \in Rows : lock'[y] = q => lock[y] = q
      BY <1>6, NoRequestAssumption DEF Commit, RollBack, Unlocked
    <3>2. call' = call /\ queue'[q] = queue[q] /\ pc'[q] = pc[q]
      BY <1>6, <2>2 DEF Commit, RollBack, Goto, TypeOK
    <3> QED
      BY <1>1, <3>1, <3>2, WaitsAsBefore
  <2> QED
    BY <2>1, <2>2
<1>7. CASE UNCHANGED vars
  BY <1>1, <1>7, WaitsAsBefore DEF vars
<1> QED
  BY <1>2, <1>3, <1>4, <1>5, <1>6, <1>7
  DEF Next, Handle, DeadlockAbort, Crash

\* In any crowd of answers a refusal is aborted for a deadlock only with the
\* wave it brings: whoever is part of a cycle of waiting transactions holds a
\* row another one waits for. A refusal that waits for its own offer holds
\* none; one that waits for the job's row waits for an acceptance, because a
\* refusal that has that row waits for nothing.
THEOREM RefusalsDeadlockByWaveAlways == Spec => []RefusalsDeadlockByWave
<1>1. Init => WaitInv
  BY DEF Init, WaitInv, RefusalWaits
<1>2. ASSUME TypeOK, LockInv, WaitInv PROVE RefusalsDeadlockByWave
  <2> SUFFICES ASSUME NEW r \in Requests, Deadlocked(r), ~Accepts(r)
               PROVE  /\ pc[r] = "commit" /\ Head(queue[r]) = StatusUpdate
                      /\ Accepts(Blocker(r))
    BY DEF RefusalsDeadlockByWave, Accepts
  <2>1. PICK C \in SUBSET Requests :
          /\ r \in C
          /\ \A q \in C : Blocked(q) /\ Blocker(q) \in C
          /\ \A q \in C : \E p \in C : Blocker(p) = q
    BY DEF Deadlocked
  <2>2. \A q \in C : queue[q] \in Seq(Updates) /\ queue[q] # <<>>
    BY <1>2, <2>1 DEF TypeOK, Blocked
  <2>3. \A q \in C : Head(queue[q])[1] \in Rows
    BY <2>2, LeftTail, UpdateFacts
  <2>4. pc[r] \in {"flush", "commit"}
    BY <1>2, <2>1, <2>2 DEF LockInv, Flushed, NoFlush
  <2>5. pc[r] # "flush"
    <3> SUFFICES ASSUME pc[r] = "flush" PROVE FALSE
      OBVIOUS
    <3>1. \A x \in Rows : lock[x] # r
      BY <1>2, <2>1, <2>2 DEF WaitInv, RefusalWaits
    <3>2. PICK p \in C : lock[Head(queue[p])[1]] = r
      BY <2>1 DEF Blocker
    <3> QED
      BY <2>3, <3>1, <3>2
  <2>6. Head(queue[r]) = StatusUpdate
    <3>1. queue[r] = <<StatusUpdate>>
      BY <1>2, <2>1, <2>2, <2>4, <2>5 DEF LockInv, Flushed, SecondFlush
    <3> QED
      BY <3>1
  <2>7. Accepts(Blocker(r))
    <3> DEFINE a == Blocker(r)
    <3>1. a \in C /\ lock[Job] = a
      BY <2>1, <2>6 DEF Blocker, StatusUpdate
    <3> HIDE DEF a
    <3>2. a \in Requests /\ queue[a] # <<>>
      BY <2>1, <2>2, <3>1
    <3>3. Accepts(a)
      BY <1>2, <3>1, <3>2 DEF LockInv, Held, HeldJob
    <3> QED
      BY <3>3 DEF a
  <2> QED
    BY <2>4, <2>5, <2>6, <2>7
<1> QED
  BY <1>1, <1>2, TypeCorrect, InitLockInv, NextLockInv, NextWaitInv, PTL DEF Spec
=============================================================================
