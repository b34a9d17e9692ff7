-------------------------- MODULE SerialAnswersProofs --------------------------
(***************************************************************************)
(* Answers handled one after the other keep the dispatch contract: what    *)
(* FirstAcceptanceWins, NextWaveGoesOut and OneSessionPerMechanic lose is  *)
(* lost to overlapping handlers alone.  It is also what entitles           *)
(* JobDispatch to take a whole handler for one action: without overlap the *)
(* handler of OfferTransactions, statement by statement and with crashes   *)
(* between any two, is a step of the contract JobDispatch implements.      *)
(***************************************************************************)
EXTENDS OfferTransactionsProofs

\* One handler is under way at a time.
Alone ==
  \A q, r \in Requests : pc[q] \in InFlight /\ pc[r] \in InFlight => q = r

\* The mechanics with an open offer, and those who ever got one, by what is
\* committed.
OpenMechanics ==
  {m \in Mechanics : db[m] \in Open} \cup
  {m \in Reserve : \E q \in Requests : db[<<q, m>>] \in Open}

Contacted ==
  Mechanics \cup {m \in Reserve : \E q \in Requests : db[<<q, m>>] # "none"}

Contract ==
  INSTANCE DispatchContract WITH
    Mechanics <- Mechanics \cup Reserve,
    open <- OpenMechanics,
    contacted <- Contacted,
    holder <- db[Job]

(***************************************************************************)
(* The invariant: what a handler has read is still so.                     *)
(***************************************************************************)
ReadIsCurrent(r) ==
  /\ pc[r] \in InFlight => seen[r] = db[Job]
  /\ pc[r] \in {"flush", "wave", "commit"} => db[Own(r)] \in Open

\* An acceptance supersedes exactly the other open offers.
SupersedesOpen(r) ==
  pc[r] = "commit" /\ Accepts(r) =>
    \A o \in Offers \ {Own(r)} :
      db[o] \in Open <=> lock[o] = r \/ <<o, "superseded">> \in Left(queue[r])

\* A refusal that brings a wave closed the last open offer of an unassigned
\* job, and the wave is new.
WavesFresh(r) ==
  /\ Waving(r) => db[Job] = NoMechanic /\ \A o \in Offers \ {Own(r)} : db[o] \notin Open
  /\ \A m \in Reserve :
       ~Accepts(r) /\ lock[<<r, m>>] = r => \A q \in Requests : db[<<q, m>>] = "none"

SerialInv ==
  \A r \in Requests : ReadIsCurrent(r) /\ SupersedesOpen(r) /\ WavesFresh(r)

-----------------------------------------------------------------------------
(***************************************************************************)
(* What the proofs need of flushes and of locks.                           *)
(***************************************************************************)
\* An order runs every UPDATE of the flush.
LEMMA OrdersRunAll ==
  ASSUME NEW W, IsFiniteSet(W), NEW q \in Orders(W)
  PROVE  Left(q) = W
<1> DEFINE n == Cardinality(W)
<1>1. n \in Nat
  BY FS_CardinalityType
<1> HIDE DEF n
<1>2. q \in Injection(1 .. n, W)
  <2>1. /\ q \in [1 .. n -> W] /\ DOMAIN q = 1 .. n
        /\ \A i, j \in DOMAIN q : i # j => q[i] # q[j]
    BY DEF Orders, n
  <2>2. \A i, j \in 1 .. n : q[i] = q[j] => i = j
    BY <2>1
  <2> QED
    BY <2>1, <2>2 DEF Injection, IsInjective
<1>3. Cardinality(1 .. n) = n
  BY <1>1, FS_Interval
<1>4. q \in Surjection(1 .. n, W)
  BY <1>2, <1>3, FS_Injection DEF n
<1>5. \A e \in W : \E i \in 1 .. n : q[i] = e
  BY <1>4 DEF Surjection
<1>6. q \in [1 .. n -> W]
  BY DEF Orders, n
<1> QED
  BY <1>5, <1>6 DEF Left

LEMMA OthersRunAll ==
  ASSUME NEW O \in SUBSET Offers,
         NEW q \in Orders({<<o, "superseded">> : o \in O})
  PROVE  \A o \in Offers : o \in O <=> <<o, "superseded">> \in Left(q)
<1> DEFINE W == {<<o, "superseded">> : o \in O}
<1>1. IsFiniteSet(O) /\ IsFiniteSet({"superseded"})
  BY OffersFinite, FS_Subset, FS_Singleton
<1>2. IsFiniteSet(O \X {"superseded"})
  BY <1>1, FS_Product
<1>3. W = O \X {"superseded"}
  OBVIOUS
<1>4. Left(q) = W
  BY <1>2, <1>3, OrdersRunAll
<1> QED
  BY <1>3, <1>4

\* Before its second flush or its wave a handler holds no offer but its own.
LEMMA HoldsOnlyOwn ==
  ASSUME TypeOK, LockInv, NEW r \in Requests, pc[r] # "commit"
  PROVE  /\ \A o \in Offers \ {Own(r)} : lock[o] # r /\ Visible(r, o) = db[o]
         /\ \A m \in Reserve : lock[<<r, m>>] # r
<1>1. \A o \in Offers \ {Own(r)} : lock[o] # r
  BY DEF LockInv, Held, HeldOthers
<1>2. \A m \in Reserve : <<r, m>> \in Offers \ {Own(r)}
  BY AnswerIs, RowFacts
<1> QED
  BY <1>1, <1>2 DEF Visible

-----------------------------------------------------------------------------
(***************************************************************************)
(* What is read stays so.                                                  *)
(***************************************************************************)
LEMMA InitSerialInv == Init => SerialInv
<1> SUFFICES ASSUME Init, NEW r \in Requests
             PROVE  ReadIsCurrent(r) /\ SupersedesOpen(r) /\ WavesFresh(r)
  BY DEF SerialInv
<1>1. pc[r] = "idle" /\ \A x \in Rows : lock[x] # r
  BY NoRequestAssumption DEF Init
<1>2. \A m \in Reserve : <<r, m>> \in Rows
  BY RowFacts
<1> QED
  BY <1>1, <1>2 DEF ReadIsCurrent, SupersedesOpen, WavesFresh, Waving, InFlight

\* Nothing is asked of a handler that is not under way.
LEMMA RestingAfter ==
  ASSUME LockInv', NEW q \in Requests, pc'[q] \notin InFlight
  PROVE  ReadIsCurrent(q)' /\ SupersedesOpen(q)' /\ WavesFresh(q)'
<1>1. pc'[q] \notin {"flush", "wave", "commit"}
  BY DEF InFlight
<1>2. \A x \in Rows : lock'[x] # q
  BY <1>1 DEF LockInv, Held, HeldInFlight
<1>3. \A m \in Reserve : <<q, m>> \in Rows
  BY RowFacts
<1> QED
  BY <1>1, <1>2, <1>3 DEF ReadIsCurrent, SupersedesOpen, WavesFresh, Waving

\* Nor of one that has no wave yet.
LEMMA NoWaveAfter ==
  ASSUME TypeOK', LockInv', NEW r \in Requests, pc'[r] \in {"job_read", "flush"}
  PROVE  SupersedesOpen(r)' /\ WavesFresh(r)'
<1>1. Own(r)' \in Mechanics
  BY DEF TypeOK, Own
<1>2. \A m \in Reserve : <<r, m>> \in Offers \ {Own(r)'}
  BY <1>1, RowFacts
<1>3. \A m \in Reserve : lock'[<<r, m>>] # r
  BY <1>2 DEF LockInv, Held, HeldOthers
<1> QED
  BY <1>3 DEF SupersedesOpen, WavesFresh, Waving

\* Where r takes a step nobody else is under way.
LEMMA OthersRest ==
  ASSUME Alone, Alone', LockInv', NEW r \in Requests,
         pc[r] \in InFlight \/ pc'[r] \in InFlight,
         \A q \in Requests \ {r} : pc'[q] = pc[q],
         ReadIsCurrent(r)' /\ SupersedesOpen(r)' /\ WavesFresh(r)'
  PROVE  SerialInv'
<1>1. ASSUME NEW q \in Requests \ {r} PROVE pc'[q] \notin InFlight
  BY DEF Alone
<1>2. \A q \in Requests \ {r} :
        ReadIsCurrent(q)' /\ SupersedesOpen(q)' /\ WavesFresh(q)'
  BY <1>1, RestingAfter
<1> QED
  BY <1>2 DEF SerialInv

LEMMA WriteStaysSerial ==
  ASSUME TypeOK, LockInv, TypeOK', LockInv', NEW r \in Requests, Write(r),
         ReadIsCurrent(r), SupersedesOpen(r), WavesFresh(r)
  PROVE  ReadIsCurrent(r)' /\ SupersedesOpen(r)' /\ WavesFresh(r)'
<1> DEFINE e == Head(queue[r])
           x == e[1]
<1>1. /\ e \in Updates /\ lock' = [lock EXCEPT ![x] = r]
      /\ call' = call /\ pc' = pc
      /\ Left(queue'[r]) \subseteq Left(queue[r])
      /\ Left(queue[r]) \subseteq Left(queue'[r]) \cup {e}
      /\ \/ pc[r] = "flush" /\ e \in Answer(r)
         \/ /\ pc[r] = "commit" /\ Accepts(r)
            /\ e \in (Offers \ {Own(r)}) \X {"superseded"}
         \/ pc[r] = "commit" /\ ~Accepts(r) /\ e = StatusUpdate
  BY WritesWhat
<1>2. e \in Left(queue[r])
  BY LeftTail DEF TypeOK, Write
<1>3. x \in Rows /\ e = <<x, e[2]>>
  BY <1>1, UpdateFacts
<1>4. lock'[x] = r /\ \A y \in Rows \ {x} : lock'[y] = lock[y]
  BY <1>1, <1>3 DEF TypeOK
<1>5. db' = db /\ seen' = seen
  BY DEF Write
<1>6. Own(r)' = Own(r) /\ Accepts(r)' = Accepts(r)
  BY <1>1, SameAnswer
<1> HIDE DEF e, x
<1>7. ReadIsCurrent(r)'
  BY <1>1, <1>5, <1>6 DEF ReadIsCurrent
<1>8. CASE pc[r] = "flush"
  BY <1>1, <1>7, <1>8, NoWaveAfter
<1>9. CASE /\ pc[r] = "commit" /\ Accepts(r)
           /\ e \in (Offers \ {Own(r)}) \X {"superseded"}
  <2>1. e = <<x, "superseded">>
    BY <1>3, <1>9
  <2>2. ASSUME NEW o \in Offers \ {Own(r)}
        PROVE  db[o] \in Open <=> lock'[o] = r \/ <<o, "superseded">> \in Left(queue'[r])
    <3>1. db[o] \in Open <=> lock[o] = r \/ <<o, "superseded">> \in Left(queue[r])
      BY <1>9 DEF SupersedesOpen
    <3>2. CASE o = x
      BY <1>2, <1>4, <2>1, <3>1, <3>2
    <3>3. CASE o # x
      <4>1. lock'[o] = lock[o]
        BY <1>4, <3>3, RowFacts
      <4>2. <<o, "superseded">> \in Left(queue'[r])
              <=> <<o, "superseded">> \in Left(queue[r])
        BY <1>1, <2>1, <3>3
      <4> QED
        BY <3>1, <4>1, <4>2
    <3> QED
      BY <3>2, <3>3
  <2>3. SupersedesOpen(r)'
    BY <1>5, <1>6, <2>2 DEF SupersedesOpen
  <2>4. WavesFresh(r)'
    BY <1>6, <1>9 DEF WavesFresh, Waving
  <2> QED
    BY <1>7, <2>3, <2>4
<1>10. CASE pc[r] = "commit" /\ ~Accepts(r) /\ e = StatusUpdate
  <2>1. \A m \in Reserve : lock'[<<r, m>>] = lock[<<r, m>>]
    BY <1>4, <1>10, RowFacts DEF x, StatusUpdate
  <2>2. SupersedesOpen(r)'
    BY <1>6, <1>10 DEF SupersedesOpen
  <2>3. WavesFresh(r)'
    BY <1>1, <1>5, <1>6, <2>1 DEF WavesFresh, Waving
  <2> QED
    BY <1>7, <2>2, <2>3
<1> QED
  BY <1>1, <1>8, <1>9, <1>10

LEMMA SelectOthersStaysSerial ==
  ASSUME TypeOK, LockInv, NEW r \in Requests, SelectOthers(r), ReadIsCurrent(r)
  PROVE  ReadIsCurrent(r)' /\ SupersedesOpen(r)' /\ WavesFresh(r)'
<1> DEFINE O == OpenTo(r) \ {call[r].mechanic}
<1>1. PICK u \in Orders({<<o, "superseded">> : o \in O}) :
        queue' = [queue EXCEPT ![r] = u]
  BY DEF SelectOthers
<1>2. O \in SUBSET Offers
  BY DEF OpenTo
<1>3. \A o \in Offers : o \in O <=> <<o, "superseded">> \in Left(u)
  BY <1>2, OthersRunAll
<1>4. /\ pc[r] = "flush" /\ pc'[r] = "commit" /\ Accepts(r) /\ queue'[r] = u
      /\ call' = call /\ lock' = lock /\ db' = db /\ seen' = seen
  BY <1>1 DEF SelectOthers, Goto, TypeOK, Accepts
<1>5. \A o \in Offers \ {Own(r)} : lock[o] # r /\ (o \in O <=> db[o] \in Open)
  BY <1>4, HoldsOnlyOwn DEF OpenTo, Own
<1> HIDE DEF O
<1>6. Own(r)' = Own(r) /\ Accepts(r)' = Accepts(r)
  BY <1>4, SameAnswer
<1>7. ReadIsCurrent(r)'
  BY <1>4, <1>6 DEF ReadIsCurrent, InFlight
<1>8. SupersedesOpen(r)'
  BY <1>3, <1>4, <1>5, <1>6 DEF SupersedesOpen
<1>9. WavesFresh(r)'
  BY <1>4, <1>6 DEF WavesFresh, Waving
<1> QED
  BY <1>7, <1>8, <1>9

LEMMA CheckPendingStaysSerial ==
  ASSUME TypeOK, LockInv, NEW r \in Requests, CheckPending(r), ReadIsCurrent(r)
  PROVE  ReadIsCurrent(r)' /\ SupersedesOpen(r)' /\ WavesFresh(r)'
<1>1. /\ pc[r] = "flush" /\ ~Accepts(r)
      /\ \/ pc'[r] = "commit"
         \/ pc'[r] = "wave" /\ seen[r] = NoMechanic /\ OpenTo(r) = {}
      /\ call' = call /\ lock' = lock /\ db' = db /\ seen' = seen
  BY DEF CheckPending, Goto, TypeOK, Accepts
<1>2. /\ \A o \in Offers \ {Own(r)} : lock[o] # r /\ Visible(r, o) = db[o]
      /\ \A m \in Reserve : lock[<<r, m>>] # r
  BY <1>1, HoldsOnlyOwn
<1>3. Own(r)' = Own(r) /\ Accepts(r)' = Accepts(r)
  BY <1>1, SameAnswer
<1>4. ReadIsCurrent(r)'
  BY <1>1, <1>3 DEF ReadIsCurrent, InFlight
<1>5. SupersedesOpen(r)'
  BY <1>1, <1>3 DEF SupersedesOpen
<1>6. pc'[r] = "wave" =>
        db[Job] = NoMechanic /\ \A o \in Offers \ {Own(r)} : db[o] \notin Open
  BY <1>1, <1>2 DEF OpenTo, ReadIsCurrent, InFlight
<1>7. WavesFresh(r)'
  BY <1>1, <1>2, <1>3, <1>6 DEF WavesFresh, Waving
<1> QED
  BY <1>4, <1>5, <1>7

LEMMA InsertWaveStaysSerial ==
  ASSUME TypeOK, LockInv, NEW r \in Requests, InsertWave(r),
         ReadIsCurrent(r), WavesFresh(r)
  PROVE  ReadIsCurrent(r)' /\ SupersedesOpen(r)' /\ WavesFresh(r)'
<1>1. /\ pc[r] = "wave" /\ pc'[r] = "commit" /\ ~Accepts(r)
      /\ call' = call /\ db' = db
  BY InsertsWhat
<1>2. PICK S \in SUBSET Candidates(r) :
        lock' = [x \in Rows |-> IF x \in {r} \X S THEN r ELSE lock[x]]
  BY DEF InsertWave
<1>3. seen' = seen
  BY DEF InsertWave
<1>4. Own(r)' = Own(r) /\ Accepts(r)' = Accepts(r)
  BY <1>1, SameAnswer
<1>5. ReadIsCurrent(r)'
  BY <1>1, <1>3, <1>4 DEF ReadIsCurrent, InFlight
<1>6. SupersedesOpen(r)'
  BY <1>1, <1>4 DEF SupersedesOpen
<1>7. db[Job] = NoMechanic /\ \A o \in Offers \ {Own(r)} : db[o] \notin Open
  BY <1>1 DEF WavesFresh, Waving
<1>8. ASSUME NEW m \in Reserve, lock'[<<r, m>>] = r, NEW q \in Requests
      PROVE  db[<<q, m>>] = "none"
  <2>1. <<r, m>> \in Rows /\ <<q, m>> \in Offers \ {Own(r)}
    BY AnswerIs, RowFacts
  <2>2. lock[<<r, m>>] # r /\ Visible(r, <<q, m>>) = db[<<q, m>>]
    BY <1>1, <2>1, HoldsOnlyOwn
  <2>3. <<r, m>> \in {r} \X S
    BY <1>2, <1>8, <2>1, <2>2
  <2>4. m \in Candidates(r)
    BY <2>3
  <2> QED
    BY <2>2, <2>4 DEF Candidates
<1>9. WavesFresh(r)'
  BY <1>1, <1>4, <1>7, <1>8 DEF WavesFresh
<1> QED
  BY <1>5, <1>6, <1>9

LEMMA NextSerialInv ==
  ASSUME TypeOK, TypeOK', LockInv, LockInv', Alone, Alone', SerialInv, [Next]_vars
  PROVE  SerialInv'
<1> DEFINE Reads(r) == ReadIsCurrent(r) /\ SupersedesOpen(r) /\ WavesFresh(r)
           Steps(r) == /\ pc[r] \in InFlight \/ pc'[r] \in InFlight
                       /\ \A q \in Requests \ {r} : pc'[q] = pc[q]
<1>1. \A r \in Requests : Reads(r)
  BY DEF SerialInv
<1>2. ASSUME NEW r \in Requests, ReadJob(r) PROVE SerialInv'
  <2>1. /\ Steps(r) /\ pc'[r] = "job_read"
        /\ seen'[r] = db[Job] /\ db' = db
    BY <1>2 DEF ReadJob, Goto, TypeOK, InFlight
  <2>2. ReadIsCurrent(r)'
    BY <2>1 DEF ReadIsCurrent
  <2> QED
    BY <2>1, <2>2, NoWaveAfter, OthersRest
<1>3. ASSUME NEW r \in Requests, ReadOffer(r) PROVE SerialInv'
  <2>1. /\ Steps(r) /\ pc[r] = "job_read"
        /\ seen' = seen /\ db' = db /\ call' = call
        /\ \/ pc'[r] = "done"
           \/ pc'[r] = "flush" /\ db[Own(r)] \in Open
    BY <1>3 DEF ReadOffer, Goto, TypeOK, InFlight, Own
  <2>2. CASE pc'[r] = "done"
    <3>1. Reads(r)'
      BY <2>2, RestingAfter DEF InFlight
    <3> QED
      BY <2>1, <3>1, OthersRest
  <2>3. CASE pc'[r] = "flush" /\ db[Own(r)] \in Open
    <3>1. ReadIsCurrent(r)'
      BY <1>1, <2>1, <2>3 DEF ReadIsCurrent, InFlight, Own
    <3> QED
      BY <2>1, <2>3, <3>1, NoWaveAfter, OthersRest
  <2> QED
    BY <2>1, <2>2, <2>3
<1>4. ASSUME NEW r \in Requests, Write(r) PROVE SerialInv'
  <2>1. Steps(r)
    BY <1>4, WritesWhat DEF InFlight
  <2>2. Reads(r)'
    BY <1>1, <1>4, WriteStaysSerial
  <2> QED
    BY <2>1, <2>2, OthersRest
<1>5. ASSUME NEW r \in Requests, SelectOthers(r) \/ CheckPending(r) \/ InsertWave(r)
      PROVE  SerialInv'
  <2>1. Steps(r)
    BY <1>5 DEF SelectOthers, CheckPending, InsertWave, Goto, TypeOK, InFlight
  <2>2. Reads(r)'
    BY <1>1, <1>5, SelectOthersStaysSerial, CheckPendingStaysSerial,
       InsertWaveStaysSerial
  <2> QED
    BY <2>1, <2>2, OthersRest
<1>6. ASSUME NEW r \in Requests, Commit(r) \/ DeadlockAbort(r) \/ Crash(r)
      PROVE  SerialInv'
  <2>1. pc[r] \in InFlight
    <3>1. CASE DeadlockAbort(r)
      <4>1. queue[r] # <<>>
        BY <3>1 DEF DeadlockAbort, Deadlocked, Blocked
      <4> QED
        BY <4>1 DEF LockInv, Flushed, NoFlush, InFlight
    <3>2. CASE Commit(r) \/ Crash(r)
      BY <3>2 DEF Commit, Crash, InFlight
    <3> QED
      BY <1>6, <3>1, <3>2
  <2>2. pc'[r] \in {"done", "failed"} /\ \A q \in Requests \ {r} : pc'[q] = pc[q]
    BY <1>6 DEF Commit, DeadlockAbort, Crash, RollBack, Goto, TypeOK
  <2>3. Reads(r)'
    BY <2>2, RestingAfter DEF InFlight
  <2> QED
    BY <2>1, <2>2, <2>3, OthersRest
<1>7. CASE UNCHANGED vars
  BY <1>7
  DEF vars, SerialInv, ReadIsCurrent, SupersedesOpen, WavesFresh, Waving, Own,
      Accepts, Left
<1> QED
  BY <1>2, <1>3, <1>4, <1>5, <1>6, <1>7 DEF Next, Handle

-----------------------------------------------------------------------------
(***************************************************************************)
(* Every commit is a step of the contract, and nothing else is seen.       *)
(***************************************************************************)
\* An acceptance closes whatever is open, and opens nothing.
LEMMA AcceptanceCommits ==
  ASSUME TypeOK, LockInv, SerialInv, NEW r \in Requests, Commit(r), Accepts(r)
  PROVE  /\ db[Own(r)] \in Open /\ db'[Job] = Own(r)
         /\ \A o \in Offers : db'[o] \notin Open
         /\ \A o \in Offers : db'[o] = "none" <=> db[o] = "none"
<1>1. /\ pc[r] = "commit" /\ queue[r] = <<>>
      /\ \A x \in Rows : db'[x] = IF lock[x] = r THEN dirty[x] ELSE db[x]
  BY DEF Commit, Visible
<1>2. /\ db[Own(r)] \in Open
      /\ \A o \in Offers \ {Own(r)} :
           db[o] \in Open <=> lock[o] = r \/ <<o, "superseded">> \in Left(queue[r])
  BY <1>1 DEF SerialInv, ReadIsCurrent, SupersedesOpen
<1>3. db'[Own(r)] = "accepted" /\ db'[Job] = Own(r)
  BY CommitsWhat DEF Accepts
<1>4. ASSUME NEW o \in Offers
      PROVE  db'[o] \notin Open /\ (db'[o] = "none" <=> db[o] = "none")
  <2>1. CASE o = Own(r)
    BY <1>2, <1>3, <2>1 DEF Open
  <2>2. CASE o # Own(r)
    <3>1. <<o, "superseded">> \notin Left(queue[r]) /\ o \in Rows
      BY <1>1, RowFacts DEF Left
    <3>2. lock[o] = r => dirty[o] = "superseded"
      BY <2>2 DEF LockInv, Held, HeldOthers
    <3> QED
      BY <1>1, <1>2, <2>2, <3>1, <3>2 DEF Open
  <2> QED
    BY <2>1, <2>2
<1> QED
  BY <1>2, <1>3, <1>4

\* A refusal closes its own offer and brings the rows of its wave.
LEMMA RefusalCommits ==
  ASSUME TypeOK, LockInv, SerialInv, NEW r \in Requests, Commit(r), ~Accepts(r)
  PROVE  /\ db[Own(r)] \in Open /\ db'[Own(r)] = "declined" /\ db'[Job] = db[Job]
         /\ \A m \in Mechanics \ {Own(r)} : db'[m] = db[m]
         /\ \A q \in Requests, m \in Reserve :
              db'[<<q, m>>] = IF q = r /\ lock[<<q, m>>] = r THEN "calling"
                              ELSE db[<<q, m>>]
<1>1. /\ pc[r] = "commit"
      /\ \A x \in Rows : db'[x] = IF lock[x] = r THEN dirty[x] ELSE db[x]
  BY DEF Commit, Visible
<1>2. db[Own(r)] \in Open
  BY <1>1 DEF SerialInv, ReadIsCurrent
<1>3. /\ db'[Own(r)] = "declined" /\ db'[Job] = db[Job]
      /\ \A m \in Mechanics \ {Own(r)} : db'[m] = db[m]
  BY CommitsWhat, AnswerIs
<1>4. ASSUME NEW q \in Requests, NEW m \in Reserve
      PROVE  db'[<<q, m>>] = IF q = r /\ lock[<<q, m>>] = r THEN "calling"
                             ELSE db[<<q, m>>]
  <2>1. <<q, m>> \in Offers \ {Own(r)} /\ <<q, m>> \in Rows
    BY AnswerIs, RowFacts
  <2>2. lock[<<q, m>>] = r => <<q, m>> \in {r} \X Reserve /\ dirty[<<q, m>>] = "calling"
    BY <2>1 DEF LockInv, Held, HeldOthers
  <2> QED
    BY <1>1, <2>1, <2>2
<1> QED
  BY <1>2, <1>3, <1>4

LEMMA AcceptIsContractStep ==
  ASSUME TypeOK, LockInv, SerialInv, NEW r \in Requests, Commit(r), Accepts(r)
  PROVE  Contract!Accept(Own(r))
<1>1. Own(r) \in Mechanics /\ db[Own(r)] \in Open /\ db'[Job] = Own(r)
  BY AnswerIs, AcceptanceCommits
<1>2. /\ \A o \in Offers : db'[o] \notin Open
      /\ \A o \in Offers : db'[o] = "none" <=> db[o] = "none"
  BY AcceptanceCommits
<1>3. Own(r) \in OpenMechanics
  BY <1>1 DEF OpenMechanics
<1>4. OpenMechanics' = {}
  BY <1>2, RowFacts DEF OpenMechanics
<1>5. Contacted' = Contacted \cup {Own(r)}
  BY <1>1, <1>2, RowFacts DEF Contacted
<1> QED
  BY <1>1, <1>3, <1>4, <1>5 DEF Contract!Accept

\* The mechanics of the wave that a refusal commits.
Brings(r) == {m \in Reserve : lock[<<r, m>>] = r}

LEMMA RefusalIsContractStep ==
  ASSUME TypeOK, LockInv, SerialInv, NEW r \in Requests, Commit(r), ~Accepts(r)
  PROVE  Contract!Close(Own(r)) \/ Contract!CloseAndOffer(Own(r), Brings(r))
<1>1. /\ db[Own(r)] \in Open /\ db'[Own(r)] = "declined" /\ db'[Job] = db[Job]
      /\ \A m \in Mechanics \ {Own(r)} : db'[m] = db[m]
  BY RefusalCommits
<1>2. \A q \in Requests, m \in Reserve :
        db'[<<q, m>>] = IF q = r /\ lock[<<q, m>>] = r THEN "calling" ELSE db[<<q, m>>]
  BY RefusalCommits
<1>3. Own(r) \in Mechanics /\ Own(r) \notin Reserve
  BY AnswerIs, ReserveAssumption
<1>4. Own(r) \in OpenMechanics
  BY <1>1, <1>3 DEF OpenMechanics
<1>5. CASE Brings(r) = {}
  <2>1. \A q \in Requests, m \in Reserve : db'[<<q, m>>] = db[<<q, m>>]
    BY <1>2, <1>5 DEF Brings
  <2>2. Contacted' = Contacted
    BY <2>1 DEF Contacted
  <2>3. OpenMechanics' = OpenMechanics \ {Own(r)}
    BY <1>1, <1>3, <2>1 DEF OpenMechanics, Open
  <2> QED
    BY <1>1, <1>4, <2>2, <2>3 DEF Contract!Close
<1>6. CASE Brings(r) # {}
  <2>1. /\ db[Job] = NoMechanic
        /\ \A o \in Offers \ {Own(r)} : db[o] \notin Open
    BY <1>6 DEF SerialInv, WavesFresh, Waving, Brings
  <2>2. \A m \in Brings(r), q \in Requests : db[<<q, m>>] = "none"
    BY DEF SerialInv, WavesFresh, Brings
  <2>3. /\ \A m \in Mechanics \ {Own(r)} : db[m] \notin Open
        /\ \A q \in Requests, m \in Reserve : db[<<q, m>>] \notin Open
    BY <1>3, <2>1, RowFacts
  <2>4. OpenMechanics = {Own(r)}
    BY <1>4, <2>3 DEF OpenMechanics
  <2>5. \A m \in Reserve : m \notin Mechanics
    BY ReserveAssumption
  <2>6. Brings(r) \subseteq (Mechanics \cup Reserve) \ Contacted
    BY <2>2, <2>5 DEF Brings, Contacted
  <2>7. OpenMechanics' = Brings(r)
    <3>1. \A m \in Mechanics : db'[m] \notin Open
      BY <1>1, <2>3 DEF Open
    <3>2. \A m \in Reserve : (\E q \in Requests : db'[<<q, m>>] \in Open)
                               <=> lock[<<r, m>>] = r
      BY <1>2, <2>3 DEF Open
    <3> QED
      BY <3>1, <3>2 DEF OpenMechanics, Brings
  <2>8. Contacted' = Contacted \cup Brings(r)
    <3>1. \A m \in Reserve : (\E q \in Requests : db'[<<q, m>>] # "none")
            <=> (\E q \in Requests : db[<<q, m>>] # "none") \/ lock[<<r, m>>] = r
      BY <1>2
    <3> QED
      BY <3>1 DEF Contacted, Brings
  <2> QED
    BY <1>1, <1>6, <2>1, <2>4, <2>6, <2>7, <2>8 DEF Contract!CloseAndOffer, Contract!Fresh
<1> QED
  BY <1>5, <1>6

LEMMA ContractStep ==
  ASSUME TypeOK, LockInv, SerialInv, [Next]_vars
  PROVE  [Contract!ContractNext]_(Contract!contractVars)
<1>1. CASE db' = db
  BY <1>1 DEF Contract!contractVars, OpenMechanics, Contacted
<1>2. ASSUME NEW r \in Requests, Commit(r) PROVE Contract!ContractNext
  <2>1. Own(r) \in Mechanics \cup Reserve /\ Brings(r) \in SUBSET (Mechanics \cup Reserve)
    BY AnswerIs DEF Brings
  <2> QED
    BY <1>2, <2>1, AcceptIsContractStep, RefusalIsContractStep DEF Contract!ContractNext
<1> QED
  BY <1>1, <1>2, OnlyCommits

\* When answers are handled one after the other, every commit is a step of the
\* dispatch contract, whatever crashes in between: an acceptance of an open
\* offer closes every other one, a refusal closes its own, and the next wave
\* goes to mechanics nobody contacted, when the last open offer of an
\* unassigned job is turned down and not before.
THEOREM SerialAnswersKeepContract ==
  Spec /\ []Alone => [][Contract!ContractNext]_(Contract!contractVars)
<1>1. TypeOK /\ TypeOK' /\ LockInv /\ LockInv' /\ Alone /\ Alone' /\ SerialInv
        /\ [Next]_vars => SerialInv'
  BY NextSerialInv
<1>2. TypeOK /\ LockInv /\ SerialInv /\ [Next]_vars
        => [Contract!ContractNext]_(Contract!contractVars)
  BY ContractStep
<1> QED
  BY <1>1, <1>2, TypeCorrect, InitLockInv, NextLockInv, InitSerialInv, PTL DEF Spec

-----------------------------------------------------------------------------
(***************************************************************************)
(* What overlapping handlers lose.                                         *)
(***************************************************************************)
\* Once the job is assigned no offer is open.
AssignedClosed ==
  db[Job] # NoMechanic => \A o \in Offers : db[o] \notin Open

LEMMA NextAssignedClosed ==
  ASSUME TypeOK, LockInv, SerialInv, AssignedClosed, [Next]_vars
  PROVE  AssignedClosed' /\ (db[Job] # NoMechanic => db'[Job] = db[Job])
<1>1. CASE db' = db
  BY <1>1 DEF AssignedClosed
<1>2. ASSUME NEW r \in Requests, Commit(r), Accepts(r)
      PROVE  AssignedClosed' /\ db[Job] = NoMechanic
  <2>1. db[Own(r)] \in Open /\ Own(r) \in Offers
    BY <1>2, AcceptanceCommits, AnswerIs, RowFacts
  <2>2. \A o \in Offers : db'[o] \notin Open
    BY <1>2, AcceptanceCommits
  <2> QED
    BY <2>1, <2>2 DEF AssignedClosed
<1>3. ASSUME NEW r \in Requests, Commit(r), ~Accepts(r)
      PROVE  AssignedClosed' /\ db'[Job] = db[Job] /\ db[Job] = NoMechanic
  <2>1. db[Own(r)] \in Open /\ Own(r) \in Offers /\ db'[Job] = db[Job]
    BY <1>3, RefusalCommits, AnswerIs, RowFacts
  <2> QED
    BY <2>1 DEF AssignedClosed
<1> QED
  BY <1>1, <1>2, <1>3, OnlyCommits

\* "First accepted mechanic becomes assigned" (README.md), if no two answers
\* overlap: whoever answers later finds the offer closed.
THEOREM SerialFirstAcceptanceWins == Spec /\ []Alone => FirstAcceptanceWins
<1>1. Init => AssignedClosed
  BY DEF Init, AssignedClosed, Rows
<1>2. TypeOK /\ TypeOK' /\ LockInv /\ LockInv' /\ Alone /\ Alone' /\ SerialInv
        /\ [Next]_vars => SerialInv'
  BY NextSerialInv
<1>3. TypeOK /\ LockInv /\ SerialInv /\ AssignedClosed /\ [Next]_vars
        => AssignedClosed' /\ [db[Job] # NoMechanic => db'[Job] = db[Job]]_vars
  BY NextAssignedClosed
<1> QED
  BY <1>1, <1>2, <1>3, TypeCorrect, InitLockInv, NextLockInv, InitSerialInv, PTL
  DEF Spec, FirstAcceptanceWins

\* An offer whose acceptance is committed stays closed.
SessionsClosed == \A q \in sessions : db[Own(q)] \notin Open

LEMMA NextOneSession ==
  ASSUME TypeOK, LockInv, SerialInv, SessionsClosed, OneSessionPerMechanic, [Next]_vars
  PROVE  SessionsClosed' /\ OneSessionPerMechanic'
<1>1. CASE call' = call /\ db' = db /\ sessions' = sessions
  BY <1>1, SameCalls DEF SessionsClosed, OneSessionPerMechanic, Own
<1>2. ASSUME NEW r \in Requests, Commit(r), Accepts(r)
      PROVE  SessionsClosed' /\ OneSessionPerMechanic'
  <2>1. call' = call /\ sessions' = sessions \cup {r}
    BY <1>2, CommitsWhat
  <2>2. \A q \in Requests : Own(q) \in Offers
    BY AnswerIs, RowFacts
  <2>3. db[Own(r)] \in Open /\ \A o \in Offers : db'[o] \notin Open
    BY <1>2, AcceptanceCommits
  <2>4. sessions \subseteq Requests
    BY DEF TypeOK
  <2>5. SessionsClosed'
    BY <2>1, <2>2, <2>3, <2>4 DEF SessionsClosed, Own
  <2>6. \A q \in sessions : Own(q) # Own(r)
    BY <2>3 DEF SessionsClosed
  <2> QED
    BY <2>1, <2>5, <2>6 DEF OneSessionPerMechanic, Own
<1>3. ASSUME NEW r \in Requests, Commit(r), ~Accepts(r)
      PROVE  SessionsClosed' /\ OneSessionPerMechanic'
  <2>1. call' = call /\ sessions' = sessions
    BY <1>3, CommitsWhat
  <2>2. /\ db'[Own(r)] = "declined"
        /\ \A m \in Mechanics \ {Own(r)} : db'[m] = db[m]
    BY <1>3, RefusalCommits
  <2>3. \A q \in sessions : Own(q) \in Mechanics
    BY AnswerIs DEF TypeOK
  <2> QED
    BY <2>1, <2>2, <2>3 DEF SessionsClosed, OneSessionPerMechanic, Own, Open
<1> QED
  BY <1>1, <1>2, <1>3, OnlyCommits

\* A mechanic who taps Accept twice gets one tracking session, if the second
\* request starts when the first one is done.
THEOREM SerialOneSession == Spec /\ []Alone => []OneSessionPerMechanic
<1>1. Init => SessionsClosed /\ OneSessionPerMechanic
  BY DEF Init, SessionsClosed, OneSessionPerMechanic
<1>2. TypeOK /\ TypeOK' /\ LockInv /\ LockInv' /\ Alone /\ Alone' /\ SerialInv
        /\ [Next]_vars => SerialInv'
  BY NextSerialInv
<1> QED
  BY <1>1, <1>2, NextOneSession, TypeCorrect, InitLockInv, NextLockInv, InitSerialInv,
     PTL
  DEF Spec

AllContacted == \A m \in Reserve : \E q \in Requests : db[<<q, m>>] # "none"

\* A refusal commits no wave only if an offer is open without it, or nobody is
\* left to contact.
CommitsWave(r) ==
  pc[r] = "commit" /\ ~Accepts(r) /\ db[Job] = NoMechanic =>
    \/ \E o \in Offers \ {Own(r)} : db[o] \in Open
    \/ Brings(r) # {}
    \/ AllContacted

\* An unassigned job has an open offer as long as somebody can get one.
GoesOn ==
  /\ db[Job] = NoMechanic => AllContacted \/ \E o \in Offers : db[o] \in Open
  /\ \A r \in Requests : CommitsWave(r)

\* A refusal that finds an offer open finds another one than its own.
LEMMA FindsAnotherOpen ==
  ASSUME TypeOK, LockInv, NEW r \in Requests, pc[r] = "flush", queue[r] = <<>>,
         ~Accepts(r), OpenTo(r) # {}
  PROVE  \E o \in Offers \ {Own(r)} : db[o] \in Open
<1>1. PICK o \in Offers : Visible(r, o) \in Open
  BY DEF OpenTo
<1>2. lock[Own(r)] = r
  BY FlushedAnswer, HeldAnswer
<1>3. dirty[Own(r)] = "declined"
  BY <1>2, AnswerIs DEF LockInv, Held, HeldOwn
<1>4. o # Own(r)
  BY <1>1, <1>2, <1>3 DEF Visible, Open
<1> QED
  BY <1>1, <1>4, HoldsOnlyOwn

LEMMA CandidatesFinite ==
  ASSUME NEW r
  PROVE  IsFiniteSet(Candidates(r)) /\ Cardinality(Candidates(r)) \in Nat
<1>1. Candidates(r) \in SUBSET Reserve
  BY DEF Candidates
<1>2. IsFiniteSet(Candidates(r))
  BY <1>1, FiniteAssumption, FS_Subset
<1> QED
  BY <1>2, FS_CardinalityType

\* A wave is empty only when there is nobody to contact.
LEMMA EmptyWaveContactedAll ==
  ASSUME TypeOK, LockInv, NEW r \in Requests, InsertWave(r), BatchSize # 0
  PROVE  Brings(r)' # {} \/ AllContacted
<1>1. PICK S \in SUBSET Candidates(r) :
        /\ Cardinality(S) = IF BatchSize < Cardinality(Candidates(r))
                            THEN BatchSize ELSE Cardinality(Candidates(r))
        /\ lock' = [x \in Rows |-> IF x \in {r} \X S THEN r ELSE lock[x]]
  BY DEF InsertWave
<1>2. CASE S # {}
  <2>1. PICK m \in S : m \in Reserve
    BY <1>2 DEF Candidates
  <2>2. lock'[<<r, m>>] = r
    BY <1>1, <2>1, RowFacts
  <2> QED
    BY <2>1, <2>2 DEF Brings
<1>3. CASE S = {}
  <2>1. Cardinality(S) = 0
    BY <1>3, FS_EmptySet
  <2>2. Cardinality(Candidates(r)) = 0
    BY <1>1, <2>1, CandidatesFinite, BatchAssumption
  <2>3. Candidates(r) = {}
    BY <2>2, CandidatesFinite, FS_EmptySet
  <2>4. pc[r] = "wave"
    BY DEF InsertWave
  <2>5. ASSUME NEW q \in Requests, NEW m \in Reserve
        PROVE  Visible(r, <<q, m>>) = db[<<q, m>>]
    <3>1. <<q, m>> \in Offers \ {Own(r)}
      BY AnswerIs, RowFacts
    <3> QED
      BY <2>4, <3>1, HoldsOnlyOwn
  <2> QED
    BY <2>3, <2>5 DEF Candidates, AllContacted
<1> QED
  BY <1>2, <1>3

LEMMA CommitGoesOn ==
  ASSUME TypeOK, LockInv, SerialInv, GoesOn, NEW r \in Requests, Commit(r),
         db'[Job] = NoMechanic
  PROVE  AllContacted' \/ \E o \in Offers : db'[o] \in Open
<1>1. ~Accepts(r)
  BY CommitsWhat, AnswerIs, NoMechanicAssumption
<1>2. /\ db[Job] = NoMechanic
      /\ \A m \in Mechanics \ {Own(r)} : db'[m] = db[m]
  BY <1>1, RefusalCommits
<1>3. \A q \in Requests, m \in Reserve :
        db'[<<q, m>>] = IF q = r /\ lock[<<q, m>>] = r THEN "calling" ELSE db[<<q, m>>]
  BY <1>1, RefusalCommits
<1>4. pc[r] = "commit"
  BY DEF Commit
<1>5. CASE Brings(r) # {}
  <2>1. PICK m \in Reserve : lock[<<r, m>>] = r
    BY <1>5 DEF Brings
  <2> QED
    BY <1>3, <2>1, RowFacts DEF Open
<1>6. CASE Brings(r) = {}
  <2>1. \A q \in Requests, m \in Reserve : db'[<<q, m>>] = db[<<q, m>>]
    BY <1>3, <1>6 DEF Brings
  <2>2. \A o \in Offers \ {Own(r)} : db'[o] = db[o]
    BY <1>2, <2>1 DEF Offers
  <2>3. AllContacted' <=> AllContacted
    BY <2>1 DEF AllContacted
  <2>4. (\E o \in Offers \ {Own(r)} : db[o] \in Open) \/ AllContacted
    BY <1>1, <1>2, <1>4, <1>6 DEF GoesOn, CommitsWave
  <2> QED
    BY <2>2, <2>3, <2>4
<1> QED
  BY <1>5, <1>6

\* A handler that reaches its commit has looked for open offers, or inserted
\* its wave, since the last commit of anybody.
LEMMA CommitsWaveAfter ==
  ASSUME TypeOK, LockInv, SerialInv, GoesOn, BatchSize # 0, NEW r \in Requests,
         CheckPending(r) \/ InsertWave(r)
  PROVE  CommitsWave(r)'
<1>1. CASE CheckPending(r)
  <2>1. /\ pc[r] = "flush" /\ queue[r] = <<>> /\ ~Accepts(r)
        /\ \/ pc'[r] = "wave"
           \/ seen[r] # NoMechanic
           \/ OpenTo(r) # {}
        /\ db' = db /\ call' = call
    BY <1>1 DEF CheckPending, Goto, TypeOK, Accepts
  <2>2. seen[r] = db[Job]
    BY <2>1 DEF SerialInv, ReadIsCurrent, InFlight
  <2>3. OpenTo(r) # {} => \E o \in Offers \ {Own(r)} : db[o] \in Open
    BY <2>1, FindsAnotherOpen
  <2> QED
    BY <2>1, <2>2, <2>3, SameAnswer DEF CommitsWave
<1>2. CASE InsertWave(r)
  <2>1. db' = db
    BY <1>2, InsertsWhat
  <2>2. Brings(r)' # {} \/ AllContacted
    BY <1>2, EmptyWaveContactedAll
  <2> QED
    BY <2>1, <2>2 DEF CommitsWave, AllContacted
<1> QED
  BY <1>1, <1>2

LEMMA NextGoesOn ==
  ASSUME TypeOK, TypeOK', LockInv, LockInv', Alone, Alone', SerialInv, GoesOn,
         BatchSize # 0, [Next]_vars
  PROVE  GoesOn'
<1>1. db'[Job] = NoMechanic => AllContacted' \/ \E o \in Offers : db'[o] \in Open
  <2>1. CASE db' = db
    BY <2>1 DEF GoesOn, AllContacted
  <2>2. ASSUME NEW r \in Requests, Commit(r), db'[Job] = NoMechanic
        PROVE  AllContacted' \/ \E o \in Offers : db'[o] \in Open
    BY <2>2, CommitGoesOn
  <2> QED
    BY <2>1, <2>2, OnlyCommits
<1>2. ASSUME NEW q \in Requests PROVE CommitsWave(q)'
  <2> SUFFICES ASSUME pc'[q] = "commit", ~Accepts(q)' PROVE CommitsWave(q)'
    BY DEF CommitsWave
  <2>1. CASE CheckPending(q) \/ InsertWave(q)
    BY <2>1, CommitsWaveAfter
  <2>2. CASE UNCHANGED vars
    <3>1. CommitsWave(q)
      BY DEF GoesOn
    <3> QED
      BY <2>2, <3>1 DEF vars, CommitsWave, Brings, AllContacted, Accepts, Own
  <2>3. CASE ~(CheckPending(q) \/ InsertWave(q)) /\ Next
    <3>1. PICK r \in Requests : ReadJob(r) \/ Handle(r) \/ Crash(r)
      BY <2>3 DEF Next
    <3>2. r = q
      <4>1. pc[r] \in InFlight \/ pc'[r] \in InFlight
        BY <3>1 DEF Handle, ReadJob, ReadOffer, Write, SelectOthers, CheckPending,
           InsertWave, Commit, DeadlockAbort, Deadlocked, Blocked, Crash, Goto, TypeOK,
           LockInv, Flushed, NoFlush, InFlight
      <4>2. r # q => pc'[q] = pc[q]
        BY <3>1 DEF Handle, ReadJob, ReadOffer, Write, SelectOthers, CheckPending,
           InsertWave, Commit, DeadlockAbort, RollBack, Crash, Goto, TypeOK
      <4> QED
        BY <4>1, <4>2 DEF Alone, InFlight
    <3>3. CASE Write(q)
      <4>1. /\ call' = call /\ pc'[q] = pc[q] /\ db' = db
            /\ lock' = [lock EXCEPT ![Head(queue[q])[1]] = q]
            /\ pc[q] = "flush" \/ Accepts(q) \/ Head(queue[q]) = StatusUpdate
        BY <3>3, WritesWhat
      <4>2. \A m \in Reserve : lock[<<q, m>>] = q => lock'[<<q, m>>] = q
        BY <4>1, RowFacts DEF TypeOK
      <4>3. Brings(q) # {} => Brings(q)' # {}
        BY <4>2 DEF Brings
      <4>4. CommitsWave(q)
        BY DEF GoesOn
      <4> QED
        BY <4>1, <4>3, <4>4, SameAnswer DEF CommitsWave, AllContacted
    <3>4. CASE SelectOthers(q)
      BY <3>4 DEF SelectOthers, Accepts
    <3>5. CASE \/ ReadJob(q) \/ ReadOffer(q) \/ Commit(q)
               \/ DeadlockAbort(q) \/ Crash(q)
      <4>1. pc'[q] \in {"job_read", "flush", "done", "failed"}
        BY <3>5 DEF ReadJob, ReadOffer, Commit, DeadlockAbort, Crash, RollBack,
           Goto, TypeOK
      <4> QED
        BY <4>1
    <3> QED
      BY <2>3, <3>1, <3>2, <3>3, <3>4, <3>5 DEF Handle
  <2> QED
    BY <2>1, <2>2, <2>3
<1> QED
  BY <1>1, <1>2 DEF GoesOn

\* "If no mechanic is assigned and no open parallel offers remain, queue the
\* next batch" (maybe_dispatch_next_wave): when answers that do not overlap
\* have all been handled, a job without a mechanic and without an open offer
\* has nobody left to contact.  It takes a wave to begin with and a batch that
\* is not empty.
THEOREM SerialNextWaveGoesOut ==
  ASSUME Mechanics # {}, BatchSize # 0
  PROVE  Spec /\ []Alone => []NextWaveGoesOut
<1>1. Init => GoesOn
  <2> SUFFICES ASSUME Init PROVE GoesOn
    OBVIOUS
  <2>1. \E o \in Offers : db[o] \in Open
    BY RowFacts DEF Init, Open
  <2>2. \A r \in Requests : pc[r] = "idle"
    BY DEF Init
  <2> QED
    BY <2>1, <2>2 DEF GoesOn, CommitsWave
<1>2. TypeOK /\ TypeOK' /\ LockInv /\ LockInv' /\ Alone /\ Alone' /\ SerialInv
        /\ [Next]_vars => SerialInv'
  BY NextSerialInv
<1>3. TypeOK /\ TypeOK' /\ LockInv /\ LockInv' /\ Alone /\ Alone' /\ SerialInv
        /\ GoesOn /\ [Next]_vars => GoesOn'
  BY NextGoesOn
<1>4. GoesOn => NextWaveGoesOut
  BY DEF GoesOn, AllContacted, NextWaveGoesOut
<1> QED
  BY <1>1, <1>2, <1>3, <1>4, TypeCorrect, InitLockInv, NextLockInv, InitSerialInv, PTL
  DEF Spec
=============================================================================
