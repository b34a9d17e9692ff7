---------------------------- MODULE OutreachProofs ----------------------------
(***************************************************************************)
(* What Outreach guarantees for any number of mechanics, requests and      *)
(* crashes and any batch size.                                             *)
(***************************************************************************)
EXTENDS Outreach, FiniteSetTheorems, TLAPS

(***************************************************************************)
(* The invariant.                                                          *)
(***************************************************************************)

\* A send request that found a mechanic without a message holds the campaign's
\* row, so that nobody else queues one; a deleted campaign is held by nobody.
QueueHeld ==
  /\ \A s \in Senders : \A m \in queued[s] : lock = s /\ Unwritten(m) = Copies
  /\ \A s \in Senders : ~sending[s] => queued[s] = {}
  /\ ~campaign.exists => lock = Nobody

\* What a worker is through with is not in what it has left, and what it holds
\* was queued.
BatchesApart ==
  /\ \A w \in Workers : pc[w] = "idle" => batch[w] = {} /\ ok[w] = {} /\ bad[w] = {}
  /\ \A w \in Workers : pc[w] \in {"count", "commit"} => batch[w] = {}
  /\ \A w \in Workers : batch[w] \cap (ok[w] \cup bad[w]) = {}
  /\ campaign.exists =>
       \A w \in Workers : \A i \in batch[w] \cup ok[w] \cup bad[w] : messages[i] # "none"
  /\ ~campaign.exists => \A i \in Messages : messages[i] = "none"

\* The workers that are through with a message, and those that have it left.
Through(i) == {w \in Workers : i \in ok[w] \cup bad[w]}

Holding(i) == {w \in Workers : i \in batch[w]}

\* While a message is pending its texts are those of crashed workers and of the
\* ones through with it; afterwards only who still has it left can add another.
TextsBounded ==
  \A i \in Messages :
    /\ messages[i] = "pending" => texts[i] <= crashes + Cardinality(Through(i))
    /\ messages[i] # "pending" =>
         texts[i] + Cardinality(Holding(i)) <= crashes + Cardinality(Workers)
    /\ messages[i] = "none" /\ campaign.exists => texts[i] = 0

\* Between the count and the commit the worker's lock keeps new messages out.
CountHolds ==
  \A w \in Workers :
    pc[w] = "commit" /\ ok[w] # {} /\ campaign.exists =>
      /\ lock = w
      /\ complete[w] => Pending \subseteq ok[w] \cup bad[w]

OutreachInv ==
  TypeOK /\ QueuedOnce /\ QueueHeld /\ BatchesApart /\ TextsBounded /\ CountHolds

(***************************************************************************)
(* Types.                                                                  *)
(***************************************************************************)
LEMMA MessagesFinite == IsFiniteSet(Messages)
BY OutreachAssumption, FS_Product DEF Messages

LEMMA DraftIsRow == Draft \in Row
BY DEF Draft, Row, CampaignStatus

\* Writing a field of a row leaves a row, and its other fields.
LEMMA RowStatus ==
  ASSUME NEW row \in Row, NEW status \in CampaignStatus
  PROVE  LET r == [row EXCEPT !.status = status]
         IN  r \in Row /\ r.exists = row.exists /\ r.status = status /\ r.sent = row.sent
BY DEF Row

LEMMA RowSent ==
  ASSUME NEW row \in Row, NEW sent \in Nat
  PROVE  LET r == [row EXCEPT !.sent = sent]
         IN  r \in Row /\ r.exists = row.exists /\ r.status = row.status /\ r.sent = sent
BY DEF Row

LEMMA RowExists ==
  ASSUME NEW row \in Row, NEW exists \in BOOLEAN
  PROVE  LET r == [row EXCEPT !.exists = exists]
         IN  r \in Row /\ r.exists = exists /\ r.sent = row.sent
BY DEF Row

LEMMA InitTypes == Init => TypeOK
BY OutreachAssumption, DraftIsRow
DEF Init, TypeOK, CampaignStatus, MessageStatus, Leads

LEMMA SendCommitTypes ==
  ASSUME TypeOK, NEW s \in Senders, SendCommit(s)
  PROVE  TypeOK'
<1>1. campaign' \in Row
  BY DEF SendCommit, TypeOK, Row, CampaignStatus
<1>2. messages' \in [Messages -> MessageStatus]
  BY DEF SendCommit, TypeOK, MessageStatus
<1>3. lead' \in [Mechanics -> Leads]
  BY DEF SendCommit, TypeOK, Leads
<1>4. /\ SendEnds(s)
      /\ lock' \in Senders \cup Workers \cup {Nobody}
  BY DEF SendCommit, SendEnds, Unlocked, TypeOK
<1>5. QED
  BY <1>1, <1>2, <1>3, <1>4 DEF SendEnds, TypeOK, workers

LEMMA SenderTypes ==
  ASSUME TypeOK, NEW s \in Senders, Send(s)
  PROVE  TypeOK'
<1>1. CASE SendBegin(s)
  BY <1>1 DEF SendBegin, TypeOK, InSegment, tables, workers
<1>2. CASE SendCheck(s)
  BY <1>2 DEF SendCheck, Checked, TypeOK, tables, workers
<1>3. CASE SendCommit(s)
  BY <1>3, SendCommitTypes
<1>4. CASE SendAbort(s)
  BY <1>4 DEF SendAbort, SendEnds, TypeOK, Unlocked, tables, workers
<1>5. QED
  BY <1>1, <1>2, <1>3, <1>4 DEF Send

LEMMA WorkerEndsTypes ==
  ASSUME TypeOK, NEW w \in Workers, WorkerEnds(w), campaign' \in Row, crashes' \in 0 .. MaxCrashes,
         messages' \in [Messages -> MessageStatus]
  PROVE  TypeOK'
BY DraftIsRow DEF WorkerEnds, TypeOK, Unlocked, senders

LEMMA WorkerTextTypes ==
  ASSUME TypeOK, NEW w \in Workers, WorkerText(w)
  PROVE  TypeOK'
<1>1. PICK i \in batch[w] : \E accepted, answered \in BOOLEAN :
        Texted(w, i, accepted, answered) /\ batch' = [batch EXCEPT ![w] = @ \ {i}]
  BY DEF WorkerText
<1>2. i \in Messages
  BY <1>1 DEF TypeOK
<1>3. PICK accepted \in BOOLEAN, answered \in BOOLEAN : Texted(w, i, accepted, answered)
  BY <1>1
<1>4. texts' \in [Messages -> Nat]
  BY <1>2, <1>3 DEF Texted, TypeOK
<1>5. /\ ok' \in [Workers -> SUBSET Messages]
      /\ bad' \in [Workers -> SUBSET Messages]
      /\ batch' \in [Workers -> SUBSET Messages]
  BY <1>1, <1>2, <1>3 DEF Texted, TypeOK
<1>6. QED
  BY <1>4, <1>5 DEF WorkerText, TypeOK, tables, senders

LEMMA CommitRow ==
  ASSUME TypeOK, NEW w \in Workers, WorkerCommit(w), Cardinality(ok[w]) \in Nat
  PROVE  /\ campaign' \in Row /\ campaign'.exists = campaign.exists
         /\ campaign'.sent = IF ok[w] # {} THEN seen[w].sent + CountSent(w) ELSE campaign.sent
<1> DEFINE status == IF complete[w] /\ seen[w].status # "completed"
                       THEN "completed" ELSE campaign.status
           sent == IF ok[w] # {} THEN seen[w].sent + CountSent(w) ELSE campaign.sent
           between == [campaign EXCEPT !.status = status]
<1>1. campaign \in Row /\ seen[w] \in Row
  BY DEF TypeOK
<1>2. status \in CampaignStatus
  BY <1>1 DEF Row, CampaignStatus
<1>3. sent \in Nat
  BY <1>1 DEF Row, CountSent
<1>4. between \in Row /\ between.exists = campaign.exists /\ between.sent = campaign.sent
  BY <1>1, <1>2, RowStatus
<1>5. campaign' = [between EXCEPT !.sent = sent]
  BY DEF WorkerCommit
<1>6. campaign' \in Row /\ campaign'.exists = campaign.exists /\ campaign'.sent = sent
  <2> HIDE DEF status, sent, between
  <2>1. QED
    BY <1>3, <1>4, <1>5, RowSent
<1>7. QED
  BY <1>6

LEMMA WorkerTypes ==
  ASSUME TypeOK, NEW w \in Workers, Process(w)
  PROVE  TypeOK'
<1>1. CASE WorkerBegin(w)
  <2>1. PICK some \in SUBSET Pending : batch' = [batch EXCEPT ![w] = some]
    BY <1>1 DEF WorkerBegin
  <2>2. batch' \in [Workers -> SUBSET Messages]
    BY <2>1 DEF TypeOK, Pending
  <2>3. QED
    BY <1>1, <2>2 DEF WorkerBegin, TypeOK, tables, senders
<1>2. CASE WorkerText(w)
  BY <1>2, WorkerTextTypes
<1>3. CASE WorkerLoad(w)
  BY <1>3 DEF WorkerLoad, TypeOK, tables, senders
<1>4. CASE WorkerCount(w)
  BY <1>4 DEF WorkerCount, Counted, TypeOK, tables, senders
<1>5. CASE WorkerCommit(w)
  <2>1. ok[w] \in SUBSET Messages
    BY DEF TypeOK
  <2>2. Cardinality(ok[w]) \in Nat
    BY <2>1, MessagesFinite, FS_Subset, FS_CardinalityType
  <2>3. campaign' \in Row
    BY <1>5, <2>2, CommitRow
  <2>4. messages' \in [Messages -> MessageStatus]
    BY <1>5 DEF WorkerCommit, TypeOK, MessageStatus
  <2>5. QED
    BY <1>5, <2>3, <2>4, WorkerEndsTypes DEF WorkerCommit, TypeOK
<1>6. CASE WorkerCrash(w)
  <2>1. crashes' \in 0 .. MaxCrashes
    BY <1>6, OutreachAssumption DEF WorkerCrash, TypeOK
  <2>2. QED
    BY <1>6, <2>1, WorkerEndsTypes DEF WorkerCrash, TypeOK
<1>7. CASE WorkerGone(w)
  BY <1>7, WorkerEndsTypes DEF WorkerGone, TypeOK
<1>8. QED
  BY <1>1, <1>2, <1>3, <1>4, <1>5, <1>6, <1>7 DEF Process

LEMMA WrittenStatus == StatusEdits \subseteq CampaignStatus
BY DEF CampaignStatus

LEMMA OperatorTypes ==
  ASSUME TypeOK, UpdateCampaign \/ DeleteCampaign \/ \E m \in Mechanics : UpdateLeadStatus(m)
  PROVE  TypeOK'
<1>1. CASE UpdateCampaign
  <2>1. campaign' \in Row
    BY <1>1, WrittenStatus, RowStatus DEF UpdateCampaign, TypeOK
  <2>2. QED
    BY <1>1, <2>1 DEF UpdateCampaign, TypeOK, senders, workers
<1>2. CASE DeleteCampaign
  <2>1. campaign' \in Row
    BY <1>2, RowExists DEF DeleteCampaign, TypeOK
  <2>2. QED
    BY <1>2, <2>1 DEF DeleteCampaign, TypeOK, MessageStatus, senders, workers
<1>3. CASE \E m \in Mechanics : UpdateLeadStatus(m)
  BY <1>3, OutreachAssumption DEF UpdateLeadStatus, TypeOK, senders, workers
<1>4. QED
  BY <1>1, <1>2, <1>3

LEMMA StutterTypes ==
  ASSUME TypeOK, UNCHANGED vars
  PROVE  TypeOK'
BY DEF TypeOK, vars, tables, senders, workers

\* Type correctness: whatever the requests do and wherever they are cut off, the
\* tables and what each request holds keep their types.
THEOREM TypeCorrect == Spec => []TypeOK
<1>1. TypeOK /\ [Next]_vars => TypeOK'
  BY SenderTypes, WorkerTypes, OperatorTypes, StutterTypes DEF Next
<1>2. QED
  BY <1>1, InitTypes, PTL DEF Spec

(***************************************************************************)
(* One message for each mechanic.                                          *)
(***************************************************************************)

\* What the operator and the requests do to the campaign's row.
LEMMA RowSteps ==
  ASSUME TypeOK
  PROVE  /\ \A s \in Senders : SendCommit(s) => campaign'.exists = campaign.exists
         /\ \A w \in Workers : WorkerCommit(w) => campaign'.exists = campaign.exists
         /\ UpdateCampaign => campaign'.exists = campaign.exists
         /\ DeleteCampaign => campaign'.exists = FALSE
<1>1. ASSUME NEW s \in Senders, SendCommit(s)
      PROVE  campaign'.exists = campaign.exists
  <2>1. campaign' = [campaign EXCEPT !.status = "sending"] /\ "sending" \in CampaignStatus
    BY <1>1 DEF SendCommit, CampaignStatus
  <2>2. QED
    BY <2>1, RowStatus DEF TypeOK
<1>2. ASSUME NEW w \in Workers, WorkerCommit(w)
      PROVE  campaign'.exists = campaign.exists
  <2>1. ok[w] \in SUBSET Messages
    BY DEF TypeOK
  <2>2. Cardinality(ok[w]) \in Nat
    BY <2>1, MessagesFinite, FS_Subset, FS_CardinalityType
  <2>3. QED
    BY <1>2, <2>2, CommitRow
<1>3. ASSUME UpdateCampaign
      PROVE  campaign'.exists = campaign.exists
  <2>1. PICK status \in CampaignStatus : campaign' = [campaign EXCEPT !.status = status]
    BY <1>3, WrittenStatus DEF UpdateCampaign
  <2>2. QED
    BY <2>1, RowStatus DEF TypeOK
<1>4. DeleteCampaign => campaign'.exists = FALSE
  BY RowExists DEF DeleteCampaign, TypeOK
<1>5. QED
  BY <1>1, <1>2, <1>3, <1>4

LEMMA SameUnwritten ==
  ASSUME messages' = messages
  PROVE  \A m : Unwritten(m)' = Unwritten(m)
BY DEF Unwritten

\* A request whose queue is not empty keeps every other request's queue empty.
LEMMA SenderQueue ==
  ASSUME OutreachInv, NEW s \in Senders, Send(s)
  PROVE  QueuedOnce' /\ QueueHeld'
<1> USE OutreachAssumption DEF OutreachInv
<1>1. CASE SendBegin(s)
  BY <1>1, SameUnwritten DEF SendBegin, QueuedOnce, QueueHeld, TypeOK, tables
<1>2. CASE SendCheck(s)
  <2>1. messages' = messages /\ campaign' = campaign /\ sending' = sending /\ lock' = s /\ sending[s]
    BY <1>2 DEF SendCheck, Checked, tables
  <2>2. PICK m \in unchecked[s] :
          queued' = [queued EXCEPT ![s] = IF Unwritten(m) = Copies THEN @ \cup {m} ELSE @]
    BY <1>2 DEF SendCheck, Checked
  <2>3. ASSUME NEW r \in Senders, NEW n \in queued'[r]
        PROVE  lock' = r /\ Unwritten(n)' = Copies
    BY <1>2, <2>1, <2>2, <2>3, SameUnwritten DEF SendCheck, QueueHeld, TypeOK
  <2>4. campaign.exists
    BY <1>2 DEF SendCheck
  <2>5. QED
    BY <2>1, <2>2, <2>3, <2>4, SameUnwritten DEF QueuedOnce, QueueHeld, TypeOK
<1>3. CASE SendCommit(s)
  <2>1. \A r \in Senders : queued'[r] = {}
    BY <1>3 DEF SendCommit, SendEnds, QueueHeld, TypeOK
  <2>2. ASSUME NEW m \in Mechanics, NEW c \in Copies, NEW d \in Copies,
               c \notin Unwritten(m)', d \notin Unwritten(m)'
        PROVE  c = d
    <3>1. messages'[<<m, c>>] # "none" /\ messages'[<<m, d>>] # "none"
      BY <2>2 DEF Unwritten
    <3>2. <<m, c>> \in Messages /\ <<m, d>> \in Messages
      BY DEF Messages
    <3> DEFINE first == CHOOSE e \in Unwritten(m) : TRUE
    <3>3. ASSUME NEW e \in {c, d}
          PROVE  messages'[<<m, e>>] =
                   IF m \in queued[s] /\ e = first THEN "pending" ELSE messages[<<m, e>>]
      <4>1. messages' = [i \in Messages |->
                           IF i[1] \in queued[s] /\ i[2] = (CHOOSE x \in Unwritten(i[1]) : TRUE)
                           THEN "pending" ELSE messages[i]]
        BY <1>3 DEF SendCommit
      <4>2. <<m, e>> \in Messages
        BY <3>2
      <4>3. QED
        BY <4>1, <4>2
    <3> HIDE DEF first
    <3>4. CASE m \in queued[s]
      <4>1. Unwritten(m) = Copies
        BY <3>4 DEF QueueHeld
      <4>2. messages[<<m, c>>] = "none" /\ messages[<<m, d>>] = "none"
        BY <4>1 DEF Unwritten
      <4>3. QED
        BY <3>1, <3>3, <3>4, <4>2
    <3>5. CASE m \notin queued[s]
      <4>1. messages[<<m, c>>] # "none" /\ messages[<<m, d>>] # "none"
        BY <3>1, <3>3, <3>5
      <4>2. QED
        BY <4>1 DEF QueuedOnce, Unwritten
    <3>6. QED
      BY <3>4, <3>5
  <2>3. campaign.exists /\ campaign'.exists
    BY <1>3, RowSteps DEF SendCommit
  <2>4. QED
    BY <2>1, <2>2, <2>3 DEF QueuedOnce, QueueHeld
<1>4. CASE SendAbort(s)
  BY <1>4, SameUnwritten DEF SendAbort, SendEnds, Unlocked, QueuedOnce, QueueHeld, TypeOK, tables
<1>5. QED
  BY <1>1, <1>2, <1>3, <1>4 DEF Send

\* A worker changes no message that is not there and takes no sender's lock.
LEMMA WorkerQueue ==
  ASSUME OutreachInv, NEW w \in Workers, Process(w)
  PROVE  QueuedOnce' /\ QueueHeld'
<1> USE OutreachAssumption DEF OutreachInv
<1>1. CASE WorkerBegin(w) \/ WorkerText(w) \/ WorkerLoad(w)
  <2>1. UNCHANGED <<messages, campaign, lock, queued, sending>>
    BY <1>1 DEF WorkerBegin, WorkerText, WorkerLoad, tables, senders
  <2>2. QED
    BY <2>1, SameUnwritten DEF QueuedOnce, QueueHeld
<1>2. CASE WorkerCount(w)
  <2>1. /\ UNCHANGED <<messages, campaign, queued, sending>>
        /\ campaign.exists
        /\ lock' = lock \/ (lock = Nobody /\ lock' = w)
    BY <1>2 DEF WorkerCount, Counted, tables, senders
  <2>2. QED
    BY <2>1, SameUnwritten DEF QueuedOnce, QueueHeld
<1>3. ASSUME WorkerEnds(w), \A m \in Mechanics : Unwritten(m)' = Unwritten(m),
             campaign'.exists = campaign.exists
      PROVE  QueuedOnce' /\ QueueHeld'
  <2>1. UNCHANGED <<queued, sending>> /\ lock' \in {lock, Nobody} /\ (lock \in Senders => lock' = lock)
    BY <1>3 DEF WorkerEnds, Unlocked, senders
  <2>2. QED
    BY <1>3, <2>1 DEF QueuedOnce, QueueHeld, TypeOK
<1>4. CASE WorkerCommit(w)
  <2>1. ASSUME NEW i \in Messages
        PROVE  messages'[i] = "none" <=> messages[i] = "none"
    <3>1. messages'[i] = IF i \in ok[w] THEN "sent" ELSE IF i \in bad[w] THEN "failed" ELSE messages[i]
      BY <1>4 DEF WorkerCommit
    <3>2. i \in ok[w] \cup bad[w] => messages[i] # "none"
      BY <1>4 DEF WorkerCommit, BatchesApart
    <3>3. QED
      BY <3>1, <3>2
  <2>2. \A m \in Mechanics : Unwritten(m)' = Unwritten(m)
    BY <2>1 DEF Unwritten, Messages
  <2>3. QED
    BY <1>3, <1>4, <2>2, RowSteps DEF WorkerCommit
<1>5. CASE WorkerCrash(w) \/ WorkerGone(w)
  BY <1>3, <1>5, SameUnwritten DEF WorkerCrash, WorkerGone
<1>6. QED
  BY <1>1, <1>2, <1>4, <1>5 DEF Process

LEMMA OperatorQueue ==
  ASSUME OutreachInv, UpdateCampaign \/ DeleteCampaign \/ \E m \in Mechanics : UpdateLeadStatus(m)
  PROVE  QueuedOnce' /\ QueueHeld'
<1> USE OutreachAssumption DEF OutreachInv
<1>1. CASE UpdateCampaign
  BY <1>1, SameUnwritten, RowSteps DEF UpdateCampaign, QueuedOnce, QueueHeld, senders
<1>2. CASE DeleteCampaign
  <2>1. \A m \in Mechanics : Unwritten(m)' = Copies
    BY <1>2 DEF DeleteCampaign, Unwritten, Messages
  <2>2. QED
    BY <1>2, <2>1 DEF DeleteCampaign, QueuedOnce, QueueHeld, senders
<1>3. CASE \E m \in Mechanics : UpdateLeadStatus(m)
  BY <1>3, SameUnwritten DEF UpdateLeadStatus, QueuedOnce, QueueHeld, senders
<1>4. QED
  BY <1>1, <1>2, <1>3

(***************************************************************************)
(* What the workers hold.                                                  *)
(***************************************************************************)
LEMMA SenderBatches ==
  ASSUME OutreachInv, NEW s \in Senders, Send(s)
  PROVE  BatchesApart' /\ CountHolds'
<1> USE OutreachAssumption DEF OutreachInv
<1>1. UNCHANGED <<pc, batch, ok, bad, seen, complete>>
  BY DEF Send, SendBegin, SendCheck, Checked, SendCommit, SendEnds, SendAbort, workers
<1>2. campaign'.exists = campaign.exists
  BY RowSteps DEF Send, SendBegin, SendCheck, Checked, SendAbort, tables
<1>3. ~campaign.exists => messages' = messages
  BY DEF Send, SendBegin, SendCheck, SendCommit, SendAbort, tables
<1>4. \A i \in Messages : messages[i] # "none" => messages'[i] # "none"
  BY DEF Send, SendBegin, SendCheck, Checked, SendCommit, SendAbort, tables
<1>5. BatchesApart'
  <2>1. \A w \in Workers : batch[w] \cup ok[w] \cup bad[w] \subseteq Messages
    BY DEF TypeOK
  <2>2. QED
    BY <1>1, <1>2, <1>3, <1>4, <2>1 DEF BatchesApart
<1>6. ASSUME NEW w \in Workers, pc[w] = "commit", ok[w] # {}, campaign.exists
      PROVE  lock' = w /\ messages' = messages
  <2>1. lock = w /\ w # s /\ w # Nobody
    BY <1>6 DEF CountHolds
  <2>2. QED
    BY <2>1 DEF Send, SendBegin, SendCheck, Checked, SendCommit, SendAbort, SendEnds, Unlocked, tables
<1>7. CountHolds'
  BY <1>1, <1>2, <1>6 DEF CountHolds, Pending
<1>8. QED
  BY <1>5, <1>7

\* The end of a request leaves the others what they hold.
LEMMA EndedBatches ==
  ASSUME OutreachInv, NEW w \in Workers, WorkerEnds(w), campaign'.exists = campaign.exists,
         \A i \in Messages : (messages'[i] = "none" <=> messages[i] = "none")
                               /\ (messages'[i] = "pending" => messages[i] = "pending")
  PROVE  BatchesApart' /\ CountHolds'
<1> USE OutreachAssumption DEF OutreachInv
<1>1. /\ pc'[w] = "idle" /\ batch'[w] = {} /\ ok'[w] = {} /\ bad'[w] = {}
      /\ \A v \in Workers \ {w} : /\ pc'[v] = pc[v] /\ batch'[v] = batch[v] /\ ok'[v] = ok[v]
                                  /\ bad'[v] = bad[v] /\ complete'[v] = complete[v]
                                  /\ (lock = v => lock' = v)
  BY DEF WorkerEnds, TypeOK, Unlocked
<1>2. Pending' \subseteq Pending
  BY DEF Pending
<1>3. \A v \in Workers : batch[v] \cup ok[v] \cup bad[v] \subseteq Messages
  BY DEF TypeOK
<1>4. BatchesApart'
  BY <1>1, <1>3 DEF BatchesApart
<1>5. CountHolds'
  BY <1>1, <1>2 DEF CountHolds
<1>6. QED
  BY <1>4, <1>5

LEMMA WorkerBatches ==
  ASSUME OutreachInv, NEW w \in Workers, Process(w)
  PROVE  BatchesApart' /\ CountHolds'
<1> USE OutreachAssumption DEF OutreachInv
<1>1. CASE WorkerBegin(w)
  <2>1. PICK some \in SUBSET Pending : batch' = [batch EXCEPT ![w] = some]
    BY <1>1 DEF WorkerBegin
  <2>2. /\ UNCHANGED <<campaign, messages, ok, bad, complete, lock>>
        /\ pc[w] = "idle" /\ pc' = [pc EXCEPT ![w] = "texting"]
    BY <1>1 DEF WorkerBegin, tables
  <2>3. \A i \in some : messages[i] # "none"
    BY <2>1 DEF Pending
  <2>4. BatchesApart'
    BY <2>1, <2>2, <2>3 DEF BatchesApart, TypeOK
  <2>5. CountHolds'
    BY <2>2 DEF CountHolds, Pending, TypeOK
  <2>6. QED
    BY <2>4, <2>5
<1>2. CASE WorkerText(w)
  <2>1. PICK i \in batch[w], accepted \in BOOLEAN, answered \in BOOLEAN :
          Texted(w, i, accepted, answered) /\ batch' = [batch EXCEPT ![w] = @ \ {i}]
    BY <1>2 DEF WorkerText
  <2>2. /\ UNCHANGED <<campaign, messages, pc, complete, lock>>
        /\ pc[w] = "texting" /\ campaign.exists
    BY <1>2 DEF WorkerText, tables
  <2>3. /\ batch'[w] = batch[w] \ {i}
        /\ ok'[w] \cup bad'[w] = ok[w] \cup bad[w] \cup {i}
        /\ \A v \in Workers \ {w} : batch'[v] = batch[v] /\ ok'[v] = ok[v] /\ bad'[v] = bad[v]
    BY <2>1 DEF Texted, TypeOK
  <2>4. BatchesApart'
    BY <2>2, <2>3 DEF BatchesApart
  <2>5. CountHolds'
    BY <2>2, <2>3 DEF CountHolds, Pending
  <2>6. QED
    BY <2>4, <2>5
<1>3. CASE WorkerLoad(w)
  <2>1. /\ UNCHANGED <<campaign, messages, batch, ok, bad, complete, lock>>
        /\ pc[w] = "texting" /\ pc' = [pc EXCEPT ![w] = "count"] /\ batch[w] = {}
    BY <1>3 DEF WorkerLoad, tables
  <2>2. QED
    BY <2>1 DEF BatchesApart, CountHolds, Pending, TypeOK
<1>4. CASE WorkerCount(w)
  <2>1. /\ UNCHANGED <<campaign, messages, batch, ok, bad>>
        /\ pc[w] = "count" /\ pc' = [pc EXCEPT ![w] = "commit"]
        /\ complete' = [complete EXCEPT ![w] = (Pending \subseteq ok[w] \cup bad[w])]
        /\ IF ok[w] # {} THEN lock = Nobody /\ lock' = w ELSE lock' = lock
    BY <1>4 DEF WorkerCount, Counted, tables
  <2>2. BatchesApart'
    BY <2>1 DEF BatchesApart, TypeOK
  <2>3. CountHolds'
    BY <2>1 DEF CountHolds, Pending, TypeOK
  <2>4. QED
    BY <2>2, <2>3
<1>5. CASE WorkerCommit(w)
  <2>1. ASSUME NEW i \in Messages
        PROVE  (messages'[i] = "none" <=> messages[i] = "none")
                 /\ (messages'[i] = "pending" => messages[i] = "pending")
    <3>1. messages'[i] = IF i \in ok[w] THEN "sent" ELSE IF i \in bad[w] THEN "failed" ELSE messages[i]
      BY <1>5 DEF WorkerCommit
    <3>2. i \in ok[w] \cup bad[w] => messages[i] # "none"
      BY <1>5 DEF WorkerCommit, BatchesApart
    <3>3. QED
      BY <3>1, <3>2
  <2>2. QED
    BY <1>5, <2>1, RowSteps, EndedBatches DEF WorkerCommit
<1>6. CASE WorkerCrash(w) \/ WorkerGone(w)
  BY <1>6, EndedBatches DEF WorkerCrash, WorkerGone
<1>7. QED
  BY <1>1, <1>2, <1>3, <1>4, <1>5, <1>6 DEF Process

LEMMA OperatorBatches ==
  ASSUME OutreachInv, UpdateCampaign \/ DeleteCampaign \/ \E m \in Mechanics : UpdateLeadStatus(m)
  PROVE  BatchesApart' /\ CountHolds'
<1> USE OutreachAssumption DEF OutreachInv
<1>1. CASE UpdateCampaign
  <2>1. UNCHANGED <<messages, lock, pc, batch, ok, bad, complete>> /\ campaign'.exists = campaign.exists
    BY <1>1, RowSteps DEF UpdateCampaign, workers
  <2>2. QED
    BY <2>1 DEF BatchesApart, CountHolds, Pending
<1>2. CASE DeleteCampaign
  BY <1>2, RowSteps DEF DeleteCampaign, BatchesApart, CountHolds, workers
<1>3. CASE \E m \in Mechanics : UpdateLeadStatus(m)
  BY <1>3 DEF UpdateLeadStatus, BatchesApart, CountHolds, Pending, workers
<1>4. QED
  BY <1>1, <1>2, <1>3

(***************************************************************************)
(* How often a message is texted.                                          *)
(***************************************************************************)

\* No worker is through with a message it has still left.
LEMMA WorkersCounted ==
  ASSUME TypeOK, BatchesApart, NEW i \in Messages
  PROVE  /\ IsFiniteSet(Through(i)) /\ IsFiniteSet(Holding(i)) /\ IsFiniteSet(Workers)
         /\ Cardinality(Through(i)) \in Nat /\ Cardinality(Holding(i)) \in Nat
         /\ Cardinality(Workers) \in Nat
         /\ Cardinality(Through(i)) + Cardinality(Holding(i)) <= Cardinality(Workers)
<1>1. /\ Through(i) \subseteq Workers /\ Holding(i) \subseteq Workers
      /\ Through(i) \cup Holding(i) \subseteq Workers
      /\ Through(i) \cap Holding(i) = {}
  BY DEF Through, Holding, BatchesApart
<1>2. IsFiniteSet(Workers)
  BY OutreachAssumption
<1>3. IsFiniteSet(Through(i)) /\ IsFiniteSet(Holding(i))
  BY <1>1, <1>2, FS_Subset
<1>4. /\ Cardinality(Through(i)) \in Nat /\ Cardinality(Holding(i)) \in Nat
      /\ Cardinality(Workers) \in Nat
  BY <1>2, <1>3, FS_CardinalityType
<1>5. Cardinality(Through(i) \cup Holding(i)) <= Cardinality(Workers)
  BY <1>1, <1>2, FS_Subset
<1>6. Cardinality(Through(i) \cup Holding(i))
        = Cardinality(Through(i)) + Cardinality(Holding(i)) - Cardinality(Through(i) \cap Holding(i))
  BY <1>3, FS_Union
<1>7. Cardinality(Through(i) \cap Holding(i)) = 0
  BY <1>1, FS_EmptySet
<1>8. QED
  BY <1>2, <1>3, <1>4, <1>5, <1>6, <1>7

\* Where no worker's part changes, only the status of the message matters.
LEMMA HeldTheSame ==
  ASSUME UNCHANGED <<batch, ok, bad>>
  PROVE  \A i : Through(i)' = Through(i) /\ Holding(i)' = Holding(i)
BY DEF Through, Holding

LEMMA SenderTexts ==
  ASSUME OutreachInv, NEW s \in Senders, Send(s)
  PROVE  TextsBounded'
<1> USE DEF OutreachInv
<1>1. UNCHANGED <<batch, ok, bad, texts, crashes>> /\ campaign'.exists = campaign.exists
  BY RowSteps DEF Send, SendBegin, SendCheck, Checked, SendCommit, SendEnds, SendAbort, workers, tables
<1>2. ASSUME NEW i \in Messages, messages'[i] # messages[i]
      PROVE  messages[i] = "none" /\ messages'[i] = "pending" /\ campaign.exists
  <2>1. SendCommit(s)
    BY <1>2 DEF Send, SendBegin, SendCheck, Checked, SendAbort, tables
  <2>2. messages'[i] = IF i[1] \in queued[s] /\ i[2] = (CHOOSE c \in Unwritten(i[1]) : TRUE)
                         THEN "pending" ELSE messages[i]
    BY <2>1 DEF SendCommit
  <2>3. i[1] \in queued[s] /\ i[2] = (CHOOSE c \in Unwritten(i[1]) : TRUE) /\ messages'[i] = "pending"
    BY <1>2, <2>2
  <2>4. Unwritten(i[1]) # {}
    BY <2>1, <2>3 DEF SendCommit
  <2>5. i[2] \in Unwritten(i[1])
    BY <2>3, <2>4
  <2>6. messages[<<i[1], i[2]>>] = "none" /\ i = <<i[1], i[2]>>
    BY <2>5 DEF Unwritten, Messages
  <2>7. QED
    BY <2>1, <2>3, <2>6 DEF SendCommit
<1>3. QED
  <2>1. ASSUME NEW i \in Messages
        PROVE  /\ messages'[i] = "pending" => texts'[i] <= crashes' + Cardinality(Through(i)')
               /\ messages'[i] # "pending" =>
                    texts'[i] + Cardinality(Holding(i)') <= crashes' + Cardinality(Workers)
               /\ messages'[i] = "none" /\ campaign'.exists => texts'[i] = 0
    <3>1. Through(i)' = Through(i) /\ Holding(i)' = Holding(i)
      BY <1>1, HeldTheSame
    <3>2. Cardinality(Through(i)) \in Nat /\ crashes \in Nat
      BY WorkersCounted, OutreachAssumption DEF TypeOK
    <3>3. QED
      BY <1>1, <1>2, <3>1, <3>2 DEF TextsBounded
  <2>2. QED
    BY <2>1 DEF TextsBounded

\* A text adds one to what the worker is through with, or takes one from what it
\* has left.
LEMMA TextTexts ==
  ASSUME OutreachInv, NEW w \in Workers, WorkerText(w)
  PROVE  TextsBounded'
<1> USE DEF OutreachInv
<1>1. PICK j \in batch[w], accepted \in BOOLEAN, answered \in BOOLEAN :
        Texted(w, j, accepted, answered) /\ batch' = [batch EXCEPT ![w] = @ \ {j}]
  BY DEF WorkerText
<1>2. j \in Messages /\ messages[j] # "none" /\ campaign.exists
  BY <1>1 DEF TypeOK, BatchesApart, WorkerText
<1>3. UNCHANGED <<campaign, messages, crashes>>
  BY DEF WorkerText, tables
<1>4. /\ batch'[w] = batch[w] \ {j}
      /\ ok'[w] \cup bad'[w] = ok[w] \cup bad[w] \cup {j}
      /\ \A v \in Workers \ {w} : batch'[v] = batch[v] /\ ok'[v] = ok[v] /\ bad'[v] = bad[v]
  BY <1>1 DEF Texted, TypeOK
<1>5. texts'[j] <= texts[j] + 1 /\ texts'[j] \in Nat /\ \A i \in Messages \ {j} : texts'[i] = texts[i]
  BY <1>1, <1>2 DEF Texted, TypeOK
<1>6. ASSUME NEW i \in Messages \ {j}
      PROVE  Through(i)' = Through(i) /\ Holding(i)' = Holding(i)
  BY <1>4 DEF Through, Holding
<1>7. Through(j)' = Through(j) \cup {w} /\ w \notin Through(j)
  BY <1>1, <1>4 DEF Through, BatchesApart
<1>8. Holding(j)' = Holding(j) \ {w} /\ w \in Holding(j)
  BY <1>1, <1>4 DEF Holding
<1>9. /\ Cardinality(Through(j)') = Cardinality(Through(j)) + 1
      /\ Cardinality(Holding(j)') = Cardinality(Holding(j)) - 1
  <2>1. IsFiniteSet(Through(j)) /\ IsFiniteSet(Holding(j))
    BY <1>2, WorkersCounted
  <2>2. Cardinality(Through(j) \cup {w}) = Cardinality(Through(j)) + 1
    BY <1>7, <2>1, FS_AddElement
  <2>3. Cardinality(Holding(j) \ {w}) = Cardinality(Holding(j)) - 1
    BY <1>8, <2>1, FS_RemoveElement
  <2>4. QED
    BY <1>7, <1>8, <2>2, <2>3
<1>10. /\ Cardinality(Through(j)) \in Nat /\ Cardinality(Holding(j)) \in Nat
       /\ Cardinality(Workers) \in Nat /\ crashes \in Nat /\ texts[j] \in Nat
  BY <1>2, WorkersCounted, OutreachAssumption DEF TypeOK
<1>11. /\ messages'[j] = "pending" => texts'[j] <= crashes' + Cardinality(Through(j)')
       /\ messages'[j] # "pending" =>
            texts'[j] + Cardinality(Holding(j)') <= crashes' + Cardinality(Workers)
  <2>1. /\ messages[j] = "pending" => texts[j] <= crashes + Cardinality(Through(j))
        /\ messages[j] # "pending" =>
             texts[j] + Cardinality(Holding(j)) <= crashes + Cardinality(Workers)
    BY <1>2 DEF TextsBounded
  <2>2. QED
    BY <1>3, <1>5, <1>9, <1>10, <2>1
<1>12. QED
  BY <1>2, <1>3, <1>5, <1>6, <1>11 DEF TextsBounded

\* What a request that ends was through with it no longer is; its commit, which
\* does not add a text, makes its messages sent or failed.
LEMMA EndedTexts ==
  ASSUME OutreachInv, NEW w \in Workers, WorkerEnds(w), crashes' \in {crashes, crashes + 1},
         ~campaign.exists => ~campaign'.exists,
         \A i \in Messages :
           \/ messages'[i] = messages[i]
              /\ (i \in ok[w] \cup bad[w] /\ messages[i] = "pending" => crashes' = crashes + 1)
           \/ messages'[i] \in {"sent", "failed"}
  PROVE  TextsBounded'
<1> USE DEF OutreachInv
<1>1. /\ batch'[w] = {} /\ ok'[w] = {} /\ bad'[w] = {} /\ texts' = texts
      /\ \A v \in Workers \ {w} : batch'[v] = batch[v] /\ ok'[v] = ok[v] /\ bad'[v] = bad[v]
  BY DEF WorkerEnds, TypeOK
<1>2. SUFFICES ASSUME NEW i \in Messages
               PROVE  /\ messages'[i] = "pending" => texts'[i] <= crashes' + Cardinality(Through(i)')
                      /\ messages'[i] # "pending" =>
                           texts'[i] + Cardinality(Holding(i)') <= crashes' + Cardinality(Workers)
                      /\ messages'[i] = "none" /\ campaign'.exists => texts'[i] = 0
  BY DEF TextsBounded
<1>3. Through(i)' = Through(i) \ {w} /\ Holding(i)' = Holding(i) \ {w}
  BY <1>1 DEF Through, Holding
<1>4. /\ Cardinality(Through(i)) \in Nat /\ Cardinality(Holding(i)) \in Nat
      /\ Cardinality(Workers) \in Nat /\ crashes \in Nat /\ texts[i] \in Nat
      /\ Cardinality(Through(i)) + Cardinality(Holding(i)) <= Cardinality(Workers)
  BY WorkersCounted, OutreachAssumption DEF TypeOK
<1>5. /\ w \in Through(i) => Cardinality(Through(i)') = Cardinality(Through(i)) - 1
      /\ w \notin Through(i) => Cardinality(Through(i)') = Cardinality(Through(i))
  BY <1>3, WorkersCounted, FS_RemoveElement
<1>6. Cardinality(Holding(i)') \in Nat /\ Cardinality(Holding(i)') <= Cardinality(Holding(i))
  BY <1>3, WorkersCounted, FS_Subset, FS_CardinalityType
<1>7. w \in Through(i) <=> i \in ok[w] \cup bad[w]
  BY DEF Through
<1>8. /\ messages[i] = "pending" => texts[i] <= crashes + Cardinality(Through(i))
      /\ messages[i] # "pending" => texts[i] + Cardinality(Holding(i)) <= crashes + Cardinality(Workers)
      /\ messages[i] = "none" /\ campaign.exists => texts[i] = 0
  BY DEF TextsBounded
<1>9. CASE messages'[i] = messages[i]
           /\ (i \in ok[w] \cup bad[w] /\ messages[i] = "pending" => crashes' = crashes + 1)
  BY <1>1, <1>4, <1>5, <1>6, <1>7, <1>8, <1>9
<1>10. CASE messages'[i] \in {"sent", "failed"}
  BY <1>1, <1>4, <1>6, <1>8, <1>10
<1>11. QED
  BY <1>9, <1>10

LEMMA WorkerTexts ==
  ASSUME OutreachInv, NEW w \in Workers, Process(w)
  PROVE  TextsBounded'
<1> USE DEF OutreachInv
<1>1. CASE WorkerBegin(w)
  <2>1. PICK some \in SUBSET Pending : batch' = [batch EXCEPT ![w] = some]
    BY <1>1 DEF WorkerBegin
  <2>2. UNCHANGED <<campaign, messages, ok, bad, texts, crashes>> /\ batch[w] = {}
    BY <1>1 DEF WorkerBegin, tables, BatchesApart
  <2>3. \A i \in Messages : /\ Through(i)' = Through(i)
                            /\ messages[i] # "pending" => Holding(i)' = Holding(i)
    BY <2>1, <2>2 DEF Through, Holding, Pending, TypeOK
  <2>4. QED
    BY <2>2, <2>3 DEF TextsBounded
<1>2. CASE WorkerText(w)
  BY <1>2, TextTexts
<1>3. CASE WorkerLoad(w) \/ WorkerCount(w)
  <2>1. UNCHANGED <<campaign, messages, batch, ok, bad, texts, crashes>>
    BY <1>3 DEF WorkerLoad, WorkerCount, Counted, tables
  <2>2. QED
    BY <2>1, HeldTheSame DEF TextsBounded
<1>4. CASE WorkerCommit(w)
  <2>1. \A i \in Messages : IF i \in ok[w] \cup bad[w] THEN messages'[i] \in {"sent", "failed"}
                                                       ELSE messages'[i] = messages[i]
    BY <1>4 DEF WorkerCommit
  <2>2. WorkerEnds(w) /\ crashes' = crashes /\ campaign.exists
    BY <1>4 DEF WorkerCommit
  <2>3. QED
    BY <2>1, <2>2, EndedTexts
<1>5. CASE WorkerCrash(w)
  BY <1>5, EndedTexts DEF WorkerCrash
<1>6. CASE WorkerGone(w)
  <2>1. \A i \in Messages : messages[i] = "none"
    BY <1>6 DEF WorkerGone, BatchesApart
  <2>2. QED
    BY <1>6, <2>1, EndedTexts DEF WorkerGone
<1>7. QED
  BY <1>1, <1>2, <1>3, <1>4, <1>5, <1>6 DEF Process

LEMMA OperatorTexts ==
  ASSUME OutreachInv, UpdateCampaign \/ DeleteCampaign \/ \E m \in Mechanics : UpdateLeadStatus(m)
  PROVE  TextsBounded'
<1> USE DEF OutreachInv
<1>1. UNCHANGED <<batch, ok, bad, texts, crashes>>
  BY DEF UpdateCampaign, DeleteCampaign, UpdateLeadStatus, workers
<1>2. CASE UpdateCampaign \/ \E m \in Mechanics : UpdateLeadStatus(m)
  <2>1. messages' = messages /\ campaign'.exists = campaign.exists
    BY <1>2, RowSteps DEF UpdateCampaign, UpdateLeadStatus
  <2>2. QED
    BY <1>1, <2>1, HeldTheSame DEF TextsBounded
<1>3. CASE DeleteCampaign
  <2>1. (\A i \in Messages : messages'[i] = "none") /\ campaign'.exists = FALSE
    BY <1>3, RowSteps DEF DeleteCampaign
  <2>2. ASSUME NEW i \in Messages
        PROVE  texts'[i] + Cardinality(Holding(i)') <= crashes' + Cardinality(Workers)
    <3>1. /\ Cardinality(Through(i)) \in Nat /\ Cardinality(Holding(i)) \in Nat
          /\ Cardinality(Workers) \in Nat /\ crashes \in Nat /\ texts[i] \in Nat
          /\ Cardinality(Through(i)) + Cardinality(Holding(i)) <= Cardinality(Workers)
      BY WorkersCounted, OutreachAssumption DEF TypeOK
    <3>2. /\ messages[i] = "pending" => texts[i] <= crashes + Cardinality(Through(i))
          /\ messages[i] # "pending" =>
               texts[i] + Cardinality(Holding(i)) <= crashes + Cardinality(Workers)
      BY DEF TextsBounded
    <3>3. texts' = texts /\ crashes' = crashes /\ Holding(i)' = Holding(i)
      BY <1>1, HeldTheSame
    <3>4. QED
      BY <3>1, <3>2, <3>3
  <2>3. QED
    BY <2>1, <2>2 DEF TextsBounded
<1>4. QED
  BY <1>2, <1>3

(***************************************************************************)
(* Theorems.                                                               *)
(***************************************************************************)
LEMMA InitInv == Init => OutreachInv
<1> SUFFICES ASSUME Init PROVE OutreachInv
  OBVIOUS
<1>1. TypeOK
  BY InitTypes
<1>2. QueuedOnce /\ QueueHeld
  BY DEF Init, QueuedOnce, QueueHeld, Unwritten, Messages, Draft
<1>3. BatchesApart /\ CountHolds
  BY DEF Init, BatchesApart, CountHolds, Draft
<1>4. TextsBounded
  <2>1. ASSUME NEW i \in Messages
        PROVE  Holding(i) = {} /\ messages[i] = "none" /\ texts[i] = 0
    BY DEF Init, Holding
  <2>2. crashes = 0 /\ Cardinality({}) = 0 /\ Cardinality(Workers) \in Nat
    BY FS_EmptySet, FS_CardinalityType, OutreachAssumption DEF Init
  <2>3. QED
    BY <2>1, <2>2 DEF TextsBounded
<1>5. QED
  BY <1>1, <1>2, <1>3, <1>4 DEF OutreachInv

LEMMA StutterInv ==
  ASSUME OutreachInv, UNCHANGED vars
  PROVE  OutreachInv'
<1>1. UNCHANGED <<campaign, messages, lock, sending, queued, pc, batch, ok, bad, complete, texts, crashes>>
  BY DEF vars, tables, senders, workers
<1>2. TypeOK'
  BY StutterTypes DEF OutreachInv
<1>3. (QueuedOnce /\ QueueHeld)'
  BY <1>1 DEF OutreachInv, QueuedOnce, QueueHeld, Unwritten
<1>4. (BatchesApart /\ CountHolds)'
  BY <1>1 DEF OutreachInv, BatchesApart, CountHolds, Pending
<1>5. TextsBounded'
  BY <1>1, HeldTheSame DEF OutreachInv, TextsBounded
<1>6. QED
  BY <1>2, <1>3, <1>4, <1>5 DEF OutreachInv

LEMMA StepInv == OutreachInv /\ [Next]_vars => OutreachInv'
<1> SUFFICES ASSUME OutreachInv, [Next]_vars PROVE OutreachInv'
  OBVIOUS
<1>1. ASSUME NEW s \in Senders, Send(s) PROVE OutreachInv'
  BY <1>1, SenderTypes, SenderQueue, SenderBatches, SenderTexts DEF OutreachInv
<1>2. ASSUME NEW w \in Workers, Process(w) PROVE OutreachInv'
  BY <1>2, WorkerTypes, WorkerQueue, WorkerBatches, WorkerTexts DEF OutreachInv
<1>3. ASSUME UpdateCampaign \/ DeleteCampaign \/ \E m \in Mechanics : UpdateLeadStatus(m)
      PROVE  OutreachInv'
  BY <1>3, OperatorTypes, OperatorQueue, OperatorBatches, OperatorTexts DEF OutreachInv
<1>4. QED
  BY <1>1, <1>2, <1>3, StutterInv DEF Next

LEMMA Invariance == Spec => []OutreachInv
BY InitInv, StepInv, PTL DEF Spec

\* However many send requests overlap and however often the campaign is
\* reopened, no mechanic has two messages in it.
THEOREM QueuedOnceAlways == Spec => []QueuedOnce
<1>1. OutreachInv => QueuedOnce
  BY DEF OutreachInv
<1>2. QED
  BY <1>1, Invariance, PTL

LEMMA TextsWithin ==
  ASSUME OutreachInv
  PROVE  TextsAccounted
<1>1. ASSUME NEW i \in Messages
      PROVE  texts[i] <= Cardinality(Workers) + crashes
  <2>1. /\ Cardinality(Through(i)) \in Nat /\ Cardinality(Holding(i)) \in Nat
        /\ Cardinality(Workers) \in Nat /\ crashes \in Nat /\ texts[i] \in Nat
        /\ Cardinality(Through(i)) + Cardinality(Holding(i)) <= Cardinality(Workers)
    BY WorkersCounted, OutreachAssumption DEF OutreachInv, TypeOK
  <2>2. /\ messages[i] = "pending" => texts[i] <= crashes + Cardinality(Through(i))
        /\ messages[i] # "pending" =>
             texts[i] + Cardinality(Holding(i)) <= crashes + Cardinality(Workers)
    BY DEF OutreachInv, TextsBounded
  <2>3. QED
    BY <2>1, <2>2
<1>2. QED
  BY <1>1 DEF TextsAccounted

\* A message is texted at most once for each worker that can hold it and each
\* one cut off.
THEOREM TextsAccountedAlways == Spec => []TextsAccounted
  BY TextsWithin, Invariance, PTL

\* A worker that sent something completes the campaign only when no message of
\* it is left pending, whatever send requests run beside it.
THEOREM CompletionAlwaysTrue == Spec => CompletionIsTrue
<1> DEFINE Completes(w) == /\ pc[w] = "commit" /\ pc'[w] = "idle"
                           /\ crashes' = crashes /\ campaign.exists
                           /\ complete[w] /\ ok[w] # {}
           True == \A w \in Workers : Completes(w) => \A i \in Messages : messages'[i] # "pending"
<1>1. ASSUME OutreachInv, Next PROVE True
  <2>1. SUFFICES ASSUME NEW w \in Workers, Completes(w), NEW i \in Messages, messages'[i] = "pending"
                 PROVE  FALSE
    OBVIOUS
  <2>2. WorkerCommit(w)
    <3>1. TypeOK /\ pc' # pc /\ pc'[w] # pc[w]
      BY <1>1, <2>1 DEF OutreachInv
    <3>2. PICK v \in Workers : Process(v)
      BY <1>1, <3>1 DEF Next, Send, SendBegin, SendCheck, Checked, SendCommit, SendEnds, SendAbort,
           UpdateCampaign, DeleteCampaign, UpdateLeadStatus, workers
    <3>3. v = w
      BY <3>1, <3>2 DEF Process, WorkerBegin, WorkerText, WorkerLoad, WorkerCount, Counted,
           WorkerCommit, WorkerCrash, WorkerGone, WorkerEnds, TypeOK
    <3>4. crashes \in Nat
      BY <3>1, OutreachAssumption DEF TypeOK
    <3>5. QED
      BY <2>1, <3>2, <3>3, <3>4 DEF Process, WorkerBegin, WorkerText, WorkerLoad, WorkerCount,
           WorkerCrash, WorkerGone
  <2>3. messages'[i] = IF i \in ok[w] THEN "sent" ELSE IF i \in bad[w] THEN "failed" ELSE messages[i]
    BY <2>2 DEF WorkerCommit
  <2>4. i \in Pending /\ i \notin ok[w] \cup bad[w]
    BY <2>1, <2>3 DEF Pending
  <2>5. Pending \subseteq ok[w] \cup bad[w]
    BY <1>1, <2>1 DEF OutreachInv, CountHolds
  <2>6. QED
    BY <2>4, <2>5
<1>2. Spec => [][True]_vars
  BY <1>1, Invariance, PTL DEF Spec
<1>3. QED
  BY <1>2 DEF CompletionIsTrue

(***************************************************************************)
(* What total_sent counts.                                                 *)
(***************************************************************************)

\* What the workers texted and have not recorded yet.
Tally == {t \in Workers \X Messages : t[2] \in ok[t[1]]}

\* Neither total_sent nor what a worker read of it counts what is not recorded
\* yet, so that whoever writes it back next can add its own part.
SentBacked ==
  /\ campaign.sent + Cardinality(Tally) <= Cardinality(Delivered)
  /\ \A w \in Workers : seen[w].sent + Cardinality(Tally) <= Cardinality(Delivered)

LEMMA TallyFinite == IsFiniteSet(Tally) /\ Cardinality(Tally) \in Nat
<1>1. IsFiniteSet(Workers \X Messages)
  BY OutreachAssumption, MessagesFinite, FS_Product
<1>2. Tally \subseteq Workers \X Messages
  BY DEF Tally
<1>3. IsFiniteSet(Tally)
  BY <1>1, <1>2, FS_Subset
<1>4. QED
  BY <1>3, FS_CardinalityType

LEMMA DeliveredFinite == IsFiniteSet(Delivered) /\ Cardinality(Delivered) \in Nat
<1> DEFINE most == Cardinality(Workers) + MaxCrashes
<1>1. most \in Int /\ 1 \in Int
  BY OutreachAssumption, FS_CardinalityType
<1>2. Delivered \subseteq Messages \X (1 .. most)
  BY DEF Delivered
<1> HIDE DEF most
<1>3. IsFiniteSet(1 .. most)
  BY <1>1, FS_Interval
<1>4. IsFiniteSet(Messages \X (1 .. most))
  BY <1>3, MessagesFinite, FS_Product
<1>5. IsFiniteSet(Delivered)
  BY <1>2, <1>4, FS_Subset
<1>6. QED
  BY <1>5, FS_CardinalityType

LEMMA SentTypes ==
  ASSUME TypeOK
  PROVE  campaign.sent \in Nat /\ \A w \in Workers : seen[w].sent \in Nat
BY DEF TypeOK, Row

\* A request that ends takes its part out of the tally.
LEMMA EndedTally ==
  ASSUME TypeOK, NEW w \in Workers, WorkerEnds(w)
  PROVE  /\ Cardinality(ok[w]) \in Nat /\ Cardinality(Tally)' \in Nat
         /\ Cardinality(Tally) = Cardinality(Tally)' + Cardinality(ok[w])
<1> DEFINE Part == {w} \X ok[w]
           Rest == {t \in Workers \X Messages : t[1] # w /\ t[2] \in ok[t[1]]}
<1>1. ok[w] \subseteq Messages /\ IsFiniteSet(ok[w]) /\ Cardinality(ok[w]) \in Nat
  <2>1. ok[w] \in SUBSET Messages
    BY DEF TypeOK
  <2>2. QED
    BY <2>1, MessagesFinite, FS_Subset, FS_CardinalityType
<1>2. Tally' = Rest
  BY DEF Tally, WorkerEnds, TypeOK
<1>3. Tally = Rest \cup Part /\ Rest \cap Part = {}
  BY <1>1 DEF Tally
<1>4. IsFiniteSet({w}) /\ Cardinality({w}) = 1
  BY FS_Singleton
<1>5. IsFiniteSet(Part) /\ Cardinality(Part) = 1 * Cardinality(ok[w])
  BY <1>1, <1>4, FS_Product
<1>6. Rest \subseteq Tally
  BY <1>3
<1> HIDE DEF Part, Rest
<1>7. IsFiniteSet(Rest) /\ Cardinality(Rest) \in Nat
  BY <1>6, TallyFinite, FS_Subset, FS_CardinalityType
<1>8. Cardinality(Rest \cup Part) = Cardinality(Rest) + Cardinality(Part) - Cardinality(Rest \cap Part)
  BY <1>5, <1>7, FS_Union
<1>9. Cardinality(Rest \cap Part) = 0
  BY <1>3, FS_EmptySet
<1>10. Cardinality(Part) = Cardinality(ok[w])
  BY <1>1, <1>5
<1>11. QED
  BY <1>1, <1>2, <1>3, <1>7, <1>8, <1>9, <1>10

\* One more text is one more of the provider's, and at most one more to record.
LEMMA TextTally ==
  ASSUME OutreachInv, OutreachInv', TextsAccounted', NEW w \in Workers, WorkerText(w)
  PROVE  \/ Tally' = Tally /\ Delivered' = Delivered
         \/ /\ Cardinality(Delivered)' = Cardinality(Delivered) + 1
            /\ Cardinality(Tally)' <= Cardinality(Tally) + 1
            /\ Cardinality(Tally)' \in Nat
<1> USE DEF OutreachInv
<1>1. PICK j \in batch[w], accepted \in BOOLEAN, answered \in BOOLEAN :
        (answered => accepted) /\ Texted(w, j, accepted, answered)
  BY DEF WorkerText
<1>2. j \in Messages
  BY DEF TypeOK
<1>3. ~answered => ok' = ok
  BY <1>1 DEF Texted, TypeOK
<1>4. ~answered => Tally' = Tally
  BY <1>3 DEF Tally
<1>5. CASE ~accepted
  <2>1. texts' = texts
    BY <1>1, <1>5 DEF Texted, TypeOK
  <2>2. QED
    BY <1>1, <1>4, <1>5, <2>1 DEF Delivered
<1>6. CASE accepted
  <2> DEFINE next == texts[j] + 1
  <2>1. texts' = [texts EXCEPT ![j] = next] /\ texts \in [Messages -> Nat]
    BY <1>1, <1>6 DEF Texted, TypeOK
  <2>2. next \in 1 .. Cardinality(Workers) + MaxCrashes
    <3>1. texts'[j] <= Cardinality(Workers) + crashes' /\ crashes' \in 0 .. MaxCrashes
      BY <1>2 DEF TextsAccounted, TypeOK
    <3>2. texts[j] \in Nat /\ texts'[j] = next
      BY <1>2, <2>1
    <3>3. Cardinality(Workers) \in Nat /\ MaxCrashes \in Nat
      BY OutreachAssumption, FS_CardinalityType
    <3>4. QED
      BY <3>1, <3>2, <3>3
  <2>3. \A i \in Messages : \A n \in 1 .. Cardinality(Workers) + MaxCrashes :
          n <= texts'[i] <=> n <= texts[i] \/ (i = j /\ n = next)
    <3>1. ASSUME NEW i \in Messages, NEW n \in 1 .. Cardinality(Workers) + MaxCrashes
          PROVE  n <= texts'[i] <=> n <= texts[i] \/ (i = j /\ n = next)
      <4>1. n \in Int /\ texts[i] \in Nat
        BY <2>1
      <4>2. CASE i = j
        BY <1>2, <2>1, <4>1, <4>2
      <4>3. CASE i # j
        BY <2>1, <4>3
      <4>4. QED
        BY <4>2, <4>3
    <3>2. QED
      BY <3>1
  <2>4. <<j, next>> \in Messages \X (1 .. Cardinality(Workers) + MaxCrashes)
    BY <1>2, <2>2
  <2>5. Delivered' = Delivered \cup {<<j, next>>}
    BY <2>3, <2>4 DEF Delivered
  <2>6. <<j, next>> \notin Delivered
    BY <1>2, <2>1 DEF Delivered
  <2> HIDE DEF next
  <2>7. Cardinality(Delivered)' = Cardinality(Delivered) + 1
    BY <2>5, <2>6, DeliveredFinite, FS_AddElement
  <2>8. Tally' = Tally \/ Tally' = Tally \cup {<<w, j>>}
    <3>1. CASE ~answered
      BY <1>4, <3>1
    <3>2. CASE answered
      <4>1. ok' = [ok EXCEPT ![w] = @ \cup {j}]
        BY <1>1, <3>2 DEF Texted
      <4>2. QED
        BY <1>2, <4>1 DEF Tally, TypeOK
    <3>3. QED
      BY <3>1, <3>2
  <2>9. /\ Cardinality(Tally \cup {<<w, j>>}) \in Nat
        /\ Cardinality(Tally \cup {<<w, j>>}) <= Cardinality(Tally) + 1
    <3>1. /\ IsFiniteSet(Tally \cup {<<w, j>>})
          /\ Cardinality(Tally \cup {<<w, j>>})
               \in {Cardinality(Tally), Cardinality(Tally) + 1}
      BY TallyFinite, FS_AddElement
    <3>2. QED
      BY <3>1, TallyFinite
  <2>10. Cardinality(Tally)' \in Nat /\ Cardinality(Tally)' <= Cardinality(Tally) + 1
    <3>1. CASE Tally' = Tally
      BY <3>1, TallyFinite
    <3>2. CASE Tally' = Tally \cup {<<w, j>>}
      BY <2>9, <3>2
    <3>3. QED
      BY <2>8, <3>1, <3>2
  <2>11. QED
    BY <2>7, <2>10
<1>7. QED
  BY <1>5, <1>6

LEMMA InitSentBacked == Init => SentBacked
<1> SUFFICES ASSUME Init PROVE SentBacked
  OBVIOUS
<1>1. Tally = {}
  BY DEF Init, Tally
<1>2. Cardinality(Tally) = 0
  BY <1>1, FS_EmptySet
<1>3. campaign.sent = 0 /\ \A w \in Workers : seen[w].sent = 0
  BY DEF Init, Draft
<1>4. QED
  BY <1>2, <1>3, DeliveredFinite DEF SentBacked

\* Where nothing is texted and no request ends, what is read of total_sent is
\* what it is.
LEMMA SentKept ==
  ASSUME TypeOK, SentBacked, ok' = ok, texts' = texts, campaign'.sent = campaign.sent,
         \A w \in Workers : seen'[w].sent \in {seen[w].sent, campaign.sent}
  PROVE  SentBacked'
<1>1. Tally' = Tally /\ Delivered' = Delivered
  BY DEF Tally, Delivered
<1>2. QED
  BY <1>1 DEF SentBacked

LEMMA EndedSent ==
  ASSUME OutreachInv, SentBacked, NEW w \in Workers, WorkerEnds(w),
         campaign'.sent \in {campaign.sent, seen[w].sent + Cardinality(ok[w])}
  PROVE  SentBacked'
<1>1. /\ Cardinality(ok[w]) \in Nat /\ Cardinality(Tally)' \in Nat
      /\ Cardinality(Tally) = Cardinality(Tally)' + Cardinality(ok[w])
  BY EndedTally DEF OutreachInv
<1>2. Delivered' = Delivered
  BY DEF WorkerEnds, Delivered
<1>3. \A v \in Workers : seen'[v].sent \in {0, seen[v].sent}
  BY DEF WorkerEnds, Draft, OutreachInv, TypeOK
<1>4. campaign.sent \in Nat /\ \A v \in Workers : seen[v].sent \in Nat
  BY SentTypes DEF OutreachInv
<1>5. /\ campaign.sent + Cardinality(Tally) <= Cardinality(Delivered)
      /\ \A v \in Workers : seen[v].sent + Cardinality(Tally) <= Cardinality(Delivered)
      /\ Cardinality(Delivered) \in Nat
  BY DeliveredFinite DEF SentBacked
<1>6. campaign'.sent + Cardinality(Tally)' <= Cardinality(Delivered)
  BY <1>1, <1>4, <1>5
<1>7. ASSUME NEW v \in Workers
      PROVE  seen'[v].sent + Cardinality(Tally)' <= Cardinality(Delivered)
  BY <1>1, <1>3, <1>4, <1>5
<1>8. QED
  BY <1>2, <1>6, <1>7 DEF SentBacked

LEMMA WorkerSent ==
  ASSUME OutreachInv, OutreachInv', TextsAccounted', SentBacked,
         NEW w \in Workers, Process(w)
  PROVE  SentBacked'
<1> USE DEF OutreachInv
<1>1. CASE WorkerBegin(w) \/ WorkerCount(w)
  BY <1>1, SentKept DEF WorkerBegin, WorkerCount, Counted, tables
<1>2. CASE WorkerText(w)
  <2>1. campaign' = campaign /\ seen' = seen
    BY <1>2 DEF WorkerText, tables
  <2>2. CASE Tally' = Tally /\ Delivered' = Delivered
    BY <2>1, <2>2 DEF SentBacked
  <2>3. CASE /\ Cardinality(Delivered)' = Cardinality(Delivered) + 1
             /\ Cardinality(Tally)' <= Cardinality(Tally) + 1
             /\ Cardinality(Tally)' \in Nat
    <3>1. campaign.sent \in Nat /\ \A v \in Workers : seen[v].sent \in Nat
      BY SentTypes
    <3>2. /\ campaign.sent + Cardinality(Tally) <= Cardinality(Delivered)
          /\ \A v \in Workers : seen[v].sent + Cardinality(Tally) <= Cardinality(Delivered)
      BY DEF SentBacked
    <3>3. campaign.sent + Cardinality(Tally)' <= Cardinality(Delivered)'
      BY <2>3, <3>1, <3>2, TallyFinite, DeliveredFinite
    <3>4. ASSUME NEW v \in Workers
          PROVE  seen[v].sent + Cardinality(Tally)' <= Cardinality(Delivered)'
      BY <2>3, <3>1, <3>2, TallyFinite, DeliveredFinite
    <3>5. QED
      BY <2>1, <3>3, <3>4 DEF SentBacked
  <2>4. QED
    BY <1>2, <2>2, <2>3, TextTally
<1>3. CASE WorkerLoad(w)
  BY <1>3, SentKept DEF WorkerLoad, tables, TypeOK
<1>4. CASE WorkerCommit(w)
  <2>1. Cardinality(ok[w]) \in Nat /\ WorkerEnds(w)
    BY <1>4, EndedTally DEF WorkerCommit
  <2>2. campaign'.sent \in {campaign.sent, seen[w].sent + Cardinality(ok[w])}
    BY <1>4, <2>1, CommitRow DEF CountSent
  <2>3. QED
    BY <2>1, <2>2, EndedSent
<1>5. CASE WorkerCrash(w) \/ WorkerGone(w)
  BY <1>5, EndedSent DEF WorkerCrash, WorkerGone
<1>6. QED
  BY <1>1, <1>2, <1>3, <1>4, <1>5 DEF Process

LEMMA OtherSent ==
  ASSUME OutreachInv, SentBacked,
         \/ \E s \in Senders : Send(s)
         \/ UpdateCampaign \/ DeleteCampaign
         \/ \E m \in Mechanics : UpdateLeadStatus(m)
  PROVE  SentBacked'
<1>1. TypeOK /\ campaign \in Row
  BY DEF OutreachInv, TypeOK
<1>2. ok' = ok /\ texts' = texts /\ seen' = seen
  BY DEF Send, SendBegin, SendCheck, Checked, SendCommit, SendAbort, SendEnds,
         UpdateCampaign, DeleteCampaign, UpdateLeadStatus, workers
<1>3. campaign'.sent = campaign.sent
  <2>1. \/ campaign' = campaign
        \/ \E status \in CampaignStatus : campaign' = [campaign EXCEPT !.status = status]
        \/ campaign' = [campaign EXCEPT !.exists = FALSE]
    <3>1. "sending" \in CampaignStatus
      BY DEF CampaignStatus
    <3>2. QED
      BY <3>1, WrittenStatus
      DEF Send, SendBegin, SendCheck, Checked, SendCommit, SendAbort, UpdateCampaign,
          DeleteCampaign, UpdateLeadStatus, tables
  <2>2. ASSUME NEW status \in CampaignStatus, campaign' = [campaign EXCEPT !.status = status]
        PROVE  campaign'.sent = campaign.sent
    BY <1>1, <2>2, RowStatus
  <2>3. ASSUME campaign' = [campaign EXCEPT !.exists = FALSE]
        PROVE  campaign'.sent = campaign.sent
    BY <1>1, <2>3, RowExists
  <2>4. QED
    BY <2>1, <2>2, <2>3
<1>4. QED
  BY <1>1, <1>2, <1>3, SentKept

LEMMA StepSentBacked ==
  OutreachInv /\ OutreachInv' /\ TextsAccounted' /\ SentBacked /\ [Next]_vars
    => SentBacked'
<1> SUFFICES ASSUME OutreachInv, OutreachInv', TextsAccounted', SentBacked, [Next]_vars
             PROVE  SentBacked'
  OBVIOUS
<1>1. CASE UNCHANGED vars
  BY <1>1, SentKept DEF vars, tables, workers, OutreachInv
<1>2. QED
  BY <1>1, WorkerSent, OtherSent DEF Next

\* total_sent is at most the number of texts the provider accepted, however
\* many workers read it before each other's commit and write it back after,
\* are cut off, or text a message again: a worker adds only what it texted
\* since it began, and nobody it overlaps has counted that.
THEOREM CountedWasTextedAlways == Spec => []CountedWasTexted
<1>1. OutreachInv /\ SentBacked => CountedWasTexted
  <2> SUFFICES ASSUME OutreachInv, SentBacked PROVE CountedWasTexted
    OBVIOUS
  <2>1. campaign.sent \in Nat
    BY SentTypes DEF OutreachInv
  <2>2. QED
    BY <2>1, TallyFinite, DeliveredFinite DEF SentBacked, CountedWasTexted
<1>2. QED
  BY <1>1, Invariance, TextsAccountedAlways, InitSentBacked, StepSentBacked, PTL DEF Spec
===============================================================================
