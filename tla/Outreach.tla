------------------------------- MODULE Outreach -------------------------------
(***************************************************************************)
(* One outreach campaign: an operator edits, sends, reopens and deletes    *)
(* it, send requests queue one message for each mechanic of its segment,   *)
(* and workers take batches of pending messages and text them.  Requests   *)
(* overlap, each in a transaction of its own under READ COMMITTED, and may *)
(* be cut off anywhere: a text is out as soon as the provider has it, what *)
(* the database knows of it is there only after the commit.                *)
(*                                                                         *)
(* What the requests share is the campaign's row.  SQLAlchemy flushes what *)
(* is dirty before each query, so that a request holds the row's lock from *)
(* its first query after it changed the campaign.  Rows of messages are    *)
(* locked as well; those locks only delay one worker until another ended.  *)
(***************************************************************************)
EXTENDS Naturals, FiniteSets

CONSTANTS
  Mechanics,    \* the mechanics a segment query can return
  Copies,       \* bound: how many messages of one mechanic are told apart
  Segment,      \* the lead statuses the campaign's filters let through
  Senders,      \* the send requests that can overlap
  Workers,      \* the process requests that can overlap
  Nobody,       \* no transaction has changed the campaign's row
  BatchSize,    \* the batch_size of a process request
  StatusEdits,  \* the statuses an operator writes: any words
  LeadEdits,    \* bound: the lead statuses an operator writes
  MaxCrashes    \* bound: how often a worker is cut off

Leads == {"new", "contacted", "do_not_contact"}

\* Nothing checks the status an operator writes.
CampaignStatus ==
  {"draft", "scheduled", "sending", "completed", "paused"} \cup StatusEdits

MessageStatus == {"none", "pending", "sent", "failed"}

Messages == Mechanics \X Copies

ASSUME OutreachAssumption ==
  /\ Segment \cup LeadEdits \subseteq Leads
  /\ Nobody \notin Senders \cup Workers
  /\ Senders \cap Workers = {}
  /\ IsFiniteSet(Mechanics) /\ IsFiniteSet(Copies) /\ IsFiniteSet(Workers)
  /\ BatchSize \in Nat
  /\ MaxCrashes \in Nat

VARIABLES
  campaign,     \* its row: whether it exists, its status and total_sent
  messages,     \* the status of each message of the campaign
  lead,         \* mechanics.lead_status
  lock,         \* the request whose transaction has changed the campaign's row
  sending,      \* whether a send request is under way
  unchecked,    \* the mechanics it loaded and has not looked at yet
  queued,       \* those it queues a message for
  fresh,        \* those it loaded with the lead status "new"
  pc,           \* where a process request is
  batch,        \* the messages it has still to text
  ok,           \* those it texted
  bad,          \* those it could not text
  seen,         \* the campaign's row as it loaded it
  complete,     \* whether it saw nothing pending
  texts,        \* at the provider: how many texts of a message were accepted
  crashes       \* how many process requests were cut off

senders == <<sending, unchecked, queued, fresh>>

workers == <<pc, batch, ok, bad, seen, complete>>

tables == <<campaign, messages, lead>>

vars == <<tables, lock, senders, workers, texts, crashes>>

Row == [exists : BOOLEAN, status : CampaignStatus, sent : Nat]

Draft == [exists |-> TRUE, status |-> "draft", sent |-> 0]

TypeOK ==
  /\ campaign \in Row
  /\ messages \in [Messages -> MessageStatus]
  /\ lead \in [Mechanics -> Leads]
  /\ lock \in Senders \cup Workers \cup {Nobody}
  /\ sending \in [Senders -> BOOLEAN]
  /\ unchecked \in [Senders -> SUBSET Mechanics]
  /\ queued \in [Senders -> SUBSET Mechanics]
  /\ fresh \in [Senders -> SUBSET Mechanics]
  /\ pc \in [Workers -> {"idle", "texting", "count", "commit"}]
  /\ batch \in [Workers -> SUBSET Messages]
  /\ ok \in [Workers -> SUBSET Messages]
  /\ bad \in [Workers -> SUBSET Messages]
  /\ seen \in [Workers -> Row]
  /\ complete \in [Workers -> BOOLEAN]
  /\ texts \in [Messages -> Nat]
  /\ crashes \in 0 .. MaxCrashes

\* create_campaign; the directory holds mechanics nobody wrote to.
Init ==
  /\ campaign = Draft
  /\ messages = [i \in Messages |-> "none"]
  /\ lead = [m \in Mechanics |-> "new"]
  /\ lock = Nobody
  /\ sending = [s \in Senders |-> FALSE]
  /\ unchecked = [s \in Senders |-> {}]
  /\ queued = [s \in Senders |-> {}]
  /\ fresh = [s \in Senders |-> {}]
  /\ pc = [w \in Workers |-> "idle"]
  /\ batch = [w \in Workers |-> {}]
  /\ ok = [w \in Workers |-> {}]
  /\ bad = [w \in Workers |-> {}]
  /\ seen = [w \in Workers |-> Draft]
  /\ complete = [w \in Workers |-> FALSE]
  /\ texts = [i \in Messages |-> 0]
  /\ crashes = 0

Unlocked(r) == IF lock = r THEN Nobody ELSE lock

Pending == {i \in Messages : messages[i] = "pending"}

Unwritten(m) == {c \in Copies : messages[<<m, c>>] = "none"}

InSegment == {m \in Mechanics : lead[m] \in Segment}

(***************************************************************************)
(* send_campaign.                                                          *)
(***************************************************************************)

\* The end of a send request, by commit or rollback.
SendEnds(s) ==
  /\ lock' = Unlocked(s)
  /\ sending' = [sending EXCEPT ![s] = FALSE]
  /\ unchecked' = [unchecked EXCEPT ![s] = {}]
  /\ queued' = [queued EXCEPT ![s] = {}]
  /\ fresh' = [fresh EXCEPT ![s] = {}]
  /\ UNCHANGED <<workers, texts, crashes>>

\* The request loads the campaign and the mechanics of the segment.  Which of
\* them are active, pass the other filters and have an address for the channel
\* is the directory's business; it may be none that has one.
SendBegin(s) ==
  /\ ~sending[s]
  /\ campaign.exists
  /\ campaign.status \in {"draft", "paused"}
  /\ InSegment # {}
  /\ sending' = [sending EXCEPT ![s] = TRUE]
  /\ \E targets \in SUBSET InSegment :
       /\ unchecked' = [unchecked EXCEPT ![s] = targets]
       /\ fresh' = [fresh EXCEPT ![s] = {m \in targets : lead[m] = "new"}]
  /\ UNCHANGED <<tables, lock, queued, workers, texts, crashes>>

\* A mechanic with a message in the campaign gets no other.
Checked(s, m) ==
  /\ unchecked' = [unchecked EXCEPT ![s] = @ \ {m}]
  /\ queued' = [queued EXCEPT ![s] = IF Unwritten(m) = Copies THEN @ \cup {m} ELSE @]
  /\ UNCHANGED <<tables, sending, fresh, workers, texts, crashes>>

\* Mutant: the campaign's new status is written after the queries.
SendCheckUnlocked(s) ==
  /\ sending[s]
  /\ campaign.exists
  /\ \E m \in unchecked[s] : Checked(s, m)
  /\ lock' = lock

\* The query for an existing message of the next mechanic first flushes the
\* campaign's new status, and with it takes the lock.
SendCheck(s) ==
  /\ sending[s]
  /\ campaign.exists
  /\ lock \in {Nobody, s}
  /\ \E m \in unchecked[s] : Checked(s, m)
  /\ lock' = s

\* A mechanic loaded as new is written back as contacted.
SendCommit(s) ==
  /\ sending[s]
  /\ unchecked[s] = {}
  /\ campaign.exists
  /\ lock \in {Nobody, s}
  /\ \A m \in queued[s] : Unwritten(m) # {}
  /\ messages' = [i \in Messages |->
       IF i[1] \in queued[s] /\ i[2] = CHOOSE c \in Unwritten(i[1]) : TRUE
         THEN "pending" ELSE messages[i]]
  /\ lead' = [m \in Mechanics |->
       IF m \in queued[s] \cap fresh[s] THEN "contacted" ELSE lead[m]]
  /\ campaign' = [campaign EXCEPT !.status = "sending"]
  /\ SendEnds(s)

\* A template that cannot be rendered, a deleted campaign, a lost connection.
SendAbort(s) ==
  /\ sending[s]
  /\ SendEnds(s)
  /\ UNCHANGED tables

(***************************************************************************)
(* process_pending_messages.                                               *)
(***************************************************************************)

\* The end of a process request, by commit or rollback.
WorkerEnds(w) ==
  /\ lock' = Unlocked(w)
  /\ pc' = [pc EXCEPT ![w] = "idle"]
  /\ batch' = [batch EXCEPT ![w] = {}]
  /\ ok' = [ok EXCEPT ![w] = {}]
  /\ bad' = [bad EXCEPT ![w] = {}]
  /\ seen' = [seen EXCEPT ![w] = Draft]
  /\ complete' = [complete EXCEPT ![w] = FALSE]
  /\ UNCHANGED <<lead, senders, texts>>

\* A batch of pending messages, in no particular order.  The campaign's
\* status is not looked at.
WorkerBegin(w) ==
  /\ pc[w] = "idle"
  /\ campaign.exists
  /\ \E some \in SUBSET Pending :
       /\ Cardinality(some) <= BatchSize
       /\ some = Pending \/ Cardinality(some) = BatchSize
       /\ batch' = [batch EXCEPT ![w] = some]
  /\ pc' = [pc EXCEPT ![w] = "texting"]
  /\ UNCHANGED <<tables, lock, senders, ok, bad, seen, complete, texts, crashes>>

\* Mutant: a message whose sending failed is left for the next batch.
TextedRetrying(w, i, accepted, answered) ==
  /\ texts' = [texts EXCEPT ![i] = IF accepted THEN @ + 1 ELSE @]
  /\ ok' = [ok EXCEPT ![w] = IF answered THEN @ \cup {i} ELSE @]
  /\ bad' = bad

\* The provider accepts the text or refuses it, and its answer may be lost,
\* which counts as a refusal.
Texted(w, i, accepted, answered) ==
  /\ texts' = [texts EXCEPT ![i] = IF accepted THEN @ + 1 ELSE @]
  /\ ok' = [ok EXCEPT ![w] = IF answered THEN @ \cup {i} ELSE @]
  /\ bad' = [bad EXCEPT ![w] = IF answered THEN @ ELSE @ \cup {i}]

\* _send_sms, or _send_email.
WorkerText(w) ==
  /\ pc[w] = "texting"
  /\ campaign.exists
  /\ \E i \in batch[w] :
       /\ \E accepted, answered \in BOOLEAN :
            (answered => accepted) /\ Texted(w, i, accepted, answered)
       /\ batch' = [batch EXCEPT ![w] = @ \ {i}]
  /\ UNCHANGED <<tables, lock, senders, pc, seen, complete, crashes>>

\* The campaign is loaded again once the batch is through.
WorkerLoad(w) ==
  /\ pc[w] = "texting"
  /\ batch[w] = {}
  /\ campaign.exists
  /\ pc' = [pc EXCEPT ![w] = "count"]
  /\ seen' = [seen EXCEPT ![w] = campaign]
  /\ UNCHANGED <<tables, lock, senders, batch, ok, bad, complete, texts, crashes>>

\* Nothing is pending that the request is not through with itself.
Counted(w) ==
  /\ complete' = [complete EXCEPT ![w] = (Pending \subseteq ok[w] \cup bad[w])]
  /\ pc' = [pc EXCEPT ![w] = "commit"]
  /\ UNCHANGED <<tables, senders, batch, ok, bad, seen, texts, crashes>>

\* Mutant: the pending messages are counted before total_sent is changed.
WorkerCountUnlocked(w) ==
  /\ pc[w] = "count"
  /\ campaign.exists
  /\ Counted(w)
  /\ lock' = lock

\* The query for what is pending flushes total_sent, and with it takes the
\* lock, unless nothing of the batch was sent.
WorkerCount(w) ==
  /\ pc[w] = "count"
  /\ campaign.exists
  /\ ok[w] # {} => lock = Nobody
  /\ Counted(w)
  /\ lock' = IF ok[w] # {} THEN w ELSE lock

\* Mutant: what failed is counted as sent.
CountAll(w) == Cardinality(ok[w] \cup bad[w])

CountSent(w) == Cardinality(ok[w])

\* Of the campaign only what the request changed is written.
WorkerCommit(w) ==
  /\ pc[w] = "commit"
  /\ campaign.exists
  /\ complete[w] => lock \in {Nobody, w}
  /\ messages' = [i \in Messages |->
       IF i \in ok[w] THEN "sent" ELSE IF i \in bad[w] THEN "failed" ELSE messages[i]]
  /\ campaign' = [campaign EXCEPT
       !.status = IF complete[w] /\ seen[w].status # "completed" THEN "completed" ELSE @,
       !.sent = IF ok[w] # {} THEN seen[w].sent + CountSent(w) ELSE @]
  /\ WorkerEnds(w)
  /\ UNCHANGED crashes

\* The process dies, the connection is lost, or the database breaks a
\* deadlock: the transaction is rolled back, the texts are out.
WorkerCrash(w) ==
  /\ pc[w] # "idle"
  /\ campaign.exists
  /\ crashes < MaxCrashes
  /\ crashes' = crashes + 1
  /\ WorkerEnds(w)
  /\ UNCHANGED <<campaign, messages>>

\* With the campaign the messages are gone: nothing more is texted, and the
\* request fails or has nothing to write.
WorkerGone(w) ==
  /\ pc[w] # "idle"
  /\ ~campaign.exists
  /\ WorkerEnds(w)
  /\ UNCHANGED <<campaign, messages, crashes>>

(***************************************************************************)
(* The operator.  An UPDATE or DELETE of the campaign waits for the lock.  *)
(***************************************************************************)

\* Any status is taken.
UpdateCampaign ==
  /\ campaign.exists
  /\ lock = Nobody
  /\ \E status \in StatusEdits : campaign' = [campaign EXCEPT !.status = status]
  /\ UNCHANGED <<messages, lead, lock, senders, workers, texts, crashes>>

\* The database deletes the messages with the campaign.
DeleteCampaign ==
  /\ campaign.exists
  /\ lock = Nobody
  /\ campaign' = [campaign EXCEPT !.exists = FALSE]
  /\ messages' = [i \in Messages |-> "none"]
  /\ UNCHANGED <<lead, lock, senders, workers, texts, crashes>>

\* Mutant: the route takes any word.
UpdateLeadStatusUnchecked(m) ==
  /\ \E status \in LeadEdits \cup {"unsubscribed"} : lead' = [lead EXCEPT ![m] = status]
  /\ UNCHANGED <<campaign, messages, lock, senders, workers, texts, crashes>>

UpdateLeadStatus(m) ==
  /\ \E status \in LeadEdits : lead' = [lead EXCEPT ![m] = status]
  /\ UNCHANGED <<campaign, messages, lock, senders, workers, texts, crashes>>

Send(s) == SendBegin(s) \/ SendCheck(s) \/ SendCommit(s) \/ SendAbort(s)

Process(w) ==
  \/ WorkerBegin(w) \/ WorkerText(w) \/ WorkerLoad(w) \/ WorkerCount(w)
  \/ WorkerCommit(w) \/ WorkerCrash(w) \/ WorkerGone(w)

Next ==
  \/ \E s \in Senders : Send(s)
  \/ \E w \in Workers : Process(w)
  \/ UpdateCampaign
  \/ DeleteCampaign
  \/ \E m \in Mechanics : UpdateLeadStatus(m)

Spec == Init /\ [][Next]_vars

(***************************************************************************)
(* Properties.                                                             *)
(***************************************************************************)

\* A mechanic has at most one message in a campaign, however often it is
\* reopened and however its send requests overlap: send_campaign looks for an
\* existing message without locking one, and nothing in the table forbids two.
QueuedOnce ==
  \A m \in Mechanics : \A c, d \in Copies \ Unwritten(m) : c = d

\* What is texted is recorded only with the whole batch, so that a mechanic can
\* be texted again; but never more often than there are workers beside each
\* other and workers cut off.
TextsAccounted ==
  \A i \in Messages : texts[i] <= Cardinality(Workers) + crashes

\* The texts the provider accepted, each message's numbered from 1.
Delivered ==
  {t \in Messages \X (1 .. Cardinality(Workers) + MaxCrashes) : t[2] <= texts[t[1]]}

\* total_sent is read, added to and written back; whatever is in between, it
\* does not count a text the provider never accepted, and none twice.
CountedWasTexted == campaign.sent <= Cardinality(Delivered)

\* A worker that sent something and completes the campaign leaves no message
\* pending, although a reopened campaign can be sent beside it.
CompletionIsTrue ==
  [][\A w \in Workers :
       /\ pc[w] = "commit" /\ pc'[w] = "idle"
       /\ crashes' = crashes /\ campaign.exists
       /\ complete[w] /\ ok[w] # {}
       => \A i \in Messages : messages'[i] # "pending"]_vars
===============================================================================
