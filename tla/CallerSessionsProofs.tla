------------------------- MODULE CallerSessionsProofs -------------------------
(***************************************************************************)
(* The properties of the callers' sessions, proved for any number of       *)
(* drivers, sessions and calls and any windows.                            *)
(***************************************************************************)
EXTENDS CallerSessions, TLAPS

Request == [
  by : Callers, voice : BOOLEAN, map : BOOLEAN, spot : Spots \cup {Nowhere},
  call : Calls \cup {NoCall}, phone : Callers \cup {NoOne},
  area : BOOLEAN, problem : BOOLEAN]

\* What is true of each row by itself.
RowInv(r) ==
  /\ r \in Row
  /\ r.status = "awaiting_location" => r.spot = Nowhere
  /\ r.status = "matching" => r.spot # Nowhere
  /\ r.status = "matched" => r.match = "matched"
  /\ r.status = "manual_review" => r.match = "manual_dispatch_required"
  /\ \A c \in Callers : r.links[c] > 0 => c \in r.told
  /\ r.status = "absent" => r.told = {}

\* Driver d can have to do with the row: the map fallback was there, or all who
\* have are one driver and the guests G.
May(d, r, G) ==
  r.adopted \/ \E c \in Callers : d \in {c} \cup G /\ Parties(r) \subseteq {c} \cup G

\* What no write to a row takes away.
Kept(n, r) ==
  /\ n.code = r.code
  /\ r.told \subseteq n.told
  /\ r.status # "absent" => n.status # "absent"

RequestOf(q, c) ==
  /\ q \in Request
  /\ q.by = c
  /\ q.spot # Nowhere => Owner[q.spot] = c
  /\ q.call # NoCall => Caller[q.call] = c
  /\ q.phone \in {c, NoOne}

(***************************************************************************)
(* Writing one column keeps a row a row.                                   *)
(***************************************************************************)
LEMMA StatusColumn == \A r \in Row, v \in DispatchSessionStatus : [r EXCEPT !.status = v] \in Row
BY DEF Row

LEMMA CodeColumn == \A r \in Row, v \in Codes \cup {NoCode} : [r EXCEPT !.code = v] \in Row
BY DEF Row

LEMMA AgeColumn == \A r \in Row, v \in 0 .. OldAge : [r EXCEPT !.age = v] \in Row
BY DEF Row

LEMMA IdleColumn == \A r \in Row, v \in 0 .. MapWindow + 1 : [r EXCEPT !.idle = v] \in Row
BY DEF Row

LEMMA FixColumn == \A r \in Row, v \in 0 .. MapWindow + 1 : [r EXCEPT !.fix = v] \in Row
BY DEF Row

LEMMA NoAge == 0 \in 0 .. MapWindow + 1
BY WindowsAssumption

LEMMA MapColumn == \A r \in Row, v \in BOOLEAN : [r EXCEPT !.map = v] \in Row
BY DEF Row

LEMMA CallColumn == \A r \in Row, v \in Calls \cup {NoCall} : [r EXCEPT !.call = v] \in Row
BY DEF Row

LEMMA PhoneColumn == \A r \in Row, v \in Callers \cup {NoOne} : [r EXCEPT !.phone = v] \in Row
BY DEF Row

LEMMA SpotColumn == \A r \in Row, v \in Spots \cup {Nowhere} : [r EXCEPT !.spot = v] \in Row
BY DEF Row

LEMMA AreaColumn == \A r \in Row, v \in BOOLEAN : [r EXCEPT !.area = v] \in Row
BY DEF Row

LEMMA ProblemColumn == \A r \in Row, v \in BOOLEAN : [r EXCEPT !.problem = v] \in Row
BY DEF Row

LEMMA MatchColumn == \A r \in Row, v \in MatchStatus : [r EXCEPT !.match = v] \in Row
BY DEF Row

LEMMA AdoptedColumn == \A r \in Row, v \in BOOLEAN : [r EXCEPT !.adopted = v] \in Row
BY DEF Row

LEMMA ToldColumn == \A r \in Row, v \in SUBSET Callers : [r EXCEPT !.told = v] \in Row
BY DEF Row

LEMMA LinksColumn == \A r \in Row, v \in [Callers -> 0 .. LinkLife] : [r EXCEPT !.links = v] \in Row
BY DEF Row

(***************************************************************************)
(* The pieces the handlers share.                                          *)
(***************************************************************************)
LEMMA AbsentRow == RowInv(Absent) /\ Parties(Absent) = {}
<1>1. Absent \in Row
  <2>1. OldAge \in Nat BY WindowsAssumption DEF OldAge
  <2>2. "absent" \in DispatchSessionStatus /\ "none" \in MatchStatus
    BY DEF DispatchSessionStatus, MatchStatus
  <2> QED BY <2>1, <2>2, WindowsAssumption DEF Row, Absent
<1> QED BY <1>1, WindowsAssumption DEF RowInv, Absent, Parties

LEMMA FreshRow ==
  ASSUME NEW code \in Codes
  PROVE  /\ RowInv(Fresh(code)) /\ Fresh(code) \in Row /\ Fresh(code).code = code
         /\ Fresh(code).status # "absent" /\ Parties(Fresh(code)) = {}
<1> DEFINE waiting == [Absent EXCEPT !.status = "awaiting_location"]
<1>1. Absent \in Row BY AbsentRow DEF RowInv
<1>2. waiting \in Row
  <2>1. "awaiting_location" \in DispatchSessionStatus BY DEF DispatchSessionStatus
  <2> QED BY <1>1, <2>1, StatusColumn, Zenon
<1>3. Fresh(code) = [waiting EXCEPT !.code = code] BY DEF Fresh, Absent
<1>4. Fresh(code) \in Row
  <2> HIDE DEF waiting
  <2>1. code \in Codes \cup {NoCode} OBVIOUS
  <2> QED BY <1>2, <1>3, <2>1, CodeColumn, Zenon
<1> QED BY <1>4, WindowsAssumption DEF RowInv, Fresh, Absent, Parties

LEMMA IntakeRow ==
  ASSUME NEW r, RowInv(r), NEW q \in Request
  PROVE  RowInv(Intake(r, q)) /\ Kept(Intake(r, q), r)
<1> DEFINE kept == [r EXCEPT !.map = q.map, !.area = @ \/ q.area, !.problem = @ \/ q.problem,
                             !.call = IF q.call # NoCall THEN q.call ELSE @,
                             !.phone = IF q.phone # NoOne THEN q.phone ELSE @]
           placed == IF q.spot # Nowhere THEN [kept EXCEPT !.spot = q.spot, !.fix = 0] ELSE kept
<1>1. r \in Row BY DEF RowInv
<1>2. kept \in Row
  <2>1. /\ q.map \in BOOLEAN /\ (r.area \/ q.area) \in BOOLEAN /\ (r.problem \/ q.problem) \in BOOLEAN
        /\ (IF q.call # NoCall THEN q.call ELSE r.call) \in Calls \cup {NoCall}
        /\ (IF q.phone # NoOne THEN q.phone ELSE r.phone) \in Callers \cup {NoOne}
    BY <1>1, SMT DEF Row, Request
  <2> QED BY <1>1, <2>1, MapColumn, AreaColumn, ProblemColumn, CallColumn, PhoneColumn, Zenon
<1>3. placed \in Row
  <2>1. q.spot \in Spots \cup {Nowhere} BY DEF Request
  <2> QED BY <1>2, <2>1, SpotColumn, FixColumn, NoAge, Zenon
<1>4. Intake(r, q) \in Row
  <2>1. "matching" \in DispatchSessionStatus BY DEF DispatchSessionStatus
  <2>2. Intake(r, q) = IF placed.spot # Nowhere /\ placed.status = "awaiting_location"
                       THEN [placed EXCEPT !.status = "matching"] ELSE placed
    BY Zenon DEF Intake
  <2> HIDE DEF placed
  <2> QED BY <1>3, <2>1, <2>2, StatusColumn, Zenon
<1> QED BY <1>1, <1>4, SMT DEF RowInv, Row, Request, Intake, Kept

LEMMA IntakeMay ==
  ASSUME NEW r \in Row, NEW c, NEW G, NEW q, RequestOf(q, c), May(c, r, G)
  PROVE  May(c, Intake(r, q), G)
<1>1. Intake(r, q).adopted = r.adopted BY DEF Row, Intake
<1>2. Parties(Intake(r, q)) \subseteq Parties(r) \cup {c}
  BY DEF Row, Request, RequestOf, Intake, Parties
<1> QED BY <1>1, <1>2 DEF May

LEMMA ApplySharedRow ==
  ASSUME NEW r, RowInv(r), NEW spot \in Spots \cup {Nowhere}
  PROVE  RowInv(ApplyShared(r, spot)) /\ Kept(ApplyShared(r, spot), r)
<1>1. r \in Row BY DEF RowInv
<1>2. ApplyShared(r, spot) \in Row
  <2>1. "matching" \in DispatchSessionStatus BY DEF DispatchSessionStatus
  <2> QED BY <1>1, <2>1, StatusColumn, SpotColumn, FixColumn, NoAge, Zenon DEF ApplyShared
<1> QED BY <1>1, <1>2, SMT DEF RowInv, Row, ApplyShared, Kept

LEMMA ApplySharedMay ==
  ASSUME NEW r \in Row, NEW c, NEW G, NEW spot, spot # Nowhere => Owner[spot] = c, May(c, r, G)
  PROVE  May(c, ApplyShared(r, spot), G)
<1>1. ApplyShared(r, spot).adopted = r.adopted BY DEF Row, ApplyShared
<1>2. Parties(ApplyShared(r, spot)) \subseteq Parties(r) \cup {c} BY DEF Row, ApplyShared, Parties
<1> QED BY <1>1, <1>2 DEF May

LEMMA IssueLinkRow ==
  ASSUME NEW r, RowInv(r), r.status # "absent", NEW c \in Callers
  PROVE  RowInv(IssueLink(r, c)) /\ Kept(IssueLink(r, c), r)
<1> DEFINE told == [r EXCEPT !.told = @ \cup {c}]
           linked == [told EXCEPT !.links = [r.links EXCEPT ![c] = LinkLife]]
<1>1. r \in Row BY DEF RowInv
<1>2. told \in Row
  <2>1. r.told \cup {c} \in SUBSET Callers BY <1>1 DEF Row
  <2> QED BY <1>1, <2>1, ToldColumn, Zenon
<1>3. linked \in Row
  <2>1. [r.links EXCEPT ![c] = LinkLife] \in [Callers -> 0 .. LinkLife]
    BY <1>1, WindowsAssumption DEF Row
  <2> QED BY <1>2, <2>1, LinksColumn, Zenon
<1>4. IssueLink(r, c) = [linked EXCEPT !.idle = 0]
  BY <1>1 DEF IssueLink, Row
<1>5. IssueLink(r, c) \in Row
  <2> HIDE DEF linked
  <2> QED BY <1>3, <1>4, IdleColumn, NoAge, Zenon
<1> QED BY <1>1, <1>4, <1>5, SMT DEF RowInv, Row, Kept

LEMMA IssueLinkMay ==
  ASSUME NEW r \in Row, NEW c, NEW G, May(c, r, G)
  PROVE  May(c, IssueLink(r, c), G)
<1>1. IssueLink(r, c).adopted = r.adopted BY DEF Row, IssueLink
<1>2. Parties(IssueLink(r, c)) \subseteq Parties(r) \cup {c} BY DEF Row, IssueLink, Parties
<1> QED BY <1>1, <1>2 DEF May

LEMMA RelocatedRow ==
  ASSUME NEW r, RowInv(r), r.status # "absent", NEW spot \in Spots, NEW problem \in BOOLEAN,
         NEW result \in Results
  PROVE  /\ RowInv(Relocated(r, spot, problem, result))
         /\ Kept(Relocated(r, spot, problem, result), r)
<1> DEFINE at == [r EXCEPT !.spot = spot, !.area = TRUE, !.problem = @ \/ problem,
                           !.fix = 0, !.idle = 0, !.status = "matching"]
           new == Relocated(r, spot, problem, result)
<1>1. r \in Row BY DEF RowInv
<1>2. {"matching", "intake", "matched"} \subseteq DispatchSessionStatus /\ result \in MatchStatus
  BY DEF DispatchSessionStatus, MatchStatus, Results
<1>3. at \in Row
  <2>1. (r.problem \/ problem) \in BOOLEAN OBVIOUS
  <2>2. TRUE \in BOOLEAN /\ spot \in Spots \cup {Nowhere} /\ "matching" \in DispatchSessionStatus
    BY <1>2
  <2> QED BY <1>1, <2>1, <2>2, SpotColumn, AreaColumn, ProblemColumn, FixColumn, IdleColumn,
             StatusColumn, NoAge, Zenon
<1>4. new = IF ~Ready(at) THEN [at EXCEPT !.status = "intake"]
            ELSE [[at EXCEPT !.match = result] EXCEPT
                    !.status = IF result = "matched" THEN "matched" ELSE at.status]
  BY <1>1, <1>3, SMT DEF Relocated, Row
<1>5. new \in Row
  <2>1. (IF result = "matched" THEN "matched" ELSE at.status) \in DispatchSessionStatus
    BY <1>2, <1>3 DEF Row
  <2>2. "intake" \in DispatchSessionStatus BY <1>2
  <2> HIDE DEF at, new
  <2> QED BY <1>2, <1>3, <1>4, <2>1, <2>2, StatusColumn, MatchColumn, Zenon
<1> QED BY <1>1, <1>4, <1>5, SpotsAssumption, SMT DEF RowInv, Row, Kept

LEMMA RelocatedMay ==
  ASSUME NEW r \in Row, NEW c, NEW G, NEW spot \in OwnSpots(c), NEW problem, NEW result,
         May(c, r, G)
  PROVE  May(c, Relocated(r, spot, problem, result), G)
<1> DEFINE n == Relocated(r, spot, problem, result)
<1>1. n.adopted = r.adopted /\ n.told = r.told /\ n.phone = r.phone /\ n.call = r.call /\ n.spot = spot
  BY DEF Row, Relocated
<1> HIDE DEF n
<1>2. Parties(n) \subseteq Parties(r) \cup {c} BY <1>1 DEF OwnSpots, Parties
<1> QED BY <1>1, <1>2 DEF May, n

LEMMA AgedRow ==
  ASSUME NEW r, RowInv(r)
  PROVE  /\ RowInv(Aged(r)) /\ Aged(r).adopted = r.adopted /\ Parties(Aged(r)) = Parties(r)
         /\ Aged(r).code = r.code /\ Aged(r).told = r.told /\ Aged(r).status = r.status
<1>1. r \in Row BY DEF RowInv
<1>2. /\ Older(r.age, OldAge) \in 0 .. OldAge
      /\ Older(r.idle, MapWindow + 1) \in 0 .. MapWindow + 1
      /\ Older(r.fix, MapWindow + 1) \in 0 .. MapWindow + 1
      /\ [c \in Callers |-> IF r.links[c] > 0 THEN r.links[c] - 1 ELSE 0] \in [Callers -> 0 .. LinkLife]
  BY <1>1, WindowsAssumption, SMT DEF Row, Older, OldAge
<1>3. Aged(r) \in Row
  BY <1>1, <1>2, AgeColumn, IdleColumn, FixColumn, LinksColumn, Zenon DEF Aged
<1>4. \A c \in Callers : Aged(r).links[c] > 0 => r.links[c] > 0
  BY <1>1, WindowsAssumption, SMT DEF Row, Aged
<1>5. /\ Aged(r).status = r.status /\ Aged(r).spot = r.spot /\ Aged(r).match = r.match
      /\ Aged(r).told = r.told /\ Aged(r).phone = r.phone /\ Aged(r).call = r.call
      /\ Aged(r).adopted = r.adopted /\ Aged(r).code = r.code
  BY <1>1, SMT DEF Row, Aged
<1> QED BY <1>1, <1>3, <1>4, <1>5, SMT DEF RowInv, Parties

(***************************************************************************)
(* The inductive invariant.                                                *)
(***************************************************************************)
OwnedRow(r, G) ==
  RowInv(r) /\ (r.adopted \/ \E c \in Callers : Parties(r) \subseteq {c} \cup G)

CodesUnique ==
  /\ \A s \in Known : row[s].code \in Codes /\ \A c \in Callers : row[s].code \notin OldCodes[c]
  /\ \A s, t \in Known : row[s].code = row[t].code => s = t

SessionsInv ==
  /\ row \in [Sessions -> Row]
  /\ \A s \in Sessions : OwnedRow(row[s], Namesakes(s))
  /\ CodesUnique

\* A location is stored under the phone number of the driver who is there.
SharedInv ==
  SharedTypeOK /\ \A c \in Callers : shared[c].spot # Nowhere => Owner[shared[c].spot] = c

CallsInv ==
  CallTypeOK /\ CallIsLocated /\ \A k \in Calls : acs[k].phone \in {Caller[k], NoOne}

IInv == SessionsInv /\ SharedInv /\ CallsInv

LEMMA InitInv == Init => IInv
<1> SUFFICES ASSUME Init PROVE IInv
  OBVIOUS
<1> USE DEF Init, DispatchInit, SharedInit, CallInit
<1>1. SessionsInv
  <2>1. \A G : OwnedRow(Absent, G)
    <3>1. PICK c \in Callers : TRUE BY CallersAssumption
    <3> QED BY <3>1, AbsentRow DEF OwnedRow
  <2>2. Absent \in Row BY AbsentRow DEF RowInv
  <2>3. Known = {} BY DEF Known, Absent
  <2> QED BY <2>1, <2>2, <2>3 DEF SessionsInv, CodesUnique
<1>2. SharedInv
  BY ShareLifeAssumption DEF SharedInv, SharedTypeOK, NoShare
<1>3. CallsInv
  BY CallLifeAssumption DEF CallsInv, CallTypeOK, CallIsLocated, CallSessionStatus
<1> QED BY <1>1, <1>2, <1>3 DEF IInv

\* Whom a request can meet in the row it works on: nobody in a new one.
Guests(s) == IF s \in Known THEN Namesakes(s) ELSE {}

LEMMA Row0Owned ==
  ASSUME SessionsInv, NEW s \in Sessions, NEW r \in Row0(s)
  PROVE  RowInv(r) /\ r \in Row /\ r.status # "absent"
<1>1. CASE s \in Known
  BY <1>1 DEF Row0, Known, SessionsInv, OwnedRow
<1>2. CASE s \notin Known
  BY <1>2, FreshRow DEF Row0, Unused
<1> QED BY <1>1, <1>2

LEMMA RowStep ==
  ASSUME SessionsInv, NEW s \in Sessions, NEW r \in Row0(s), NEW n, OwnedRow(n, Guests(s)),
         Kept(n, r), row' = [row EXCEPT ![s] = n]
  PROVE  SessionsInv'
<1>1. /\ row \in [Sessions -> Row] /\ n \in Row
      /\ \A t \in Sessions : RowInv(row[t]) /\ OwnedRow(row[t], Namesakes(t))
  BY DEF SessionsInv, OwnedRow, RowInv
<1>2. row' \in [Sessions -> Row] BY <1>1
<1>3. \A t \in Sessions : row'[t] = IF t = s THEN n ELSE row[t] BY <1>1
<1>4. CASE s \in Known
  <2>1. n.code = row[s].code /\ row[s].told \subseteq n.told /\ n.status # "absent"
    BY <1>4 DEF Row0, Kept, Known
  <2>2. /\ \A t \in Sessions : row'[t].code = row[t].code /\ row[t].told \subseteq row'[t].told
        /\ \A t \in Sessions : (row'[t].status = "absent") = (row[t].status = "absent")
    BY <1>3, <1>4, <2>1 DEF Known
  <2>3. Known' = Known /\ CodesUnique' BY <2>2 DEF Known, CodesUnique, SessionsInv
  <2>4. \A c : CodesOf(c) \subseteq CodesOf(c)'
    BY <2>2 DEF CodesOf
  <2>5. \A t \in Sessions : Namesakes(t) \subseteq Namesakes(t)'
    BY <2>2, <2>4 DEF Namesakes
  <2>6. \A t \in Sessions : OwnedRow(row'[t], Namesakes(t))
    BY <1>1, <1>3, <1>4 DEF Guests
  <2>7. \A t \in Sessions : OwnedRow(row'[t], Namesakes(t)')
    BY <2>5, <2>6 DEF OwnedRow
  <2> QED BY <1>2, <2>3, <2>7 DEF SessionsInv, OwnedRow, RowInv, Parties, Row, OldAge
<1>5. CASE s \notin Known
  <2>1. PICK code \in Unused : r = Fresh(code) BY <1>5 DEF Row0
  <2>2. n.code = code /\ n.status # "absent" /\ code \in Codes
    BY <2>1, FreshRow DEF Kept, Unused
  <2>3. row[s].told = {} BY <1>1, <1>5 DEF RowInv, Known
  <2>4. Known' = Known \cup {s} BY <1>3, <2>2 DEF Known
  <2>5. CodesUnique'
    <3>1. \A t \in Known : row[t].code # code BY DEF Unused
    <3>2. \A c \in Callers : code \notin OldCodes[c] BY DEF Unused
    <3>3. \A t \in Known : t # s /\ t \in Sessions /\ row'[t].code = row[t].code
      BY <1>3, <1>5 DEF Known
    <3>4. row'[s].code = code BY <1>3, <2>2
    <3> QED BY <2>2, <2>4, <3>1, <3>2, <3>3, <3>4 DEF CodesUnique, SessionsInv
  <2>6. \A c : CodesOf(c) \subseteq CodesOf(c)'
    BY <1>3, <2>3 DEF CodesOf
  <2>7. \A t \in Sessions : t # s => Namesakes(t) \subseteq Namesakes(t)'
    BY <1>3, <2>6 DEF Namesakes
  <2>8. \A t \in Sessions : OwnedRow(row'[t], Namesakes(t)')
    BY <1>1, <1>3, <1>5, <2>7 DEF OwnedRow, Guests
  <2> QED BY <1>2, <2>5, <2>8 DEF SessionsInv, OwnedRow, RowInv, Parties, Row, OldAge
<1> QED BY <1>4, <1>5

LEMMA OwnedByMay ==
  ASSUME NEW r, RowInv(r), NEW c, NEW G, May(c, r, G)
  PROVE  OwnedRow(r, G)
BY DEF May, OwnedRow

LEMMA LookupOwned ==
  ASSUME SharedInv, NEW phone \in Callers \cup {NoOne}
  PROVE  /\ Lookup(phone) \in Spots \cup {Nowhere}
         /\ Lookup(phone) # Nowhere => phone \in Callers /\ Owner[Lookup(phone)] = phone
BY DEF SharedInv, SharedTypeOK, Lookup

LEMMA FoundIsOwn ==
  ASSUME SessionsInv, NEW c \in Callers, NEW q, RequestOf(q, c), NEW s \in Found(q)
  PROVE  May(c, row[s], Guests(s))
<1>1. s \in Sessions /\ s \in Known BY DEF Found, Newest, Known
<1>2. \/ q.call # NoCall /\ row[s].call = q.call
      \/ q.phone # NoOne /\ row[s].phone = q.phone
  BY DEF Found, Newest
<1>3. c \in Parties(row[s])
  BY <1>1, <1>2 DEF RequestOf, Parties
<1> QED BY <1>1, <1>3 DEF SessionsInv, OwnedRow, May, Guests

LEMMA CreateSessionStep ==
  ASSUME SessionsInv, SharedInv, NEW c \in Callers, NEW q, RequestOf(q, c), CreateSession(q)
  PROVE  SessionsInv'
<1>1. PICK s \in Sessions : \E r \in Row0(s) :
        /\ Adopts(q, s) \/ Reuses(q, s) \/ Opens(q, s)
        /\ LET a == [r EXCEPT !.adopted = @ \/ Adopts(q, s)]
           IN row' = [row EXCEPT ![s] =
                        IssueLink(ApplyShared(Intake(a, q), Lookup(q.phone)), q.by)]
  BY DEF CreateSession
<1>0. PICK r \in Row0(s) :
        /\ Adopts(q, s) \/ Reuses(q, s) \/ Opens(q, s)
        /\ LET a == [r EXCEPT !.adopted = @ \/ Adopts(q, s)]
           IN row' = [row EXCEPT ![s] =
                        IssueLink(ApplyShared(Intake(a, q), Lookup(q.phone)), q.by)]
  BY <1>1
<1> DEFINE a == [r EXCEPT !.adopted = @ \/ Adopts(q, s)]
           i == Intake(a, q)
           p == ApplyShared(i, Lookup(q.phone))
           n == IssueLink(p, c)
<1>2. RowInv(r) /\ r \in Row /\ r.status # "absent" BY Row0Owned
<1>3. (r.adopted \/ Adopts(q, s)) \in BOOLEAN OBVIOUS
<1>4. a \in Row
  BY <1>2, <1>3, AdoptedColumn, Zenon
<1>5. /\ RowInv(a) /\ Kept(a, r) /\ a.status # "absent" /\ Parties(a) = Parties(r)
      /\ a.adopted = (r.adopted \/ Adopts(q, s))
  <2>1. /\ a.status = r.status /\ a.spot = r.spot /\ a.match = r.match /\ a.links = r.links
        /\ a.told = r.told /\ a.phone = r.phone /\ a.call = r.call /\ a.code = r.code
    BY <1>2 DEF Row
  <2>2. a.adopted = (r.adopted \/ Adopts(q, s)) BY <1>2, Zenon DEF Row
  <2> HIDE DEF a
  <2>3. RowInv(a) BY <1>2, <1>4, <2>1 DEF RowInv
  <2>4. Parties(a) = Parties(r) BY <2>1 DEF Parties
  <2> QED BY <1>2, <2>1, <2>2, <2>3, <2>4 DEF Kept
<1>6. May(c, a, Guests(s))
  <2>1. CASE Adopts(q, s)
    BY <1>5, <2>1 DEF May
  <2>2. CASE Reuses(q, s)
    <3>1. s \in Found(q) /\ s \in Known BY <2>2 DEF Reuses, Found, Newest
    <3>2. r = row[s] BY <3>1 DEF Row0
    <3>3. May(c, r, Guests(s)) BY <3>1, <3>2, FoundIsOwn
    <3> HIDE DEF a
    <3> QED BY <1>5, <3>3 DEF May
  <2>3. CASE Opens(q, s)
    <3>1. \E code \in Codes : r = Fresh(code) BY <2>3 DEF Opens, Row0, Unused
    <3>2. Parties(r) = {} BY <3>1, FreshRow
    <3> HIDE DEF a
    <3> QED BY <1>5, <3>2 DEF May
  <2> QED BY <1>0, <2>1, <2>2, <2>3
<1> HIDE DEF a
<1>7. q \in Request /\ q.by = c /\ q.phone \in Callers \cup {NoOne} BY DEF RequestOf, Request
<1>8. RowInv(i) /\ i \in Row /\ Kept(i, a) BY <1>5, <1>7, IntakeRow DEF RowInv
<1>9. May(c, i, Guests(s)) BY <1>4, <1>6, IntakeMay
<1>10. /\ Lookup(q.phone) \in Spots \cup {Nowhere}
       /\ Lookup(q.phone) # Nowhere => Owner[Lookup(q.phone)] = c
  BY <1>7, LookupOwned, CallersAssumption DEF RequestOf
<1> HIDE DEF i
<1>11. RowInv(p) /\ p \in Row /\ Kept(p, i) BY <1>8, <1>10, ApplySharedRow DEF RowInv
<1>12. May(c, p, Guests(s)) BY <1>8, <1>9, <1>10, ApplySharedMay
<1> HIDE DEF p
<1>13. p.status # "absent" BY <1>5, <1>8, <1>11 DEF Kept
<1>14. RowInv(n) /\ Kept(n, p) BY <1>11, <1>13, IssueLinkRow
<1>15. May(c, n, Guests(s)) BY <1>11, <1>12, IssueLinkMay
<1>16. row' = [row EXCEPT ![s] = n] BY <1>0, <1>7 DEF a, i, p
<1> HIDE DEF n
<1>17. Kept(n, r) BY <1>5, <1>8, <1>11, <1>14 DEF Kept
<1> QED BY <1>14, <1>15, <1>16, <1>17, OwnedByMay, RowStep

LEMMA VoiceRequestOf == \A c \in Callers : \A q \in VoiceRequests(c) : RequestOf(q, c)
BY SpotsAssumption DEF VoiceRequests, RequestOf, Request

LEMMA BrowserRequestOf == \A c \in Callers : \A q \in BrowserRequests(c) : RequestOf(q, c)
BY SpotsAssumption, CallsAssumption DEF BrowserRequests, OwnSpots, RequestOf, Request

LEMMA StoreOwned ==
  ASSUME SharedInv, NEW c \in Callers, NEW phone \in {c, NoOne}, NEW spot \in OwnSpots(c),
         shared' = Store(phone, spot)
  PROVE  SharedInv'
BY CallersAssumption, ShareLifeAssumption DEF SharedInv, SharedTypeOK, Store, OwnSpots

LEMMA ConsumeOwned ==
  ASSUME SharedInv, NEW phone, shared' = Consume(phone)
  PROVE  SharedInv'
BY ShareLifeAssumption DEF SharedInv, SharedTypeOK, Consume, NoShare

LEMMA ExpireOwned ==
  ASSUME SharedInv, shared' = Expire
  PROVE  SharedInv'
BY ShareLifeAssumption DEF SharedInv, SharedTypeOK, Expire, NoShare

\* A link or a code leads its holder to a session he may have to do with.
LEMMA LinkHolder ==
  ASSUME SessionsInv, NEW s \in Sessions, NEW c \in row[s].told
  PROVE  s \in Known /\ row[s] \in Row0(s) /\ May(c, row[s], Guests(s))
<1>1. s \in Known BY DEF SessionsInv, OwnedRow, RowInv, Known
<1>2. c \in Parties(row[s]) BY DEF Parties
<1> QED BY <1>1, <1>2 DEF SessionsInv, OwnedRow, May, Guests, Row0

LEMMA CodeHolder ==
  ASSUME SessionsInv, NEW s \in Sessions, NEW c \in Callers, CodeAccepted(c, s)
  PROVE  s \in Known /\ row[s] \in Row0(s) /\ May(c, row[s], Guests(s))
<1>1. s \in Known BY DEF CodeAccepted
<1>2. PICK code \in CodesOf(c) : row[s].code \in normalize_public_code(code) BY DEF CodeAccepted
<1>3. CASE code = row[s].code
  <2>1. PICK t \in Sessions : c \in row[t].told /\ row[t].code = row[s].code
    BY <1>1, <1>2, <1>3 DEF CodesOf, SessionsInv, CodesUnique
  <2>2. t = s BY <1>1, <2>1, LinkHolder DEF SessionsInv, CodesUnique
  <2> QED BY <2>1, <2>2, LinkHolder
<1>4. CASE code # row[s].code
  <2>1. c \in Guests(s) BY <1>1, <1>2, <1>4 DEF Guests, Namesakes
  <2> QED BY <1>1, <2>1 DEF SessionsInv, OwnedRow, May, Guests, Row0
<1> QED BY <1>3, <1>4

LEMMA UpdateLocationStep ==
  ASSUME SessionsInv, NEW c \in Callers, NEW s \in Sessions, UpdateLocation(c, s)
  PROVE  SessionsInv'
<1>1. PICK spot \in OwnSpots(c), problem \in BOOLEAN, result \in Results :
        row' = [row EXCEPT ![s] = Relocated(row[s], spot, problem, result)]
  BY DEF UpdateLocation
<1> DEFINE n == Relocated(row[s], spot, problem, result)
<1>2. c \in row[s].told BY DEF UpdateLocation, SessionsInv, OwnedRow, RowInv
<1>3. RowInv(row[s]) /\ row[s] \in Row /\ row[s].status # "absent"
  BY <1>2, LinkHolder, Row0Owned
<1>4. spot \in Spots BY DEF OwnSpots
<1>5. RowInv(n) /\ Kept(n, row[s]) BY <1>3, <1>4, RelocatedRow
<1>6. May(c, n, Guests(s)) BY <1>2, <1>3, LinkHolder, RelocatedMay
<1>7. row' = [row EXCEPT ![s] = n] BY <1>1
<1> HIDE DEF n
<1>8. OwnedRow(n, Guests(s)) BY <1>5, <1>6, OwnedByMay
<1> QED BY <1>2, <1>5, <1>7, <1>8, LinkHolder, RowStep

LEMMA LinkCaseCodeStep ==
  ASSUME SessionsInv, NEW c \in Callers, NEW s \in Sessions, LinkCaseCode(c, s)
  PROVE  SessionsInv'
<1> DEFINE n == IssueLink(row[s], c)
<1>1. s \in Known /\ row[s] \in Row0(s) /\ May(c, row[s], Guests(s))
  BY CodeHolder DEF LinkCaseCode
<1>2. RowInv(row[s]) /\ row[s] \in Row /\ row[s].status # "absent" BY <1>1, Row0Owned
<1>3. RowInv(n) /\ Kept(n, row[s]) BY <1>2, IssueLinkRow
<1>4. May(c, n, Guests(s)) BY <1>1, <1>2, IssueLinkMay
<1>5. row' = [row EXCEPT ![s] = n] BY DEF LinkCaseCode
<1> HIDE DEF n
<1>6. OwnedRow(n, Guests(s)) BY <1>3, <1>4, OwnedByMay
<1> QED BY <1>1, <1>3, <1>5, <1>6, RowStep

LEMMA LocationByCodeStep ==
  ASSUME SessionsInv, NEW c \in Callers, NEW s \in Sessions, LocationByCode(c, s)
  PROVE  SessionsInv'
<1>1. PICK spot \in OwnSpots(c), problem \in BOOLEAN, result \in Results :
        row' = [row EXCEPT ![s] = Relocated(IssueLink(row[s], c), spot, problem, result)]
  BY DEF LocationByCode
<1> DEFINE i == IssueLink(row[s], c)
           n == Relocated(i, spot, problem, result)
<1>2. s \in Known /\ row[s] \in Row0(s) /\ May(c, row[s], Guests(s))
  BY CodeHolder DEF LocationByCode
<1>3. RowInv(row[s]) /\ row[s] \in Row /\ row[s].status # "absent" BY <1>2, Row0Owned
<1>4. RowInv(i) /\ i \in Row /\ Kept(i, row[s]) BY <1>3, IssueLinkRow DEF RowInv
<1>5. May(c, i, Guests(s)) BY <1>2, <1>3, IssueLinkMay
<1>6. i.status # "absent" BY <1>3, <1>4 DEF Kept
<1> HIDE DEF i
<1>7. spot \in Spots BY DEF OwnSpots
<1>8. RowInv(n) /\ Kept(n, i) BY <1>4, <1>6, <1>7, RelocatedRow
<1>9. May(c, n, Guests(s)) BY <1>4, <1>5, RelocatedMay
<1>10. row' = [row EXCEPT ![s] = n] BY <1>1 DEF i
<1> HIDE DEF n
<1>11. OwnedRow(n, Guests(s)) BY <1>8, <1>9, OwnedByMay
<1>12. Kept(n, row[s]) BY <1>4, <1>8 DEF Kept
<1> QED BY <1>2, <1>10, <1>11, <1>12, RowStep

LEMMA StatusResponseStep ==
  ASSUME SessionsInv, NEW s \in Sessions, StatusResponse(s)
  PROVE  SessionsInv'
<1>1. PICK result \in Results :
        LET status == IF result = "matched" THEN "matched" ELSE "manual_review"
        IN row' = [row EXCEPT ![s] = [@ EXCEPT !.match = result, !.status = status,
                        !.idle = IF row[s].status = status THEN row[s].idle ELSE 0]]
  BY DEF StatusResponse
<1> DEFINE status == IF result = "matched" THEN "matched" ELSE "manual_review"
           idle == IF row[s].status = status THEN row[s].idle ELSE 0
           n == [row[s] EXCEPT !.match = result, !.status = status, !.idle = idle]
<1>2. /\ row[s] \in Row /\ RowInv(row[s]) /\ OwnedRow(row[s], Guests(s))
      /\ row[s] \in Row0(s)
  BY DEF StatusResponse, SessionsInv, OwnedRow, RowInv, Guests, Row0
<1>3. /\ result \in MatchStatus /\ status \in DispatchSessionStatus /\ idle \in 0 .. MapWindow + 1
      /\ status = "matched" => result = "matched"
      /\ status = "manual_review" => result = "manual_dispatch_required"
      /\ status \in {"matched", "manual_review"}
  BY <1>2, NoAge DEF Results, MatchStatus, DispatchSessionStatus, Row
<1>4. row' = [row EXCEPT ![s] = n] BY <1>1
<1> HIDE DEF status, idle
<1>5. n \in Row BY <1>2, <1>3, MatchColumn, StatusColumn, IdleColumn, Zenon
<1>6. /\ n.status = status /\ n.match = result /\ n.spot = row[s].spot /\ n.links = row[s].links
      /\ n.told = row[s].told /\ n.phone = row[s].phone /\ n.call = row[s].call
      /\ n.adopted = row[s].adopted /\ n.code = row[s].code
  BY <1>2 DEF Row
<1> HIDE DEF n
<1>7. OwnedRow(n, Guests(s)) BY <1>2, <1>3, <1>5, <1>6 DEF OwnedRow, RowInv, Parties
<1>8. Kept(n, row[s]) BY <1>3, <1>6 DEF Kept
<1> QED BY <1>2, <1>4, <1>7, <1>8, RowStep

LEMMA LiveKitMatchStep ==
  ASSUME SessionsInv, NEW s \in Sessions, LiveKitMatch(s)
  PROVE  SessionsInv'
<1> DEFINE idle == IF row[s].problem THEN row[s].idle ELSE 0
           n == [row[s] EXCEPT !.problem = TRUE, !.idle = idle]
<1>1. /\ row[s] \in Row /\ RowInv(row[s]) /\ OwnedRow(row[s], Guests(s))
      /\ row[s] \in Row0(s)
  BY DEF LiveKitMatch, SessionsInv, OwnedRow, RowInv, Guests, Row0
<1>2. idle \in 0 .. MapWindow + 1 /\ TRUE \in BOOLEAN BY <1>1, NoAge DEF Row
<1>3. row' = [row EXCEPT ![s] = n] BY DEF LiveKitMatch, SessionsInv
<1> HIDE DEF idle
<1>4. n \in Row BY <1>1, <1>2, ProblemColumn, IdleColumn, Zenon
<1>5. /\ n.status = row[s].status /\ n.match = row[s].match /\ n.spot = row[s].spot
      /\ n.links = row[s].links /\ n.told = row[s].told /\ n.phone = row[s].phone
      /\ n.call = row[s].call /\ n.adopted = row[s].adopted /\ n.code = row[s].code
  BY <1>1 DEF Row
<1> HIDE DEF n
<1>6. OwnedRow(n, Guests(s)) BY <1>1, <1>4, <1>5 DEF OwnedRow, RowInv, Parties
<1>7. Kept(n, row[s]) BY <1>5 DEF Kept
<1> QED BY <1>1, <1>3, <1>6, <1>7, RowStep

LEMMA GoDispatchStep ==
  ASSUME SessionsInv, NEW c \in Callers, GoDispatch(c)
  PROVE  SessionsInv'
<1>1. PICK q \in GoRequests(c), result \in MatchStatus \ {"none"}, s \in Sessions :
        /\ Reuses(q, s) \/ Opens(q, s)
        /\ \E r \in Row0(s) : row' = [row EXCEPT ![s] = Gone(r, q, result)]
  BY DEF GoDispatch
<1>2. PICK r \in Row0(s) : row' = [row EXCEPT ![s] = Gone(r, q, result)]
  BY <1>1
<1>3. RequestOf(q, c) /\ q \in Request
  BY SpotsAssumption, CallsAssumption DEF GoRequests, RequestOf, Request, OwnSpots
<1> DEFINE i == Intake(r, q)
           status == IF result = "matched" THEN "matched" ELSE "intake"
           n == [i EXCEPT !.spot = q.spot, !.match = result, !.idle = 0, !.status = status]
<1>4. RowInv(r) /\ r \in Row /\ r.status # "absent" BY Row0Owned
<1>5. May(c, r, Guests(s))
  <2>1. CASE Reuses(q, s)
    <3>1. s \in Found(q) /\ s \in Known BY <2>1 DEF Reuses, Found, Newest
    <3>2. r = row[s] BY <3>1 DEF Row0
    <3> QED BY <1>3, <3>1, <3>2, FoundIsOwn
  <2>2. CASE Opens(q, s)
    <3>1. \E code \in Codes : r = Fresh(code) BY <2>2 DEF Opens, Row0, Unused
    <3>2. Parties(r) = {} BY <3>1, FreshRow
    <3> QED BY <3>2 DEF May
  <2> QED BY <1>1, <2>1, <2>2
<1>6. row' = [row EXCEPT ![s] = n] BY <1>2 DEF Gone
<1>7. RowInv(i) /\ i \in Row /\ Kept(i, r) BY <1>3, <1>4, IntakeRow DEF RowInv
<1>8. May(c, i, Guests(s)) BY <1>3, <1>4, <1>5, IntakeMay
<1>9. /\ q.spot \in Spots \cup {Nowhere}
      /\ q.spot # Nowhere => Owner[q.spot] = c
      /\ result \in MatchStatus /\ status \in DispatchSessionStatus
      /\ status \in {"matched", "intake"}
      /\ status = "matched" => result = "matched"
  BY <1>3 DEF RequestOf, Request, DispatchSessionStatus
<1> HIDE DEF i, status
<1>10. n \in Row BY <1>7, <1>9, SpotColumn, MatchColumn, IdleColumn, StatusColumn, NoAge, Zenon
<1>11. /\ n.status = status /\ n.match = result /\ n.spot = q.spot /\ n.links = i.links
       /\ n.told = i.told /\ n.phone = i.phone /\ n.call = i.call /\ n.adopted = i.adopted
       /\ n.code = i.code
  BY <1>7 DEF Row
<1> HIDE DEF n
<1>12. RowInv(n) BY <1>7, <1>9, <1>10, <1>11 DEF RowInv
<1>13. Parties(n) \subseteq Parties(i) \cup {c} BY <1>9, <1>11 DEF Parties
<1>14. OwnedRow(n, Guests(s)) BY <1>8, <1>11, <1>12, <1>13 DEF May, OwnedRow
<1>15. Kept(n, r) BY <1>7, <1>9, <1>11 DEF Kept
<1> QED BY <1>6, <1>14, <1>15, RowStep

LEMMA AgedStep ==
  ASSUME SessionsInv, row' = [s \in Sessions |-> Aged(row[s])]
  PROVE  SessionsInv'
<1>1. /\ row \in [Sessions -> Row]
      /\ \A s \in Sessions : RowInv(row[s]) /\ OwnedRow(row[s], Namesakes(s))
  BY DEF SessionsInv, OwnedRow, RowInv
<1>2. \A s \in Sessions : Aged(row[s]) \in Row /\ RowInv(Aged(row[s])) BY <1>1, AgedRow DEF RowInv
<1>3. row' \in [Sessions -> Row] /\ \A s \in Sessions : row'[s] = Aged(row[s]) BY <1>2
<1>4. \A s \in Sessions :
        /\ row'[s].code = row[s].code /\ row'[s].told = row[s].told
        /\ row'[s].status = row[s].status /\ row'[s].adopted = row[s].adopted
        /\ Parties(row'[s]) = Parties(row[s])
  BY <1>1, <1>3, AgedRow
<1>5. Known' = Known /\ CodesUnique' BY <1>4 DEF Known, CodesUnique, SessionsInv
<1>6. \A s \in Sessions : Namesakes(s)' = Namesakes(s) BY <1>4 DEF Namesakes, CodesOf
<1>7. \A s \in Sessions : OwnedRow(row'[s], Namesakes(s)')
  BY <1>1, <1>2, <1>3, <1>4, <1>6 DEF OwnedRow
<1> QED BY <1>3, <1>5, <1>7 DEF SessionsInv, OwnedRow, RowInv, Parties, Row, OldAge

(***************************************************************************)
(* The sessions of active calls.                                           *)
(***************************************************************************)
CallRow == [status : CallSessionStatus, phone : Callers \cup {NoOne},
            spot : Spots \cup {Nowhere}, left : 0 .. CallLife]

CallOK(k, r) ==
  /\ r \in CallRow
  /\ r.status \in {"location_received", "matched"} => r.spot # Nowhere
  /\ r.spot # Nowhere => Owner[r.spot] = Caller[k]
  /\ r.phone \in {Caller[k], NoOne}

LEMMA CallStep ==
  ASSUME CallsInv, NEW k \in Calls, NEW r, CallOK(k, r), acs' = [acs EXCEPT ![k] = r]
  PROVE  CallsInv'
<1>1. acs \in [Calls -> CallRow] /\ r \in CallRow BY DEF CallsInv, CallTypeOK, CallOK, CallRow
<1>2. acs' \in [Calls -> CallRow] BY <1>1
<1>3. \A j \in Calls : CallOK(j, acs'[j])
  BY <1>1 DEF CallsInv, CallIsLocated, CallOK
<1> QED BY <1>2, <1>3 DEF CallsInv, CallTypeOK, CallIsLocated, CallOK, CallRow, CallSessionStatus

LEMMA RefreshedOK ==
  ASSUME CallsInv, NEW k \in Calls, NEW phone \in PhoneOf(k)
  PROVE  CallOK(k, Refreshed(k, phone))
BY CallLifeAssumption, CallerAssumption
   DEF CallsInv, CallTypeOK, CallIsLocated, CallOK, CallRow, CallSessionStatus, PhoneOf, Refreshed

LEMMA LookedUpOK ==
  ASSUME CallsInv, NEW k \in Calls
  PROVE  CallOK(k, LookedUp(k))
BY DEF CallsInv, CallTypeOK, CallIsLocated, CallOK, CallRow, CallSessionStatus, LookedUp

LEMMA LocatedOK ==
  ASSUME NEW k \in Calls, NEW r, CallOK(k, r), NEW spot \in Spots, Owner[spot] = Caller[k]
  PROVE  CallOK(k, Located(r, spot))
BY SpotsAssumption DEF CallOK, CallRow, CallSessionStatus, Located

LEMMA TakenUpOK ==
  ASSUME SharedInv, NEW k \in Calls, NEW r, CallOK(k, r), NEW phone \in {Caller[k], NoOne}
  PROVE  CallOK(k, TakenUp(r, phone))
<1>1. phone \in Callers \cup {NoOne} BY CallerAssumption
<1>2. Lookup(phone) # Nowhere => Lookup(phone) \in Spots /\ Owner[Lookup(phone)] = Caller[k]
  BY <1>1, LookupOwned, CallersAssumption
<1> QED BY <1>2, LocatedOK DEF TakenUp

LEMMA CallNextStep ==
  ASSUME SharedInv, CallsInv, CallNext
  PROVE  SharedInv' /\ CallsInv'
<1>1. PICK k \in Calls :
        \/ StartCall(k) \/ SubmitGps(k) \/ SubmitManual(k) \/ CheckSession(k)
        \/ MatchMechanics(k) \/ SaveDriverInfo(k) \/ CheckDriverLocation(k)
  BY DEF CallNext
<1>2. acs[k] \in CallRow /\ CallOK(k, acs[k])
  BY DEF CallsInv, CallTypeOK, CallIsLocated, CallOK, CallRow
<1>3. (UNCHANGED shared => SharedInv') /\ (UNCHANGED acs => CallsInv')
  BY DEF SharedInv, SharedTypeOK, CallsInv, CallTypeOK, CallIsLocated, CallSessionStatus
<1>4. CASE StartCall(k)
  BY <1>3, <1>4, RefreshedOK, CallStep DEF StartCall
<1>5. CASE SubmitGps(k)
  BY <1>2, <1>3, <1>5, LocatedOK, CallStep DEF SubmitGps, OwnSpots
<1>6. CASE SubmitManual(k)
  <2>1. CASE \E spot \in OwnSpots(Caller[k]) : acs' = [acs EXCEPT ![k] = Located(acs[k], spot)]
    BY <1>2, <1>3, <1>6, <2>1, LocatedOK, CallStep DEF SubmitManual, OwnSpots
  <2>2. CASE acs' = [acs EXCEPT ![k].status = "waiting_for_location"]
    <3> DEFINE r == [acs[k] EXCEPT !.status = "waiting_for_location"]
    <3>1. CallOK(k, r) BY <1>2 DEF CallOK, CallRow, CallSessionStatus
    <3>2. acs' = [acs EXCEPT ![k] = r] BY <2>2
    <3> QED BY <1>3, <1>6, <3>1, <3>2, CallStep DEF SubmitManual
  <2> QED BY <1>6, <2>1, <2>2 DEF SubmitManual
<1>7. CASE CheckSession(k)
  BY <1>3, <1>7, LookedUpOK, CallStep DEF CheckSession
<1>8. CASE MatchMechanics(k)
  <2>1. PICK status \in {"matched", "failed"} : acs' = [acs EXCEPT ![k].status = status]
    BY <1>8 DEF MatchMechanics
  <2> DEFINE r == [acs[k] EXCEPT !.status = status]
  <2>2. CallOK(k, r) BY <1>2, <1>8 DEF MatchMechanics, CallOK, CallRow, CallSessionStatus
  <2>3. acs' = [acs EXCEPT ![k] = r] BY <2>1
  <2> QED BY <1>3, <1>8, <2>2, <2>3, CallStep DEF MatchMechanics
<1>9. CASE SaveDriverInfo(k)
  <2>1. PICK phone \in PhoneOf(k) :
          /\ \/ acs' = [acs EXCEPT ![k] = TakenUp(Refreshed(k, phone), phone)]
             \/ UNCHANGED acs
          /\ shared' = Consume(phone)
    BY <1>9 DEF SaveDriverInfo
  <2>2. CallOK(k, TakenUp(Refreshed(k, phone), phone))
    BY RefreshedOK, TakenUpOK DEF PhoneOf
  <2> QED BY <1>3, <2>1, <2>2, CallStep, ConsumeOwned
<1>10. CASE CheckDriverLocation(k)
  <2>1. PICK phone \in PhoneOf(k) :
          LET asked == IF phone # NoOne THEN phone ELSE acs[k].phone
          IN /\ \/ acs' = [acs EXCEPT ![k] = TakenUp(LookedUp(k), asked)]
                \/ UNCHANGED acs
             /\ shared' = Consume(asked)
    BY <1>10 DEF CheckDriverLocation
  <2> DEFINE asked == IF phone # NoOne THEN phone ELSE acs[k].phone
  <2>2. asked \in {Caller[k], NoOne} BY <1>2 DEF PhoneOf, CallOK
  <2>3. CallOK(k, TakenUp(LookedUp(k), asked))
    <3> HIDE DEF asked
    <3> QED BY <2>2, LookedUpOK, TakenUpOK
  <2> QED BY <1>3, <2>1, <2>3, CallStep, ConsumeOwned
<1> QED BY <1>1, <1>4, <1>5, <1>6, <1>7, <1>8, <1>9, <1>10

LEMMA CallsAgedStep ==
  ASSUME CallsInv, acs' = CallsAged
  PROVE  CallsInv'
BY CallLifeAssumption DEF CallsInv, CallTypeOK, CallIsLocated, CallsAged, CallSessionStatus

(***************************************************************************)
(* Every step keeps the invariant, and the invariant is what is promised.  *)
(***************************************************************************)
LEMMA NextInv == IInv /\ [Next]_vars => IInv'
<1> SUFFICES ASSUME IInv, [Next]_vars PROVE IInv'
  OBVIOUS
<1> USE DEF IInv
<1>1. (UNCHANGED shared => SharedInv') /\ (UNCHANGED acs => CallsInv') /\ (UNCHANGED row => SessionsInv')
  <2>1. UNCHANGED shared => SharedInv' BY DEF SharedInv, SharedTypeOK
  <2>2. UNCHANGED acs => CallsInv' BY DEF CallsInv, CallTypeOK, CallIsLocated, CallSessionStatus
  <2>3. UNCHANGED row => SessionsInv'
    BY DEF SessionsInv, CodesUnique, Known, Namesakes, CodesOf, OwnedRow, RowInv, Parties, Row, OldAge
  <2> QED BY <2>1, <2>2, <2>3
<1>2. ASSUME NEW c \in Callers, VoiceCall(c), UNCHANGED acs PROVE IInv'
  BY <1>1, <1>2, VoiceRequestOf, CreateSessionStep DEF VoiceCall
<1>3. ASSUME NEW c \in Callers, BrowserShare(c), UNCHANGED acs PROVE IInv'
  <2>1. PICK q \in BrowserRequests(c) :
          /\ CreateSession(q)
          /\ shared' = IF q.map THEN Store(q.phone, q.spot) ELSE shared
    BY <1>3 DEF BrowserShare
  <2>2. q.phone \in {c, NoOne} /\ q.spot \in OwnSpots(c) BY DEF BrowserRequests
  <2>3. SharedInv' BY <1>1, <2>1, <2>2, StoreOwned
  <2>4. SessionsInv' BY <2>1, BrowserRequestOf, CreateSessionStep
  <2> QED BY <1>1, <1>3, <2>3, <2>4
<1>4. ASSUME NEW c \in Callers, GoDispatch(c), UNCHANGED acs PROVE IInv'
  BY <1>1, <1>4, GoDispatchStep DEF GoDispatch
<1>5. ASSUME NEW c \in Callers, NEW s \in Sessions, UNCHANGED acs,
             UpdateLocation(c, s) \/ LinkCaseCode(c, s) \/ LocationByCode(c, s)
      PROVE IInv'
  <2>1. UNCHANGED shared BY <1>5 DEF UpdateLocation, LinkCaseCode, LocationByCode
  <2>2. SessionsInv' BY <1>5, UpdateLocationStep, LinkCaseCodeStep, LocationByCodeStep
  <2> QED BY <1>1, <1>5, <2>1, <2>2
<1>6. ASSUME NEW s \in Sessions, StatusResponse(s) \/ LiveKitMatch(s), UNCHANGED acs PROVE IInv'
  <2>1. UNCHANGED shared BY <1>6 DEF StatusResponse, LiveKitMatch
  <2>2. SessionsInv' BY <1>6, StatusResponseStep, LiveKitMatchStep
  <2> QED BY <1>1, <1>6, <2>1, <2>2
<1>7. CASE CallNext /\ UNCHANGED row
  BY <1>1, <1>7, CallNextStep
<1>8. CASE Tick
  BY <1>8, AgedStep, CallsAgedStep, ExpireOwned DEF Tick
<1>9. CASE UNCHANGED vars
  BY <1>1, <1>9 DEF vars
<1> QED BY <1>2, <1>3, <1>4, <1>5, <1>6, <1>7, <1>8, <1>9 DEF Next, DispatchNext

LEMMA InvIsProved ==
  IInv => /\ TypeOK /\ StatusFollowsLocation /\ MatchedIsBacked
          /\ OneCallerPerSession /\ CallIsLocated
BY DEF IInv, SessionsInv, OwnedRow, RowInv, SharedInv, CallsInv, TypeOK, DispatchTypeOK,
       StatusFollowsLocation, MatchedIsBacked, OneCallerPerSession

LEMMA Invariance == Spec => []IInv
BY InitInv, NextInv, PTL DEF Spec

\* Rows, shares and calls keep their types, and no transaction leaves a status
\* that only lasts within it.
THEOREM SessionsTyped == Spec => []TypeOK
BY Invariance, InvIsProved, PTL

\* A dispatch session waits for a location only while it has none.
THEOREM StatusesFollowLocations == Spec => []StatusFollowsLocation
BY Invariance, InvIsProved, PTL

\* What a session says of its search is what the latest result says.
THEOREM MatchesAreBacked == Spec => []MatchedIsBacked
BY Invariance, InvIsProved, PTL

\* Two drivers meet in a session only through the map fallback or through a code
\* typed without its prefix.
THEOREM SessionsAreOwned == Spec => []OneCallerPerSession
BY Invariance, InvIsProved, PTL

\* A located or matched call has coordinates, its own caller's.
THEOREM CallsAreLocated == Spec => []CallIsLocated
BY Invariance, InvIsProved, PTL
=============================================================================
