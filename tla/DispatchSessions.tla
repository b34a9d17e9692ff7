-------------------------- MODULE DispatchSessions --------------------------
(***************************************************************************)
(* The dispatch sessions of several drivers: a session is found again by   *)
(* its call, by its driver's phone or, for a voice call that has no        *)
(* location, by being the latest one shared on the map; a location comes   *)
(* with the request, from a link or a code, or from the shared locations.  *)
(*                                                                         *)
(* Ages count ticks and stop at the first value that is older than every   *)
(* window they are compared with.                                          *)
(***************************************************************************)
EXTENDS SharedLocations

CONSTANTS
  Sessions,     \* the rows of dispatch_sessions (a bound)
  Codes,        \* the session codes that can be issued (a bound)
  NoCode,       \* the code of a row that is not there yet
  OldCodes,     \* the codes each driver was told of earlier sessions
  NoCall,       \* retell_call_id is NULL
  MapWindow,    \* ticks a map session can be attached to a call (10 minutes)
  CodeLife,     \* ticks a session code is accepted (15 minutes)
  PhoneWindow,  \* ticks a session is found again by phone (30 minutes)
  LinkLife      \* ticks a location link is accepted

ASSUME CallsAssumption == NoCall \notin Calls
ASSUME WindowsAssumption ==
  /\ MapWindow \in Nat /\ CodeLife \in Nat /\ PhoneWindow \in Nat
  /\ LinkLife \in Nat

\* RD stands for every issued prefix but RC.
ASSUME CodesAssumption ==
  /\ Codes \subseteq [prefix : {"RC", "RD"}, number : Nat] /\ NoCode \notin Codes
  /\ OldCodes \in [Callers -> SUBSET Codes]

VARIABLE row    \* dispatch_sessions, each with what its other tables say of it

dispatchVars == <<row, shared>>

\* The statuses that no handler of a session sets are left out.
DispatchSessionStatus ==
  {"absent", "intake", "awaiting_location", "matching", "matched", "manual_review"}

MatchStatus == {"none", "matched", "manual_dispatch_required", "needs_more_info"}

OldAge == IF CodeLife < PhoneWindow THEN PhoneWindow + 1 ELSE CodeLife + 1

Row == [
  status : DispatchSessionStatus,
  code : Codes \cup {NoCode},      \* public_code
  age : 0 .. OldAge,              \* since created_at
  idle : 0 .. MapWindow + 1,      \* since updated_at
  fix : 0 .. MapWindow + 1,       \* since location_captured_at
  map : BOOLEAN,                  \* source is "map_phone_button"
  call : Calls \cup {NoCall},
  phone : Callers \cup {NoOne},
  spot : Spots \cup {Nowhere},    \* lat and lng
  area : BOOLEAN,                 \* city and state are known
  problem : BOOLEAN,              \* problem and vehicle are known
  match : MatchStatus,            \* the latest of dispatch_match_results
  adopted : BOOLEAN,              \* an event with map_fallback_attached
  told : SUBSET Callers,          \* who was given the session's code
  links : [Callers -> 0 .. LinkLife]] \* ticks left of each driver's newest link

Absent == [
  status |-> "absent", code |-> NoCode, age |-> 0, idle |-> 0, fix |-> 0, map |-> FALSE,
  call |-> NoCall, phone |-> NoOne, spot |-> Nowhere, area |-> FALSE,
  problem |-> FALSE, match |-> "none", adopted |-> FALSE, told |-> {},
  links |-> [c \in Callers |-> 0]]

DispatchTypeOK == row \in [Sessions -> Row] /\ SharedTypeOK

DispatchInit == row = [s \in Sessions |-> Absent] /\ SharedInit

Known == {s \in Sessions : row[s].status # "absent"}

(***************************************************************************)
(* What a request carries, and the session it finds.                       *)
(***************************************************************************)

\* The voice agent knows the call or the phone or neither, and what the driver
\* has said so far, but no coordinates.
VoiceRequests(c) == [
  by : {c}, voice : {TRUE}, map : {FALSE}, spot : {Nowhere},
  call : {k \in Calls : Caller[k] = c} \cup {NoCall}, phone : {c, NoOne},
  area : BOOLEAN, problem : BOOLEAN]

\* The browser knows the coordinates: the map's phone button, or a web call.
BrowserRequests(c) == [
  by : {c}, voice : {FALSE}, map : BOOLEAN, spot : OwnSpots(c),
  call : {NoCall}, phone : {c, NoOne}, area : {TRUE}, problem : {FALSE}]

Newest(S) == {s \in S : \A t \in S : row[s].age <= row[t].age}

\* Mutant: without a phone number any recent session without one will do.
FoundByNoPhone(q) ==
  Newest({s \in Known :
            \/ q.call # NoCall /\ row[s].call = q.call
            \/ row[s].phone = q.phone /\ row[s].age <= PhoneWindow})

\* Several sessions remain only when they were created within one tick.
Found(q) ==
  Newest({s \in Known :
            \/ q.call # NoCall /\ row[s].call = q.call
            \/ q.phone # NoOne /\ row[s].phone = q.phone /\ row[s].age <= PhoneWindow})

MapShared ==
  LET Recent == {s \in Known :
                   /\ row[s].map /\ row[s].spot # Nowhere /\ row[s].call = NoCall
                   /\ row[s].idle <= MapWindow}
  IN {s \in Recent : \A t \in Recent : row[s].fix <= row[t].fix}

\* A voice call that has no located session is given the latest map session,
\* whoever shared it.
FallsBack(q) ==
  /\ q.voice
  /\ MapShared # {}
  /\ Found(q) = {} \/ \E s \in Found(q) : row[s].spot = Nowhere

Adopts(q, s) == FallsBack(q) /\ s \in MapShared

Reuses(q, s) == s \in Found(q) /\ ~(q.voice /\ MapShared # {} /\ row[s].spot = Nowhere)

Opens(q, s) == Found(q) = {} /\ ~FallsBack(q) /\ s \in Sessions \ Known

(***************************************************************************)
(* The pieces the handlers share.                                          *)
(***************************************************************************)
\* A code is unique among all sessions, those of the past included.
Unused ==
  (Codes \ UNION {OldCodes[c] : c \in Callers}) \ {row[s].code : s \in Known}

Fresh(code) == [Absent EXCEPT !.status = "awaiting_location", !.code = code]

\* The row a request works on.
Row0(s) == IF s \in Known THEN {row[s]} ELSE {Fresh(code) : code \in Unused}

\* Mutant: a session that waits for its location counts as located once a
\* request has been taken in.
IntakeUnlocated(r, q) ==
  [r EXCEPT !.map = q.map, !.area = @ \/ q.area, !.problem = @ \/ q.problem,
            !.call = IF q.call # NoCall THEN q.call ELSE @,
            !.phone = IF q.phone # NoOne THEN q.phone ELSE @,
            !.status = IF @ = "awaiting_location" THEN "matching" ELSE @]

Intake(r, q) ==
  LET Kept == [r EXCEPT !.map = q.map, !.area = @ \/ q.area, !.problem = @ \/ q.problem,
                        !.call = IF q.call # NoCall THEN q.call ELSE @,
                        !.phone = IF q.phone # NoOne THEN q.phone ELSE @]
      Placed == IF q.spot # Nowhere THEN [Kept EXCEPT !.spot = q.spot, !.fix = 0] ELSE Kept
  IN IF Placed.spot # Nowhere /\ Placed.status = "awaiting_location"
     THEN [Placed EXCEPT !.status = "matching"] ELSE Placed

\* The location shared under the phone replaces the session's, even a newer one.
ApplyShared(r, spot) ==
  IF spot = Nowhere THEN r
  ELSE [r EXCEPT !.spot = spot, !.fix = 0, !.status = "matching"]

\* Older links stay valid: nothing revokes them.
IssueLink(r, c) ==
  [r EXCEPT !.told = @ \cup {c}, !.links[c] = LinkLife, !.idle = 0]

Ready(r) == r.problem /\ (r.spot # Nowhere \/ r.area)

Results == {"matched", "manual_dispatch_required"}

(***************************************************************************)
(* The handlers.                                                           *)
(***************************************************************************)
CreateSession(q) ==
  \E s \in Sessions :
    /\ Adopts(q, s) \/ Reuses(q, s) \/ Opens(q, s)
    /\ \E r \in Row0(s) :
         LET a == [r EXCEPT !.adopted = @ \/ Adopts(q, s)]
         IN row' = [row EXCEPT ![s] =
                      IssueLink(ApplyShared(Intake(a, q), Lookup(q.phone)), q.by)]

\* The voice agent's active-call-context, session/create and create-session.
VoiceCall(c) ==
  /\ \E q \in VoiceRequests(c) : CreateSession(q)
  /\ UNCHANGED shared

\* The map's phone button stores the location only after the session has been
\* given the one stored before.
BrowserShare(c) ==
  \E q \in BrowserRequests(c) :
    /\ CreateSession(q)
    /\ shared' = IF q.map THEN Store(q.phone, q.spot) ELSE shared

\* Mutant: a search that found nobody counts as matched.
RelocatedMatched(r, spot, problem, result) ==
  LET At == [r EXCEPT !.spot = spot, !.area = TRUE, !.problem = @ \/ problem,
                      !.fix = 0, !.idle = 0, !.status = "matching"]
  IN IF Ready(At) THEN [At EXCEPT !.match = result, !.status = "matched"]
     ELSE [At EXCEPT !.status = "intake"]

\* update_location, the match it runs and the status it answers with.
Relocated(r, spot, problem, result) ==
  LET At == [r EXCEPT !.spot = spot, !.area = TRUE, !.problem = @ \/ problem,
                      !.fix = 0, !.idle = 0, !.status = "matching"]
  IN IF ~Ready(At) THEN [At EXCEPT !.status = "intake"]
     ELSE [At EXCEPT !.match = result,
                     !.status = IF result = "matched" THEN "matched" ELSE @]

UpdateLocation(c, s) ==
  /\ row[s].links[c] > 0
  /\ \E spot \in OwnSpots(c), problem \in BOOLEAN, result \in Results :
       row' = [row EXCEPT ![s] = Relocated(@, spot, problem, result)]
  /\ UNCHANGED shared

CodesOf(c) == OldCodes[c] \cup {row[s].code : s \in {t \in Sessions : c \in row[t].told}}

\* A code is typed in full or, of whatever prefix it is, by its four digits,
\* which are read as those of an RC code.
normalize_public_code(code) == {code, [code EXCEPT !.prefix = "RC"]}

\* The last four digits of the caller's phone are compared only if both sides
\* have them, and nobody has to send them.
CodeAccepted(c, s) ==
  /\ s \in Known
  /\ \E code \in CodesOf(c) : row[s].code \in normalize_public_code(code)
  /\ row[s].age <= CodeLife

LinkCaseCode(c, s) ==
  /\ CodeAccepted(c, s)
  /\ row' = [row EXCEPT ![s] = IssueLink(@, c)]
  /\ UNCHANGED shared

LocationByCode(c, s) ==
  /\ CodeAccepted(c, s)
  /\ \E spot \in OwnSpots(c), problem \in BOOLEAN, result \in Results :
       row' = [row EXCEPT ![s] = Relocated(IssueLink(@, c), spot, problem, result)]
  /\ UNCHANGED shared

\* A status request runs the match when there is none and nothing is missing.
StatusResponse(s) ==
  /\ s \in Known /\ row[s].match = "none" /\ Ready(row[s])
  /\ \E result \in Results :
       LET status == IF result = "matched" THEN "matched" ELSE "manual_review"
       IN row' = [row EXCEPT ![s] = [@ EXCEPT !.match = result, !.status = status,
                                     !.idle = IF row[s].status = status THEN row[s].idle ELSE 0]]
  /\ UNCHANGED shared

\* The LiveKit agent's search keeps the driver's answers, not its result.
LiveKitMatch(s) ==
  /\ s \in Known /\ row[s].spot # Nowhere
  /\ row' = [row EXCEPT ![s].problem = TRUE,
                        ![s].idle = IF row[s].problem THEN @ ELSE 0]
  /\ UNCHANGED shared

\* The go page's dispatch writes its own result and its own coordinates, also
\* when it has none.
GoRequests(c) == [
  by : {c}, voice : {FALSE}, map : {FALSE}, spot : OwnSpots(c) \cup {Nowhere},
  call : {NoCall}, phone : {c}, area : BOOLEAN, problem : BOOLEAN]

Gone(r, q, result) ==
  [Intake(r, q) EXCEPT !.spot = q.spot, !.match = result, !.idle = 0,
                       !.status = IF result = "matched" THEN "matched" ELSE "intake"]

GoDispatch(c) ==
  /\ \E q \in GoRequests(c), result \in MatchStatus \ {"none"}, s \in Sessions :
       /\ Reuses(q, s) \/ Opens(q, s)
       /\ \E r \in Row0(s) : row' = [row EXCEPT ![s] = Gone(r, q, result)]
  /\ UNCHANGED shared

Older(n, limit) == IF n < limit THEN n + 1 ELSE n

Aged(r) ==
  IF r.status = "absent" THEN r
  ELSE [r EXCEPT !.age = Older(@, OldAge), !.idle = Older(@, MapWindow + 1),
                 !.fix = Older(@, MapWindow + 1),
                 !.links = [c \in Callers |-> IF @[c] > 0 THEN @[c] - 1 ELSE 0]]

DispatchNext ==
  \/ \E c \in Callers : VoiceCall(c) \/ BrowserShare(c) \/ GoDispatch(c)
  \/ \E c \in Callers, s \in Sessions :
       UpdateLocation(c, s) \/ LinkCaseCode(c, s) \/ LocationByCode(c, s)
  \/ \E s \in Sessions : StatusResponse(s) \/ LiveKitMatch(s)


-----------------------------------------------------------------------------

\* A session waits for a location only while it has none, and says that it is
\* being matched only with one, whichever of the four sources it came from and
\* whatever the go page erased in between.
StatusFollowsLocation ==
  \A s \in Sessions :
    /\ row[s].status = "awaiting_location" => row[s].spot = Nowhere
    /\ row[s].status = "matching" => row[s].spot # Nowhere

\* The caller is told that a mechanic was found, or that somebody will look
\* into it, only on the latest recorded result of a search.
MatchedIsBacked ==
  \A s \in Sessions :
    /\ row[s].status = "matched" => row[s].match = "matched"
    /\ row[s].status = "manual_review" => row[s].match = "manual_dispatch_required"

\* Everybody a session knows of, belongs to or has been handed to.
Parties(r) ==
  r.told \cup ({r.phone} \ {NoOne})
    \cup (IF r.spot = Nowhere THEN {} ELSE {Owner[r.spot]})
    \cup (IF r.call = NoCall THEN {} ELSE {Caller[r.call]})

\* Those whose own code, that of another session, has the digits of this RC code.
Namesakes(s) ==
  {c \in Callers : \E code \in CodesOf(c) :
     code # row[s].code /\ row[s].code \in normalize_public_code(code)}

\* Two drivers meet in a session in two ways only, in whatever order calls,
\* shares, links and codes come: the map fallback put a voice call on the latest
\* map session, or a driver's own code, typed without its prefix, is the
\* session's. Nobody else is given another's session, code, link or location.
OneCallerPerSession ==
  \A s \in Sessions :
    row[s].adopted \/ \E c \in Callers : Parties(row[s]) \subseteq {c} \cup Namesakes(s)
=============================================================================
