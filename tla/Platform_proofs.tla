-------------------------- MODULE Platform_proofs ---------------------------
(***************************************************************************)
(* Proofs about the platform's dealings with MangaDex and with the         *)
(* extensions' repositories, part by part: the client's gate and its       *)
(* shared authentication (MdClient.tla), the titles of a series            *)
(* (Titles.tla), a repository beside its bundles and its map               *)
(* (Publishing.tla), the restarting of services (Restart.tla), the cards   *)
(* that staff order (Desk.tla), the feed of failures (Feed.tla), and a     *)
(* listing walked page by page (Paging.tla).                               *)
(***************************************************************************)
EXTENDS MdClient, Titles, Publishing, Restart, Console, FiniteSetTheorems,
        WellFoundedInduction, TLAPS

(***************************************************************************)
(* The client, for any number of concurrent callers and any pace, pause    *)
(* and number of attempts.                                                 *)
(***************************************************************************)
CallType == [at : {"idle", "auth", "join", "resume", "line", "sleep", "air", "back"},
             what : {"call", "refresh", "password"}, attempt : 0..Tries, forced : BOOLEAN,
             bearer : {"good", "stale", "spent"}, left : Nat]

Longest == Greater(Pause, Greater(Floor, Pace))

ClientTypes ==
  /\ gate \in 0..Longest /\ paced \in {0, Pace}
  /\ token \in {"good", "stale", "spent"} /\ refresh \in {"good", "stale", "spent"}
  /\ caller \in [Callers -> CallType] /\ line \in Seq(Callers)

(* Who is in the line waits there once.                                     *)
Lined == {"line", "sleep"}
InLine ==
  /\ \A c \in Callers : caller[c].at \in Lined <=> \E i \in DOMAIN line : line[i] = c
  /\ \A i, j \in DOMAIN line : line[i] = line[j] => i = j

(* A flight is under way: in the line, or in the air.                       *)
Flights ==
  /\ OneFlight
  /\ \A c \in Callers : Flight(c) => caller[c].at \in Lined \cup {"air"}
  /\ \A c \in Callers : caller[c].at = "join" => \E f \in Callers : Flight(f)

(* What is left of the gate makes up what is missing since a request left,  *)
(* and so does the sleep of the one that has read it, who is the next.      *)
GateHolds ==
  /\ since \in 0..Floor /\ since + gate >= Floor
  /\ \A c \in Callers : caller[c].at = "sleep" =>
       line # <<>> /\ c = Head(line) /\ since + caller[c].left >= Floor

ClientInv == ClientTypes /\ InLine /\ Flights /\ GateHolds

(* Arithmetic of the gate.                                                  *)
LEMMA Spans ==
  /\ Floor \in Nat \ {0} /\ Pace \in Nat \ {0} /\ Pause \in Nat \ {0} /\ Backoff \in Nat \ {0} /\ Tries \in Nat \ {0}
  /\ Longest \in Nat /\ Longest >= Pause /\ Longest >= Floor /\ Longest >= Pace
BY MdClientAssumption DEF Longest, Greater

LEMMA GreaterIs ==
  ASSUME NEW m \in Nat, NEW n \in Nat
  PROVE  Greater(m, n) \in {m, n} /\ Greater(m, n) >= m /\ Greater(m, n) >= n
BY DEF Greater

LEMMA LongerGate ==
  ASSUME NEW s \in 0..Floor, NEW g \in Nat, NEW h \in Nat, s + g >= Floor, h >= g
  PROVE  s + h >= Floor
BY Spans

(* The next attempt is a request of its own, and no flight.                 *)
LEMMA AgainIs ==
  ASSUME NEW q \in CallType, NEW backoff \in BOOLEAN
  PROVE  /\ Again(q, backoff) \in CallType
         /\ Again(q, backoff).at \in {"idle", "auth", "back"} /\ Again(q, backoff).what = "call"
<1>1. NoRequest \in CallType /\ NoRequest.at = "idle" /\ NoRequest.what = "call"
  BY Spans DEF NoRequest, CallType
<1>2. ASSUME q.attempt # Tries
      PROVE  Again(q, backoff) = [at |-> IF backoff THEN "back" ELSE "auth", what |-> "call", attempt |-> q.attempt + 1,
                                  forced |-> FALSE, bearer |-> "spent", left |-> IF backoff THEN Backoff ELSE 0]
  BY <1>2 DEF Again, NoRequest
<1>3. q.attempt # Tries => q.attempt + 1 \in 0..Tries
  BY Spans DEF CallType
<1>4. CASE q.attempt = Tries
  BY <1>1, <1>4 DEF Again
<1>5. CASE q.attempt # Tries
  <2>1. PICK at \in {"auth", "back"}, left \in Nat :
          Again(q, backoff) = [at |-> at, what |-> "call", attempt |-> q.attempt + 1, forced |-> FALSE,
                               bearer |-> "spent", left |-> left]
    <3>1. CASE backoff
      BY <3>1, <1>2, <1>5, Spans
    <3>2. CASE ~backoff
      BY <3>2, <1>2, <1>5, Spans
    <3> QED BY <3>1, <3>2
  <2> QED BY <2>1, <1>3, <1>5 DEF CallType
<1> QED BY <1>4, <1>5

LEMMA NoRequestIs == NoRequest \in CallType /\ NoRequest.at = "idle" /\ NoRequest.what = "call"
BY Spans DEF NoRequest, CallType

(* What the headers say makes the gate no shorter.                          *)
LEMMA HeardIs ==
  ASSUME ClientTypes, NEW headers \in Headers, NEW limited \in BOOLEAN, Heard(headers, limited)
  PROVE  gate' \in 0..Longest /\ gate' >= gate /\ paced' \in {0, Pace}
<1> USE DEF ClientTypes, Heard
<1>1. gate' \in 0..Longest /\ gate' >= gate
  <2> gate \in Nat /\ gate <= Longest
    BY Spans
  <2> QED BY Spans, GreaterIs
<1>2. paced' \in {0, Pace}
  OBVIOUS
<1> QED BY <1>1, <1>2

(* One caller goes on, outside of the line or within it.                    *)
LEMMA CallerMoves ==
  ASSUME ClientInv, NEW c \in Callers, NEW q \in CallType,
         caller' = [caller EXCEPT ![c] = q], line' = line,
         q.at \in Lined <=> caller[c].at \in Lined,
         Flight(c) <=> q.what # "call",
         Flight(c) => q.at \in Lined \cup {"air"},
         q.at = "join" => \E f \in Callers : Flight(f)
  PROVE  caller' \in [Callers -> CallType] /\ InLine' /\ Flights'
<1> USE DEF ClientInv, ClientTypes
<1>1. caller' \in [Callers -> CallType] /\ caller'[c] = q /\ \A r \in Callers \ {c} : caller'[r] = caller[r]
  OBVIOUS
<1>2. InLine'
  <2>1. \A r \in Callers : caller'[r].at \in Lined <=> caller[r].at \in Lined
    BY <1>1
  <2> QED BY <2>1 DEF InLine, Lined
<1>3. Flights'
  <2>1. \A r \in Callers : Flight(r)' <=> Flight(r)
    BY <1>1 DEF Flight
  <2>2. OneFlight' /\ \A r \in Callers : Flight(r)' => caller'[r].at \in Lined \cup {"air"}
    BY <1>1, <2>1 DEF Flights, OneFlight, Lined
  <2>3. \A r \in Callers : caller'[r].at = "join" => \E f \in Callers : Flight(f)'
    BY <1>1, <2>1 DEF Flights
  <2> QED BY <2>2, <2>3 DEF Flights
<1> QED BY <1>1, <1>2, <1>3

(* All callers stay where they are, as time passes or a session is dropped. *)
LEMMA CallersStay ==
  ASSUME ClientInv, line' = line,
         \A r \in Callers : caller'[r].at = caller[r].at /\ caller'[r].what = caller[r].what
  PROVE  InLine' /\ Flights'
<1>1. InLine'
  BY DEF ClientInv, InLine, Lined
<1>2. \A r \in Callers : Flight(r)' <=> Flight(r)
  BY DEF Flight
<1>3. Flights'
  BY <1>2 DEF ClientInv, Flights, OneFlight, Lined
<1> QED BY <1>1, <1>3

(* Nobody falls asleep, nobody gets to the head of the line, and the gate   *)
(* gets no shorter.                                                         *)
LEMMA GateStays ==
  ASSUME ClientInv, since' = since, gate' \in Nat, gate' >= gate,
         line # <<>> => line' # <<>> /\ Head(line') = Head(line),
         \A r \in Callers : caller'[r].at = "sleep" => caller[r].at = "sleep" /\ caller'[r].left = caller[r].left
  PROVE  GateHolds'
<1>1. since' \in 0..Floor /\ since' + gate' >= Floor
  <2>1. since \in 0..Floor /\ gate \in Nat /\ since + gate >= Floor
    BY Spans DEF ClientInv, ClientTypes, GateHolds
  <2>2. since + gate' >= Floor
    BY <2>1, LongerGate
  <2>3. since' \in 0..Floor
    BY <2>1
  <2>4. since' + gate' >= Floor
    BY <2>2
  <2> QED BY <2>3, <2>4
<1>2. ASSUME NEW r \in Callers, caller'[r].at = "sleep"
      PROVE  line' # <<>> /\ r = Head(line') /\ since' + caller'[r].left >= Floor
  BY <1>2 DEF ClientInv, GateHolds
<1> QED BY <1>1, <1>2 DEF GateHolds

(* A caller joins the line: with its request, or with the grant of the one  *)
(* flight there is.                                                         *)
LEMMA Entered ==
  ASSUME ClientInv, NEW c \in Callers, NEW what \in {"call", "refresh", "password"},
         NEW bearer \in {"good", "stale", "spent"}, Enter(c, what, bearer),
         caller[c].at \notin Lined, Flight(c) => what # "call",
         what # "call" => \A r \in Callers : Flight(r) => r = c
  PROVE  /\ caller' \in [Callers -> CallType] /\ line' \in Seq(Callers) /\ InLine' /\ Flights'
         /\ line # <<>> => line' # <<>> /\ Head(line') = Head(line)
         /\ \A r \in Callers : caller'[r].at = "sleep" => caller[r].at = "sleep" /\ caller'[r].left = caller[r].left
<1> USE DEF ClientInv, ClientTypes
<1>a. PICK q : q = [caller[c] EXCEPT !.at = "line", !.what = what, !.bearer = bearer]
  OBVIOUS
<1>b. q \in CallType /\ q.at = "line" /\ q.what = what
  BY <1>a DEF CallType
<1>c. caller' = [caller EXCEPT ![c] = q]
  BY <1>a DEF Enter
<1>1. caller' \in [Callers -> CallType] /\ caller'[c] = q /\ \A r \in Callers \ {c} : caller'[r] = caller[r]
  BY <1>b, <1>c
<1>2. line' = Append(line, c) /\ line' \in Seq(Callers) /\ Len(line') = Len(line) + 1 /\ line'[Len(line) + 1] = c
      /\ \A i \in 1..Len(line) : line'[i] = line[i]
  BY DEF Enter
<1>3. line # <<>> => line' # <<>> /\ Head(line') = Head(line)
  BY <1>2
<1>4. InLine'
  <2>0. DOMAIN line = 1..Len(line) /\ DOMAIN line' = 1..(Len(line) + 1) /\ Len(line) \in Nat
    BY <1>2
  <2>1. ~\E i \in DOMAIN line : line[i] = c
    BY DEF InLine
  <2>2. ASSUME NEW r \in Callers PROVE caller'[r].at \in Lined <=> \E i \in DOMAIN line' : line'[i] = r
    <3>1. CASE r = c
      <4>1. caller'[r].at \in Lined
        BY <3>1, <1>1, <1>b DEF Lined
      <4>2. Len(line) + 1 \in DOMAIN line' /\ line'[Len(line) + 1] = r
        BY <3>1, <1>2, <2>0
      <4> QED BY <4>1, <4>2
    <3>2. CASE r # c
      <4>1. caller'[r].at \in Lined <=> \E i \in DOMAIN line : line[i] = r
        BY <3>2, <1>1 DEF InLine
      <4>2. (\E i \in DOMAIN line : line[i] = r) <=> \E i \in DOMAIN line' : line'[i] = r
        BY <3>2, <1>2, <2>0
      <4> QED BY <4>1, <4>2
    <3> QED BY <3>1, <3>2
  <2>3. \A i, j \in DOMAIN line' : line'[i] = line'[j] => i = j
    BY <1>2, <2>0, <2>1 DEF InLine
  <2> QED BY <2>2, <2>3 DEF InLine
<1>5. Flights'
  <2>1. \A r \in Callers : Flight(r)' <=> IF r = c THEN what # "call" ELSE Flight(r)
    BY <1>1, <1>b DEF Flight
  <2>2. OneFlight'
    BY <2>1 DEF Flights, OneFlight
  <2>3. \A r \in Callers : Flight(r)' => caller'[r].at \in Lined \cup {"air"}
    BY <1>1, <1>b, <2>1 DEF Flights, Lined
  <2>4. ASSUME NEW r \in Callers, caller'[r].at = "join" PROVE \E f \in Callers : Flight(f)'
    <3>1. caller[r].at = "join"
      BY <2>4, <1>1, <1>b
    <3>2. PICK f \in Callers : Flight(f)
      BY <3>1 DEF Flights
    <3>3. Flight(f)'
      BY <3>2, <2>1
    <3> QED BY <3>3
  <2> QED BY <2>2, <2>3, <2>4 DEF Flights
<1>6. ASSUME NEW r \in Callers, caller'[r].at = "sleep" PROVE caller[r].at = "sleep" /\ caller'[r].left = caller[r].left
  BY <1>6, <1>1, <1>b
<1> QED BY <1>1, <1>2, <1>3, <1>4, <1>5, <1>6

LEMMA ClientStarts == MdInit => ClientInv
<1> SUFFICES ASSUME MdInit PROVE ClientInv
  OBVIOUS
<1> USE DEF MdInit
<1>1. \A c \in Callers : caller[c] \in CallType /\ caller[c].at = "idle" /\ caller[c].what = "call"
  BY NoRequestIs
<1>2. ClientTypes
  <2>1. caller \in [Callers -> CallType]
    BY <1>1
  <2>2. line \in Seq(Callers)
    OBVIOUS
  <2> QED BY <2>1, <2>2, Spans DEF ClientTypes
<1>3. InLine
  <2> DOMAIN line = {}
    OBVIOUS
  <2> QED BY <1>1 DEF InLine, Lined
<1>4. Flights
  BY <1>1 DEF Flights, OneFlight, Flight
<1>5. GateHolds
  BY <1>1, Spans DEF GateHolds
<1> QED BY <1>2, <1>3, <1>4, <1>5 DEF ClientInv

(* A caller that is neither in the line nor making a grant goes on.         *)
LEMMA StepsAside ==
  ASSUME ClientInv, NEW c \in Callers, NEW q \in CallType,
         caller' = [caller EXCEPT ![c] = q], line' = line, since' = since,
         gate' \in 0..Longest, gate' >= gate, paced' \in {0, Pace},
         token' = token, refresh' = refresh,
         caller[c].at \notin Lined, ~Flight(c), q.at \notin Lined, q.what = "call",
         q.at = "join" => \E f \in Callers : Flight(f)
  PROVE  ClientInv'
<1>1. caller' \in [Callers -> CallType] /\ InLine' /\ Flights'
  BY CallerMoves
<1>2. ClientTypes'
  BY <1>1 DEF ClientInv, ClientTypes
<1>3. \A r \in Callers : caller'[r].at = "sleep" => caller[r].at = "sleep" /\ caller'[r].left = caller[r].left
  BY DEF ClientInv, ClientTypes, Lined
<1>4. GateHolds'
  BY <1>3, GateStays, Spans
<1> QED BY <1>1, <1>2, <1>4 DEF ClientInv

(* A caller that joins the line, whatever the headers said to it.           *)
LEMMA JoinsTheLine ==
  ASSUME ClientInv, NEW c \in Callers, NEW what \in {"call", "refresh", "password"},
         NEW bearer \in {"good", "stale", "spent"}, Enter(c, what, bearer),
         caller[c].at \notin Lined, Flight(c) => what # "call",
         what # "call" => \A r \in Callers : Flight(r) => r = c,
         since' = since, gate' \in 0..Longest, gate' >= gate, paced' \in {0, Pace},
         token' = token, refresh' = refresh
  PROVE  ClientInv'
<1>1. /\ caller' \in [Callers -> CallType] /\ line' \in Seq(Callers) /\ InLine' /\ Flights'
      /\ line # <<>> => line' # <<>> /\ Head(line') = Head(line)
      /\ \A r \in Callers : caller'[r].at = "sleep" => caller[r].at = "sleep" /\ caller'[r].left = caller[r].left
  BY Entered
<1>2. ClientTypes'
  BY <1>1 DEF ClientInv, ClientTypes
<1>3. GateHolds'
  BY <1>1, GateStays, Spans
<1> QED BY <1>1, <1>2, <1>3 DEF ClientInv

(* Who is the head of the line, and where the others are when it has gone.  *)
LEMMA GivesWay ==
  ASSUME ClientInv, NEW c \in Callers, MyTurn(c), line' = Tail(line),
         NEW q \in CallType, caller' = [caller EXCEPT ![c] = q], q.at \notin Lined
  PROVE  line' \in Seq(Callers) /\ InLine'
<1> USE DEF ClientInv, ClientTypes, MyTurn
<1>1. caller'[c] = q /\ \A r \in Callers \ {c} : caller'[r] = caller[r]
  OBVIOUS
<1>2. line # <<>> /\ line[1] = c /\ Len(line) \in Nat \ {0} /\ DOMAIN line = 1..Len(line)
  OBVIOUS
<1>3. line' \in Seq(Callers) /\ DOMAIN line' = 1..(Len(line) - 1) /\ \A i \in DOMAIN line' : line'[i] = line[i + 1]
  BY <1>2
<1>4. \A i \in DOMAIN line' : i + 1 \in DOMAIN line /\ i + 1 # 1
  BY <1>2, <1>3
<1>5. ASSUME NEW r \in Callers PROVE caller'[r].at \in Lined <=> \E i \in DOMAIN line' : line'[i] = r
  <2>1. CASE r = c
    <3>1. caller'[r].at \notin Lined
      BY <2>1, <1>1
    <3>2. ~\E i \in DOMAIN line' : line'[i] = r
      BY <2>1, <1>2, <1>3, <1>4 DEF InLine
    <3> QED BY <3>1, <3>2
  <2>2. CASE r # c
    <3>1. caller'[r].at \in Lined <=> \E i \in DOMAIN line : line[i] = r
      BY <2>2, <1>1 DEF InLine
    <3>2. ASSUME NEW i \in DOMAIN line, line[i] = r PROVE \E j \in DOMAIN line' : line'[j] = r
      <4>1. i # 1 /\ i - 1 \in DOMAIN line' /\ (i - 1) + 1 = i
        BY <2>2, <3>2, <1>2, <1>3
      <4>2. line'[i - 1] = line[(i - 1) + 1]
        BY <4>1, <1>3
      <4> QED BY <3>2, <4>1, <4>2
    <3>3. ASSUME NEW i \in DOMAIN line', line'[i] = r PROVE \E j \in DOMAIN line : line[j] = r
      BY <3>3, <1>3, <1>4
    <3> QED BY <3>1, <3>2, <3>3
  <2> QED BY <2>1, <2>2
<1>6. ASSUME NEW i \in DOMAIN line', NEW j \in DOMAIN line', line'[i] = line'[j] PROVE i = j
  <2>1. line[i + 1] = line[j + 1] /\ i + 1 \in DOMAIN line /\ j + 1 \in DOMAIN line
    BY <1>6, <1>3, <1>4
  <2>2. i + 1 = j + 1 /\ i \in Int /\ j \in Int
    BY <2>1, <1>3 DEF InLine
  <2> QED BY <2>2
<1> QED BY <1>3, <1>5, <1>6 DEF InLine

(* The request a caller goes on with.                                       *)
LEMMA GoesTo ==
  ASSUME NEW p \in CallType, NEW at \in {"auth", "join", "air"}, NEW q, q = [p EXCEPT !.at = at]
  PROVE  q \in CallType /\ q.at = at /\ q.what = p.what
BY DEF CallType

LEMMA GoesForced ==
  ASSUME NEW p \in CallType, NEW q, q = [p EXCEPT !.at = "auth", !.forced = TRUE]
  PROVE  q \in CallType /\ q.at = "auth" /\ q.what = p.what
BY DEF CallType

LEMMA FirstAttempt ==
  \E q \in CallType : q = [NoRequest EXCEPT !.at = "auth", !.attempt = 1] /\ q.at = "auth" /\ q.what = "call"
<1>1. PICK p \in CallType : p = NoRequest /\ p.what = "call"
  BY NoRequestIs
<1>2. 1 \in 0..Tries
  BY Spans
<1>3. PICK q : q = [p EXCEPT !.at = "auth", !.attempt = 1]
  OBVIOUS
<1>4. q \in CallType /\ q.at = "auth" /\ q.what = "call"
  BY <1>1, <1>2, <1>3 DEF CallType
<1>5. q = [NoRequest EXCEPT !.at = "auth", !.attempt = 1]
  BY <1>1, <1>3
<1> QED BY <1>4, <1>5

LEMMA RequestKeeps == ASSUME ClientInv, NEW c \in Callers, Request(c) PROVE ClientInv'
<1>1. PICK q \in CallType : q = [NoRequest EXCEPT !.at = "auth", !.attempt = 1] /\ q.at = "auth" /\ q.what = "call"
  BY FirstAttempt
<1>3. caller' = [caller EXCEPT ![c] = q] /\ caller[c].at \notin Lined /\ ~Flight(c)
      /\ UNCHANGED <<gate, paced, line, token, refresh, since>>
  BY <1>1 DEF Request, ClientInv, Flights, Lined
<1>4. gate \in 0..Longest /\ gate >= gate /\ paced \in {0, Pace}
  BY Spans DEF ClientInv, ClientTypes
<1>5. q.at \notin Lined /\ q.at # "join" /\ gate' \in 0..Longest /\ gate' >= gate /\ paced' \in {0, Pace}
  BY <1>1, <1>3, <1>4 DEF Lined
<1> QED BY <1>1, <1>3, <1>5, StepsAside

LEMMA EnsureAuthKeeps == ASSUME ClientInv, NEW c \in Callers, EnsureAuth(c) PROVE ClientInv'
<1>1. /\ caller[c].at \notin Lined /\ ~Flight(c) /\ UNCHANGED <<gate, paced, token, refresh, since>>
      /\ gate \in 0..Longest /\ gate >= gate /\ paced \in {0, Pace}
      /\ token \in {"good", "stale", "spent"} /\ refresh \in {"good", "stale", "spent"}
  BY Spans DEF EnsureAuth, ClientInv, ClientTypes, Flights, Lined
<1>2. CASE Enter(c, "call", token)
  BY <1>1, <1>2, JoinsTheLine
<1>3. CASE (\E f \in Callers : Flight(f)) /\ caller' = [caller EXCEPT ![c].at = "join"] /\ UNCHANGED line
  <2>1. PICK q : q = [caller[c] EXCEPT !.at = "join"]
    OBVIOUS
  <2>2. q \in CallType /\ q.at = "join" /\ q.what = "call"
    BY <2>1, <1>1, GoesTo DEF ClientInv, ClientTypes, Flight
  <2>3. caller' = [caller EXCEPT ![c] = q]
    BY <2>1, <1>3
  <2> QED BY <1>1, <1>3, <2>2, <2>3, StepsAside DEF Lined
<1>4. CASE ~(\E f \in Callers : Flight(f)) /\ StartFlight(c)
  <2>1. PICK what \in {"refresh", "password"} : Enter(c, what, "spent")
    BY <1>4 DEF StartFlight
  <2> QED BY <1>1, <1>4, <2>1, JoinsTheLine
<1> QED BY <1>2, <1>3, <1>4 DEF EnsureAuth

LEMMA ResumeKeeps == ASSUME ClientInv, NEW c \in Callers, Resume(c) PROVE ClientInv'
<1>1. /\ caller[c].at \notin Lined /\ ~Flight(c) /\ UNCHANGED <<gate, paced, token, refresh, since>>
      /\ gate \in 0..Longest /\ gate >= gate /\ paced \in {0, Pace}
  BY Spans DEF Resume, ClientInv, ClientTypes, Flights, Lined
<1>2. caller[c].bearer \in {"good", "stale", "spent"}
  BY DEF ClientInv, ClientTypes, CallType
<1>3. token' = token /\ refresh' = refresh /\ gate' = gate /\ since' = since /\ paced' = paced
      /\ Enter(c, "call", caller[c].bearer)
  BY DEF Resume
<1> QED BY <1>1, <1>2, <1>3, JoinsTheLine

LEMMA WaitKeeps == ASSUME ClientInv, NEW c \in Callers, Wait(c) PROVE ClientInv'
<1>0. PICK p \in CallType, n \in Nat : p = caller[c] /\ n = gate
  BY Spans DEF ClientInv, ClientTypes
<1>1. PICK q : q = [p EXCEPT !.at = "sleep", !.left = n]
  OBVIOUS
<1>2. q \in CallType /\ q.at = "sleep" /\ q.what = caller[c].what /\ q.left = gate
  <2>1. q \in CallType /\ q.at = "sleep" /\ q.what = p.what /\ q.left = n
    BY <1>1 DEF CallType
  <2> QED BY <2>1, <1>0
<1>3. caller' = [caller EXCEPT ![c] = q] /\ caller[c].at = "line" /\ line # <<>> /\ c = Head(line)
      /\ UNCHANGED <<gate, paced, line, token, refresh, since>>
  BY <1>0, <1>1 DEF Wait
<1>4. caller' \in [Callers -> CallType] /\ InLine' /\ Flights'
  BY <1>2, <1>3, CallerMoves DEF Lined, Flight
<1>5. ClientTypes'
  BY <1>3, <1>4 DEF ClientInv, ClientTypes
<1>6. \A r \in Callers : caller'[r].at = "sleep" => line # <<>> /\ r = Head(line) /\ since + caller'[r].left >= Floor
  BY <1>2, <1>3 DEF ClientInv, ClientTypes, GateHolds
<1>7. GateHolds'
  BY <1>3, <1>6 DEF ClientInv, GateHolds
<1> QED BY <1>4, <1>5, <1>7 DEF ClientInv

LEMMA SendKeeps == ASSUME ClientInv, NEW c \in Callers, Send(c) PROVE ClientInv'
<1>1. PICK q : q = [caller[c] EXCEPT !.at = "air"]
  OBVIOUS
<1>2. q \in CallType /\ q.at = "air" /\ q.what = caller[c].what
  BY <1>1, GoesTo DEF ClientInv, ClientTypes
<1>3. caller' = [caller EXCEPT ![c] = q] /\ caller[c].at \in Lined /\ line' = Tail(line) /\ MyTurn(c)
  BY <1>1 DEF Send, Lined
<1>4. line' \in Seq(Callers) /\ InLine'
  BY <1>2, <1>3, GivesWay DEF Lined
<1>5. caller' \in [Callers -> CallType] /\ caller'[c] = q /\ \A r \in Callers \ {c} : caller'[r] = caller[r]
  BY <1>2, <1>3 DEF ClientInv, ClientTypes
<1>6. Flights'
  <2>1. \A r \in Callers : Flight(r)' <=> Flight(r)
    BY <1>2, <1>5 DEF Flight
  <2>2. OneFlight' /\ \A r \in Callers : Flight(r)' => caller'[r].at \in Lined \cup {"air"}
    BY <1>2, <1>5, <2>1 DEF ClientInv, Flights, OneFlight, Lined
  <2>3. \A r \in Callers : caller'[r].at = "join" => \E f \in Callers : Flight(f)'
    BY <1>2, <1>5, <2>1 DEF ClientInv, Flights
  <2> QED BY <2>2, <2>3 DEF Flights
<1>7. gate' \in 0..Longest /\ gate' >= Floor
  BY Spans, GreaterIs DEF Send, ClientInv, ClientTypes
<1>8. ClientTypes'
  BY <1>4, <1>5, <1>7 DEF ClientInv, ClientTypes, Send
<1>9. GateHolds'
  <2>1. since' = 0 /\ since' \in 0..Floor /\ since' + gate' >= Floor
    BY <1>7, Spans DEF Send
  <2>2. \A r \in Callers : caller'[r].at # "sleep"
    BY <1>2, <1>3, <1>5 DEF ClientInv, GateHolds, MyTurn
  <2> QED BY <2>1, <2>2 DEF GateHolds
<1> QED BY <1>4, <1>6, <1>8, <1>9 DEF ClientInv

LEMMA AnsweredKeeps == ASSUME ClientInv, NEW c \in Callers, NEW headers \in Headers, Answered(c, headers) PROVE ClientInv'
<1>1. caller[c].at \notin Lined /\ ~Flight(c) /\ UNCHANGED <<line, token, refresh, since>>
  BY DEF Answered, Lined
<1>2. gate' \in 0..Longest /\ gate' >= gate /\ paced' \in {0, Pace}
  BY HeardIs DEF Answered, ClientInv
<1> QED BY <1>1, <1>2, NoRequestIs, StepsAside DEF Answered, Lined

LEMMA UnauthorisedKeeps ==
  ASSUME ClientInv, NEW c \in Callers, NEW headers \in Headers, Unauthorised(c, headers) PROVE ClientInv'
<1>1. caller[c].at \notin Lined /\ ~Flight(c) /\ UNCHANGED <<line, token, refresh, since>>
  BY DEF Unauthorised, Lined
<1>2. gate' \in 0..Longest /\ gate' >= gate /\ paced' \in {0, Pace}
  BY HeardIs DEF Unauthorised, ClientInv
<1>3. PICK q : q = [caller[c] EXCEPT !.at = "auth", !.forced = TRUE]
  OBVIOUS
<1>4. q \in CallType /\ q.at = "auth" /\ q.what = "call"
  BY <1>1, <1>3, GoesForced DEF ClientInv, ClientTypes, Flight
<1>5. caller' = [caller EXCEPT ![c] = q]
  BY <1>3 DEF Unauthorised
<1> QED BY <1>1, <1>2, <1>4, <1>5, StepsAside DEF Lined

LEMMA LimitedKeeps == ASSUME ClientInv, NEW c \in Callers, NEW headers \in Headers, Limited(c, headers) PROVE ClientInv'
<1>1. caller[c].at \notin Lined /\ ~Flight(c) /\ UNCHANGED <<line, token, refresh, since>>
  BY DEF Limited, Lined
<1>2. gate' \in 0..Longest /\ gate' >= gate /\ paced' \in {0, Pace}
  BY HeardIs DEF Limited, ClientInv
<1>3. PICK q : q = Again(caller[c], FALSE)
  OBVIOUS
<1>4. q \in CallType /\ q.at \in {"idle", "auth", "back"} /\ q.what = "call"
  BY <1>3, AgainIs DEF ClientInv, ClientTypes
<1>5. caller' = [caller EXCEPT ![c] = q]
  BY <1>3 DEF Limited
<1> QED BY <1>1, <1>2, <1>4, <1>5, StepsAside DEF Lined

LEMMA BrokenKeeps == ASSUME ClientInv, NEW c \in Callers, Broken(c) PROVE ClientInv'
<1>1. caller[c].at \notin Lined /\ ~Flight(c) /\ UNCHANGED <<gate, paced, line, token, refresh, since>>
      /\ gate \in 0..Longest /\ gate >= gate /\ paced \in {0, Pace}
  BY Spans DEF Broken, Lined, ClientInv, ClientTypes
<1>2. PICK q : q = Again(caller[c], TRUE)
  OBVIOUS
<1>3. q \in CallType /\ q.at \in {"idle", "auth", "back"} /\ q.what = "call"
  BY <1>2, AgainIs DEF ClientInv, ClientTypes
<1>4. caller' = [caller EXCEPT ![c] = q]
  BY <1>2 DEF Broken
<1> QED BY <1>1, <1>3, <1>4, StepsAside DEF Lined

LEMMA AwakeKeeps == ASSUME ClientInv, NEW c \in Callers, Awake(c) PROVE ClientInv'
<1>1. caller[c].at \notin Lined /\ ~Flight(c) /\ UNCHANGED <<gate, paced, line, token, refresh, since>>
      /\ gate \in 0..Longest /\ gate >= gate /\ paced \in {0, Pace}
  BY Spans DEF Awake, Lined, ClientInv, ClientTypes, Flights
<1>2. PICK q : q = [caller[c] EXCEPT !.at = "auth"]
  OBVIOUS
<1>3. q \in CallType /\ q.at = "auth" /\ q.what = "call"
  BY <1>1, <1>2, GoesTo DEF ClientInv, ClientTypes, Flight
<1>4. caller' = [caller EXCEPT ![c] = q]
  BY <1>2 DEF Awake
<1> QED BY <1>1, <1>3, <1>4, StepsAside DEF Lined

(* The flight is over: nobody is left in it, and nobody waits for it.       *)
LEMMA FlightEnds ==
  ASSUME ClientInv, NEW c \in Callers, caller[c].at = "air", Flight(c),
         caller' \in [Callers -> CallType], line' = line, since' = since,
         gate' \in 0..Longest, gate' >= gate, paced' \in {0, Pace},
         token' \in {"good", "stale", "spent"}, refresh' \in {"good", "stale", "spent"},
         \A r \in Callers : IF r = c \/ caller[r].at = "join"
                            THEN caller'[r].at \notin Lined \cup {"join"} /\ caller'[r].what = "call"
                            ELSE caller'[r] = caller[r]
  PROVE  ClientInv'
<1> USE DEF ClientInv
<1>1. ClientTypes'
  BY DEF ClientTypes
<1>2. InLine'
  <2>1. \A r \in Callers : caller'[r].at \in Lined <=> caller[r].at \in Lined
    BY DEF Lined
  <2> QED BY <2>1 DEF InLine, Lined
<1>3. Flights'
  <2>1. \A r \in Callers : ~Flight(r)'
    BY DEF Flights, OneFlight, Flight
  <2>2. \A r \in Callers : caller'[r].at # "join"
    OBVIOUS
  <2> QED BY <2>1, <2>2 DEF Flights, OneFlight
<1>4. \A r \in Callers : caller'[r].at = "sleep" => caller[r].at = "sleep" /\ caller'[r].left = caller[r].left
  BY DEF Lined
<1>5. GateHolds'
  BY <1>4, GateStays, Spans
<1> QED BY <1>1, <1>2, <1>3, <1>5

LEMMA GrantedKeeps == ASSUME ClientInv, NEW c \in Callers, NEW headers \in Headers, Granted(c, headers) PROVE ClientInv'
<1>1. gate' \in 0..Longest /\ gate' >= gate /\ paced' \in {0, Pace}
  BY HeardIs DEF Granted, ClientInv
<1>2. ASSUME NEW r \in Callers, r = c \/ caller[r].at = "join"
      PROVE  caller'[r] \in CallType /\ caller'[r].at \in {"idle", "auth", "back", "resume"} /\ caller'[r].what = "call"
  <2>1. caller[r] \in CallType
    BY DEF ClientInv, ClientTypes
  <2>2. CASE caller[r].forced
    <3>1. caller'[r] = Again(caller[r], FALSE)
      BY <1>2, <2>2 DEF Granted, Landed
    <3> QED BY <2>1, <3>1, AgainIs
  <2>3. CASE ~caller[r].forced
    <3>0. PICK p \in CallType : p = caller[r]
      BY <2>1
    <3>1. PICK q : q = [p EXCEPT !.at = "resume", !.what = "call", !.bearer = "good"]
      OBVIOUS
    <3>2. caller'[r] = q
      BY <1>2, <2>3, <3>0, <3>1 DEF Granted, Landed
    <3>3. q \in CallType /\ q.at = "resume" /\ q.what = "call"
      BY <3>1 DEF CallType
    <3> QED BY <3>2, <3>3
  <2> QED BY <2>2, <2>3
<1>3. ASSUME NEW r \in Callers, ~(r = c \/ caller[r].at = "join") PROVE caller'[r] = caller[r]
  BY <1>3 DEF Granted, Landed
<1>4. caller' \in [Callers -> CallType]
  <2>1. \A r \in Callers : caller'[r] \in CallType
    BY <1>2, <1>3 DEF ClientInv, ClientTypes
  <2>2. caller' = Landed(c)
    BY DEF Granted
  <2>3. caller' = [r \in Callers |-> caller'[r]]
    BY <2>2 DEF Landed
  <2> QED BY <2>1, <2>3
<1>5. caller[c].at = "air" /\ Flight(c) /\ UNCHANGED <<line, since>> /\ token' = "good" /\ refresh' = "good"
  BY DEF Granted
<1> QED BY <1>1, <1>2, <1>3, <1>4, <1>5, FlightEnds DEF Lined

LEMMA DeniedKeeps ==
  ASSUME ClientInv, NEW c \in Callers, NEW headers \in Headers, NEW limited \in BOOLEAN, Denied(c, headers, limited)
  PROVE  ClientInv'
<1>1. gate' \in 0..Longest /\ gate' >= gate /\ paced' \in {0, Pace}
  BY HeardIs DEF Denied, ClientInv
<1>2. caller[c].at = "air" /\ Flight(c) /\ UNCHANGED <<token, refresh, since>>
      /\ token \in {"good", "stale", "spent"} /\ refresh \in {"good", "stale", "spent"}
  BY DEF Denied, ClientInv, ClientTypes
<1>3. CASE Enter(c, "password", "spent")
  <2>1. caller[c].at \notin Lined /\ \A r \in Callers : Flight(r) => r = c
    BY <1>2 DEF Lined, ClientInv, Flights, OneFlight
  <2> QED BY <1>1, <1>2, <1>3, <2>1, JoinsTheLine
<1>4. CASE /\ caller' = [r \in Callers |-> IF r = c \/ caller[r].at = "join" THEN NoRequest ELSE caller[r]]
           /\ UNCHANGED line
  <2>1. caller' \in [Callers -> CallType]
    BY <1>4, NoRequestIs DEF ClientInv, ClientTypes
  <2>2. \A r \in Callers : IF r = c \/ caller[r].at = "join" THEN caller'[r] = NoRequest ELSE caller'[r] = caller[r]
    BY <1>4
  <2>3. \A r \in Callers : IF r = c \/ caller[r].at = "join"
                            THEN caller'[r].at \notin Lined \cup {"join"} /\ caller'[r].what = "call"
                            ELSE caller'[r] = caller[r]
    BY <2>2, NoRequestIs DEF Lined
  <2> QED BY <1>1, <1>2, <1>4, <2>1, <2>3, FlightEnds
<1> QED BY <1>3, <1>4 DEF Denied

LEMMA LapseKeeps == ASSUME ClientInv, NEW to \in {"stale", "spent"}, Lapse(to) PROVE ClientInv'
<1> USE DEF ClientInv, ClientTypes
<1>1. \A r \in Callers : /\ caller'[r] \in CallType /\ caller'[r].at = caller[r].at
                         /\ caller'[r].what = caller[r].what /\ caller'[r].left = caller[r].left
  <2>1. CASE UNCHANGED caller
    BY <2>1
  <2>2. CASE caller' = [c \in Callers |-> [caller[c] EXCEPT !.bearer = IF @ = "good" THEN "stale" ELSE @]]
    <3> SUFFICES ASSUME NEW r \in Callers
                 PROVE  /\ caller'[r] \in CallType /\ caller'[r].at = caller[r].at
                        /\ caller'[r].what = caller[r].what /\ caller'[r].left = caller[r].left
      OBVIOUS
    <3>1. PICK p \in CallType : p = caller[r]
      OBVIOUS
    <3>2. PICK b \in {"good", "stale", "spent"} : b = IF p.bearer = "good" THEN "stale" ELSE p.bearer
      BY DEF CallType
    <3>3. PICK q : q = [p EXCEPT !.bearer = b]
      OBVIOUS
    <3>4. q \in CallType /\ q.at = p.at /\ q.what = p.what /\ q.left = p.left
      BY <3>3 DEF CallType
    <3>5. caller'[r] = q
      BY <2>2, <3>1, <3>2, <3>3
    <3> QED BY <3>1, <3>4, <3>5
  <2> QED BY <2>1, <2>2 DEF Lapse
<1>2. caller' \in [Callers -> CallType]
  <2>1. caller' = [r \in Callers |-> caller'[r]]
    BY DEF Lapse
  <2> QED BY <1>1, <2>1
<1>3. UNCHANGED <<gate, paced, line, since>> /\ token' \in {"good", "stale", "spent"} /\ refresh' \in {"good", "stale", "spent"}
  BY DEF Lapse
<1>4. InLine' /\ Flights'
  BY <1>1, <1>3, CallersStay
<1>5. GateHolds'
  <2>1. since' \in 0..Floor /\ since' + gate' >= Floor
    BY <1>3 DEF GateHolds
  <2>2. \A r \in Callers : caller'[r].at = "sleep" => line' # <<>> /\ r = Head(line') /\ since' + caller'[r].left >= Floor
    BY <1>1, <1>3 DEF GateHolds
  <2> QED BY <2>1, <2>2 DEF GateHolds
<1>6. ClientTypes'
  BY <1>2, <1>3
<1> QED BY <1>4, <1>5, <1>6

(* What is left makes up for what is missing, as time passes.               *)
LEMMA Passing ==
  ASSUME NEW s \in 0..Floor, NEW n \in Nat, s + n >= Floor, NEW t, t = IF s < Floor THEN s + 1 ELSE s
  PROVE  t \in 0..Floor /\ Less(n) \in Nat /\ Less(n) <= n /\ t + Less(n) >= Floor
BY Spans DEF Less

LEMMA LessIs == ASSUME NEW n \in Nat PROVE Less(n) \in Nat /\ Less(n) <= n
BY DEF Less

LEMMA TimeKeeps == ASSUME ClientInv, TimeGoesBy PROVE ClientInv'
<1> USE DEF ClientInv, ClientTypes
<1>1. \A r \in Callers : /\ caller'[r] \in CallType /\ caller'[r].at = caller[r].at
                         /\ caller'[r].what = caller[r].what /\ caller'[r].left = Less(caller[r].left)
  <2> SUFFICES ASSUME NEW r \in Callers
               PROVE  /\ caller'[r] \in CallType /\ caller'[r].at = caller[r].at
                      /\ caller'[r].what = caller[r].what /\ caller'[r].left = Less(caller[r].left)
    OBVIOUS
  <2>1. PICK p \in CallType : p = caller[r]
    OBVIOUS
  <2>2. PICK n \in Nat : n = Less(p.left)
    BY LessIs DEF CallType
  <2>3. PICK q : q = [p EXCEPT !.left = n]
    OBVIOUS
  <2>4. q \in CallType /\ q.at = p.at /\ q.what = p.what /\ q.left = n
    BY <2>3 DEF CallType
  <2>5. caller'[r] = q
    BY <2>1, <2>2, <2>3 DEF TimeGoesBy
  <2> QED BY <2>1, <2>2, <2>4, <2>5
<1>2. caller' \in [Callers -> CallType]
  <2>1. caller' = [r \in Callers |-> caller'[r]]
    BY DEF TimeGoesBy
  <2> QED BY <1>1, <2>1
<1>3. gate' = Less(gate) /\ since' = (IF since < Floor THEN since + 1 ELSE since) /\ UNCHANGED <<paced, line, token, refresh>>
  BY DEF TimeGoesBy
<1>4. InLine' /\ Flights'
  BY <1>1, <1>3, CallersStay
<1>5. gate \in Nat /\ gate <= Longest /\ gate' \in 0..Longest
  <2>1. gate \in Nat /\ gate <= Longest /\ Longest \in Nat
    BY Spans
  <2> QED BY <1>3, <2>1, LessIs
<1>6. GateHolds'
  <2>1. since \in 0..Floor /\ since + gate >= Floor
    BY DEF GateHolds
  <2>2. since' \in 0..Floor /\ since' + Less(gate) >= Floor
    BY <1>3, <1>5, <2>1, Passing
  <2>3. ASSUME NEW r \in Callers, caller'[r].at = "sleep"
        PROVE  line' # <<>> /\ r = Head(line') /\ since' + caller'[r].left >= Floor
    <3>1. line # <<>> /\ r = Head(line) /\ since + caller[r].left >= Floor /\ caller[r].left \in Nat
      BY <1>1, <2>3 DEF GateHolds, CallType
    <3>2. since' + Less(caller[r].left) >= Floor
      BY <1>3, <2>1, <3>1, Passing
    <3> QED BY <1>1, <1>3, <3>1, <3>2
  <2> QED BY <1>3, <2>2, <2>3 DEF GateHolds
<1>7. ClientTypes'
  BY <1>2, <1>3, <1>5
<1> QED BY <1>4, <1>6, <1>7

LEMMA MdStutters == ASSUME ClientInv, UNCHANGED mdVars PROVE ClientInv'
BY DEF mdVars, ClientInv, ClientTypes, InLine, Flights, OneFlight, Flight, GateHolds

LEMMA CallerKeeps == ASSUME ClientInv, NEW c \in Callers, CallerStep(c) PROVE ClientInv'
BY EnsureAuthKeeps, ResumeKeeps, WaitKeeps, SendKeeps, AwakeKeeps, BrokenKeeps, AnsweredKeeps,
   UnauthorisedKeeps, LimitedKeeps, GrantedKeeps, DeniedKeeps DEF CallerStep

LEMMA ClientSteps == ClientInv /\ [MdNext]_mdVars => ClientInv'
<1> SUFFICES ASSUME ClientInv, [MdNext]_mdVars PROVE ClientInv'
  OBVIOUS
<1>1. ASSUME NEW c \in Callers, Request(c) \/ CallerStep(c) PROVE ClientInv'
  BY <1>1, RequestKeeps, CallerKeeps
<1>2. ASSUME NEW to \in {"stale", "spent"}, Lapse(to) PROVE ClientInv'
  BY <1>2, LapseKeeps
<1>3. CASE TimeGoesBy
  BY <1>3, TimeKeeps
<1>4. CASE UNCHANGED mdVars
  BY <1>4, MdStutters
<1> QED BY <1>1, <1>2, <1>3, <1>4 DEF MdNext

LEMMA ClientAlways == MdSpec => []ClientInv
<1> QED BY ClientStarts, ClientSteps, PTL DEF MdSpec

(* The shared client is consistent whatever answers, lapses and callers     *)
(* come together: the line holds who waits and holds him once, a burst of   *)
(* callers makes one grant between them, and nobody waits for a grant that  *)
(* nobody makes.                                                            *)
THEOREM GatekeeperSafe == MdSpec => []MdInv
<1>1. ClientInv => MdInv
  <2> SUFFICES ASSUME ClientInv PROVE MdInv
    OBVIOUS
  <2>1. OneFlight
    BY DEF ClientInv, Flights
  <2>2. \A c \in Callers :
          /\ caller[c].at \in {"idle", "auth", "join", "resume", "line", "sleep", "air", "back"}
          /\ caller[c].what \in {"call", "refresh", "password"} /\ caller[c].attempt \in 0..Tries
          /\ caller[c].at = "join" => \E f \in Callers : Flight(f)
          /\ caller[c].at \in {"line", "sleep"} <=> \E i \in DOMAIN line : line[i] = c
    BY DEF ClientInv, ClientTypes, CallType, Flights, InLine, Lined
  <2> QED BY <2>1, <2>2 DEF MdInv, MdTypeOK, ClientInv, ClientTypes, InLine, Longest
<1> QED BY <1>1, ClientAlways, PTL

(* Two requests leave at least one interval apart, although the gate is     *)
(* read before the sleep and written after it, and answers move it between. *)
LEMMA SpacedStep == ClientInv /\ [MdNext]_mdVars =>
  [\A c \in Callers : caller[c].at # "air" /\ caller'[c].at = "air" => since = Floor]_mdVars
<1> SUFFICES ASSUME ClientInv, MdNext, NEW c \in Callers, caller[c].at # "air", caller'[c].at = "air" PROVE since = Floor
  OBVIOUS
<1>0. caller \in [Callers -> CallType] /\ caller[c] \in CallType
  BY DEF ClientInv, ClientTypes
<1>1. ASSUME NEW r \in Callers, NEW what, NEW bearer, Enter(r, what, bearer) PROVE FALSE
  <2>1. caller'[c].at = IF c = r THEN "line" ELSE caller[c].at
    BY <1>0, <1>1 DEF Enter, CallType
  <2> QED BY <2>1
<1>2. ASSUME NEW r \in Callers, NEW backoff \in BOOLEAN, caller' = [caller EXCEPT ![r] = Again(@, backoff)] PROVE FALSE
  <2>1. Again(caller[r], backoff).at \in {"idle", "auth", "back"}
    BY <1>0, AgainIs
  <2> QED BY <1>0, <1>2, <2>1
<1>3. ASSUME NEW r \in Callers, Request(r) \/ EnsureAuth(r) \/ Resume(r) \/ Wait(r) \/ Awake(r) PROVE FALSE
  <2>1. CASE Request(r)
    <3>1. PICK q \in CallType : q.at = "auth" /\ caller' = [caller EXCEPT ![r] = q]
      BY <2>1, FirstAttempt DEF Request
    <3> QED BY <1>0, <3>1
  <2>2. CASE EnsureAuth(r)
    <3>1. (\E what, bearer : Enter(r, what, bearer)) \/ caller' = [caller EXCEPT ![r].at = "join"]
      BY <2>2 DEF EnsureAuth, StartFlight
    <3> QED BY <1>0, <1>1, <3>1 DEF CallType
  <2>3. CASE Resume(r)
    BY <1>1, <2>3 DEF Resume
  <2>4. CASE Wait(r)
    BY <1>0, <2>4 DEF Wait, CallType
  <2>5. CASE Awake(r)
    BY <1>0, <2>5 DEF Awake, CallType
  <2> QED BY <1>3, <2>1, <2>2, <2>3, <2>4, <2>5
<1>4. ASSUME NEW r \in Callers, Broken(r) PROVE FALSE
  BY <1>2, <1>4 DEF Broken
<1>5. ASSUME NEW r \in Callers, NEW headers \in Headers,
             Answered(r, headers) \/ Unauthorised(r, headers) \/ Limited(r, headers) \/ Granted(r, headers)
      PROVE  FALSE
  <2>1. CASE Answered(r, headers)
    BY <1>0, <2>1, NoRequestIs DEF Answered
  <2>2. CASE Unauthorised(r, headers)
    BY <1>0, <2>2 DEF Unauthorised, CallType
  <2>3. CASE Limited(r, headers)
    BY <1>2, <2>3 DEF Limited
  <2>4. CASE Granted(r, headers)
    <3>1. Again(caller[c], FALSE).at \in {"idle", "auth", "back"}
      BY <1>0, AgainIs
    <3>2. [caller[c] EXCEPT !.at = "resume", !.what = "call", !.bearer = "good"].at = "resume"
      BY <1>0 DEF CallType
    <3> QED BY <2>4, <3>1, <3>2 DEF Granted, Landed
  <2> QED BY <1>5, <2>1, <2>2, <2>3, <2>4
<1>6. ASSUME NEW r \in Callers, NEW headers \in Headers, NEW limited \in BOOLEAN, Denied(r, headers, limited) PROVE FALSE
  BY <1>1, <1>6, NoRequestIs DEF Denied
<1>7. ASSUME NEW to \in {"stale", "spent"}, Lapse(to) PROVE FALSE
  BY <1>0, <1>7 DEF Lapse, CallType
<1>8. ~TimeGoesBy
  BY <1>0 DEF TimeGoesBy, CallType
<1>9. PICK r \in Callers : Send(r)
  BY <1>3, <1>4, <1>5, <1>6, <1>7, <1>8 DEF MdNext, CallerStep
<1>10. r = c
  BY <1>0, <1>9 DEF Send
<1>11. (caller[c].at = "line" /\ gate = 0) \/ (caller[c].at = "sleep" /\ caller[c].left = 0)
  BY <1>9, <1>10 DEF Send
<1>12. since \in 0..Floor /\ since >= Floor
  BY <1>11, Spans DEF ClientInv, GateHolds
<1> QED BY <1>12, Spans

(* The interval holds over whole behaviours of the client.                  *)
THEOREM RequestsKeepTheirDistance == MdSpec => RequestsAreSpaced
<1>1. ClientInv /\ [MdNext]_mdVars =>
        [\A c \in Callers : caller[c].at # "air" /\ caller'[c].at = "air" => since = Floor]_mdVars
  BY SpacedStep
<1> QED BY <1>1, ClientAlways, PTL DEF MdSpec, RequestsAreSpaced
-----------------------------------------------------------------------------
(***************************************************************************)
(* The titles of one series (Titles.tla), for any number of processes and  *)
(* operators, of languages, attempts, acts and failures.                   *)
(***************************************************************************)
Stages == {"idle", "report", "match", "mapCheck", "mapWrite", "mapClose", "reset", "claim", "recheck", "adopt",
           "search", "refuse", "commit", "track", "finish", "fail", "unskip", "reconcile", "close", "release"}
Closers == {"adopt", "finish", "mapClose", "close"}
Mappers == {"mapCheck", "mapWrite", "track"}

StaffType == [at : Stages, row : Languages, title : Nat, spent : Nat, auto : BOOLEAN]

TriageTypes ==
  /\ state \in [Languages -> States] /\ named \in [Languages -> Nat] /\ tries \in [Languages -> Nat]
  /\ mapping \in Nat /\ made \in Seq(Languages) /\ staff \in [Staff -> StaffType]
  /\ acts \in Nat /\ faults \in Nat /\ torn \in BOOLEAN

(* A title that is named somewhere exists, and who maps has one to map.     *)
Known == Len(made) + 1
TitlesKnown ==
  /\ mapping <= Known /\ \A r \in Languages : named[r] <= Known
  /\ \A s \in Staff : staff[s].title <= Known /\ (staff[s].at \in Mappers => staff[s].title # 0)

(* A creator holds its row, and it alone.                                   *)
RowsHeld ==
  /\ \A s \in Staff : staff[s].at \in Creating /\ ~torn => state[staff[s].row] = "CREATING"
  /\ OneCreator

(* Who is about to close a row has the mapping behind it already.           *)
MappingBehind ==
  /\ \A s \in Staff : staff[s].at \in Closers /\ ~torn => mapping # 0
  /\ TrackedIsMapped

(* The machine commits the first title of a row: it searched when there was *)
(* none, and it alone is at the row since.                                  *)
FirstOfRow == \A s \in Staff : At(s, "commit") /\ staff[s].auto /\ ~torn => MadeFor(staff[s].row) = {}

(* Every attempt of a row but the one under way has been paid by a failure, *)
(* and so have those that are failing.                                      *)
Throwing(r) == {s \in Staff : staff[s].at = "fail" /\ staff[s].row = r}
Free(r) == state[r] \in {"none", "NEW"}
Paid == \A r \in Languages :
  /\ Cardinality(Throwing(r)) <= faults
  /\ tries[r] + Cardinality(Throwing(r)) <= faults + (IF Free(r) THEN 0 ELSE 1)

TriageInv == TriageTypes /\ TitlesKnown /\ RowsHeld /\ MappingBehind /\ FirstOfRow

LEMMA TitlesBounds == IsFiniteSet(Staff) /\ Attempts \in Nat /\ MaxActs \in Nat /\ MaxFaults \in Nat
BY TitlesAssumption

LEMMA AtRestIs ==
  /\ AtRest \in StaffType /\ AtRest.at = "idle" /\ AtRest.title = 0 /\ AtRest.auto = FALSE
BY TitlesAssumption DEF AtRest, StaffType, Stages

LEMMA MadeTitlesAre == ASSUME TriageTypes PROVE ({1} \cup MadeTitles) \subseteq Nat \ {0} /\ \A t \in {1} \cup MadeTitles : t <= Known
BY DEF TriageTypes, MadeTitles, Known

(* One member of staff takes a step: what it has to see to, for each part.  *)
Steps(s, q) == staff' = [staff EXCEPT ![s] = q]

(* The row of a creator is taken from it by itself, or the step is torn;    *)
(* and who becomes a creator takes a row no creator has.                    *)
RowsCare(s, q) ==
  /\ \A r \in Languages : state[r] = "CREATING" /\ state'[r] # "CREATING" =>
       torn' \/ (staff[s].at \in Creating /\ staff[s].row = r /\ q.at \notin Creating)
  /\ q.at \in Creating => \/ torn'
                          \/ /\ state'[q.row] = "CREATING"
                             /\ state[q.row] # "CREATING" \/ (staff[s].at \in Creating /\ staff[s].row = q.row)

LEMMA RowsStep ==
  ASSUME TriageTypes, RowsHeld, NEW s \in Staff, NEW q \in StaffType, Steps(s, q), torn => torn', RowsCare(s, q)
  PROVE  RowsHeld'
<1>1. staff'[s] = q /\ \A t \in Staff \ {s} : staff'[t] = staff[t]
  BY DEF Steps, TriageTypes
<1>2. \A t \in Staff : staff[t].row \in Languages
  BY DEF TriageTypes, StaffType
<1>3. ASSUME NEW t \in Staff, t # s, staff[t].at \in Creating, ~torn' PROVE state'[staff[t].row] = "CREATING"
  <2>1. state[staff[t].row] = "CREATING"
    BY <1>3 DEF RowsHeld
  <2>2. ~(staff[s].at \in Creating /\ staff[s].row = staff[t].row)
    BY <1>3 DEF RowsHeld, OneCreator
  <2> QED BY <1>2, <1>3, <2>1, <2>2 DEF RowsCare
<1>4. ASSUME NEW t \in Staff, staff'[t].at \in Creating, ~torn' PROVE state'[staff'[t].row] = "CREATING"
  <2>1. CASE t = s
    BY <1>1, <1>4, <2>1 DEF RowsCare
  <2>2. CASE t # s
    BY <1>1, <1>3, <1>4, <2>2
  <2> QED BY <2>1, <2>2
<1>5. ASSUME NEW t \in Staff, t # s, ~torn', staff[t].at \in Creating, q.at \in Creating PROVE staff[t].row # q.row
  <2>1. state[staff[t].row] = "CREATING" /\ ~(staff[s].at \in Creating /\ staff[s].row = staff[t].row)
    BY <1>5 DEF RowsHeld, OneCreator
  <2> QED BY <1>5, <2>1 DEF RowsCare
<1>6. ASSUME NEW t \in Staff, NEW u \in Staff, ~torn', t # u, staff'[t].at \in Creating, staff'[u].at \in Creating
      PROVE  staff'[t].row # staff'[u].row
  <2>1. CASE t = s
    BY <1>1, <1>5, <1>6, <2>1
  <2>2. CASE u = s
    BY <1>1, <1>5, <1>6, <2>2
  <2>3. CASE t # s /\ u # s
    BY <1>1, <1>6, <2>3 DEF RowsHeld, OneCreator
  <2> QED BY <2>1, <2>2, <2>3
<1>7. OneCreator'
  BY <1>6 DEF OneCreator
<1> QED BY <1>4, <1>7 DEF RowsHeld

(* A mapping that goes tears no row that is being closed; a row is closed   *)
(* over a mapping; and a removal that ends leaves no row behind.            *)
MapCare(s, q) ==
  /\ mapping # 0 /\ mapping' = 0 => torn' \/ ~\E t \in Staff : staff[t].at \in Closers
  /\ q.at \in Closers => torn' \/ mapping' # 0
  /\ \A r \in Languages : state'[r] = "TRACKED" =>
       \/ torn' \/ q.at = "release" \/ mapping' # 0
       \/ state[r] = "TRACKED" /\ mapping' = mapping /\ staff[s].at # "release"

LEMMA MapStep ==
  ASSUME TriageTypes, MappingBehind, NEW s \in Staff, NEW q \in StaffType, Steps(s, q), torn => torn', MapCare(s, q)
  PROVE  MappingBehind'
<1>1. staff'[s] = q /\ \A t \in Staff \ {s} : staff'[t] = staff[t]
  BY DEF Steps, TriageTypes
<1>2. ASSUME NEW t \in Staff, staff'[t].at \in Closers, ~torn' PROVE mapping' # 0
  <2>1. CASE t = s
    BY <1>1, <1>2, <2>1 DEF MapCare
  <2>2. CASE t # s
    BY <1>1, <1>2, <2>2 DEF MapCare, MappingBehind
  <2> QED BY <2>1, <2>2
<1>3. ASSUME ~torn', \A t \in Staff : staff'[t].at # "release", NEW r \in Languages, state'[r] = "TRACKED"
      PROVE  mapping' # 0
  <2>1. q.at # "release" /\ \A t \in Staff \ {s} : staff[t].at # "release"
    BY <1>1, <1>3
  <2>2. CASE state[r] = "TRACKED" /\ mapping' = mapping /\ staff[s].at # "release"
    BY <1>3, <2>1, <2>2 DEF MappingBehind, TrackedIsMapped, At
  <2> QED BY <1>3, <2>1, <2>2 DEF MapCare
<1>4. TrackedIsMapped'
  BY <1>3 DEF TrackedIsMapped, At
<1> QED BY <1>2, <1>4 DEF MappingBehind

(* Who commits for the machine has seen that there is no title of the row,  *)
(* and who commits is a creator.                                            *)
FirstCare(s, q) ==
  /\ q.at = "commit" /\ q.auto => torn' \/ MadeFor(q.row)' = {}
  /\ \/ made' = made
     \/ made' = Append(made, staff[s].row) /\ staff[s].at \in Creating

LEMMA FirstStep ==
  ASSUME TriageTypes, RowsHeld, FirstOfRow, NEW s \in Staff, NEW q \in StaffType, Steps(s, q), torn => torn', FirstCare(s, q)
  PROVE  FirstOfRow'
<1>1. staff'[s] = q /\ \A t \in Staff \ {s} : staff'[t] = staff[t]
  BY DEF Steps, TriageTypes
<1>2. ASSUME NEW t \in Staff, t # s, staff[t].at = "commit", staff[t].auto, ~torn' PROVE MadeFor(staff[t].row)' = {}
  <2>1. MadeFor(staff[t].row) = {} /\ staff'[t].row = staff[t].row
    BY <1>1, <1>2 DEF FirstOfRow, At
  <2>2. CASE made' = made
    BY <1>1, <1>2, <2>1, <2>2 DEF MadeFor
  <2>3. CASE made' = Append(made, staff[s].row) /\ staff[s].at \in Creating
    <3>1. staff[t].row # staff[s].row
      BY <1>2, <2>3 DEF RowsHeld, OneCreator, Creating
    <3>2. \A i \in DOMAIN made' : made'[i] # staff[t].row
      <4>1. DOMAIN made' = 1..(Len(made) + 1) /\ made'[Len(made) + 1] = staff[s].row
            /\ \A i \in 1..Len(made) : made'[i] = made[i] /\ i \in DOMAIN made
        BY <2>3 DEF TriageTypes, StaffType
      <4>2. \A i \in DOMAIN made : made[i] # staff[t].row
        BY <2>1 DEF MadeFor
      <4>3. \A i \in DOMAIN made' : i = Len(made) + 1 \/ i \in 1..Len(made)
        BY <4>1 DEF TriageTypes
      <4> QED BY <3>1, <4>1, <4>2, <4>3
    <3> QED BY <2>1, <3>2 DEF MadeFor
  <2> QED BY <2>2, <2>3 DEF FirstCare
<1>3. ASSUME NEW t \in Staff, staff'[t].at = "commit", staff'[t].auto, ~torn' PROVE MadeFor(staff[t].row)' = {}
  <2>1. CASE t = s
    BY <1>1, <1>3, <2>1 DEF FirstCare, MadeFor
  <2>2. CASE t # s
    BY <1>1, <1>2, <1>3, <2>2
  <2> QED BY <2>1, <2>2
<1> QED BY <1>3 DEF FirstOfRow, At

(* Where a step leads.                                                      *)
LEMMA GoesLeads ==
  ASSUME TriageTypes, NEW s \in Staff, NEW stage \in Stages, Goes(s, stage)
  PROVE  \E q \in StaffType : /\ Steps(s, q) /\ q.at = stage
                              /\ q.row = staff[s].row /\ q.title = staff[s].title /\ q.auto = staff[s].auto
<1>1. PICK p \in StaffType : p = staff[s]
  BY DEF TriageTypes
<1>2. PICK q : q = [p EXCEPT !.at = stage]
  OBVIOUS
<1>3. q \in StaffType /\ q.at = stage /\ q.row = p.row /\ q.title = p.title /\ q.auto = p.auto
  BY <1>2 DEF StaffType
<1>4. Steps(s, q)
  BY <1>1, <1>2 DEF Goes, Steps
<1> QED BY <1>1, <1>3, <1>4

LEMMA BeginsLeads ==
  ASSUME TriageTypes, NEW s \in Staff, NEW stage \in Stages, NEW r \in Languages,
         Begins(s, r, stage)
  PROVE  \E q \in StaffType : Steps(s, q) /\ q.at = stage /\ q.row = r /\ q.title = staff[s].title
<1>1. PICK p \in StaffType : p = staff[s]
  BY DEF TriageTypes
<1>2. PICK q : q = [p EXCEPT !.at = stage, !.row = r]
  OBVIOUS
<1>3. q \in StaffType /\ q.at = stage /\ q.row = r /\ q.title = p.title
  BY <1>2 DEF StaffType
<1>4. Steps(s, q)
  BY <1>1, <1>2 DEF Begins, Steps
<1> QED BY <1>1, <1>3, <1>4

LEMMA EndsLeads ==
  ASSUME NEW s \in Staff, Ends(s)
  PROVE  \E q \in StaffType : Steps(s, q) /\ q.at = "idle" /\ q.title = 0
BY AtRestIs DEF Ends, Steps

(* A step that changes no row: it looks, decides, or writes a mapping.      *)
Quiet(s, q) ==
  /\ UNCHANGED <<rowVars, made>> /\ acts' \in Nat /\ faults' \in Nat /\ torn' \in BOOLEAN /\ (torn => torn')
  /\ mapping' \in Nat /\ mapping' <= Known /\ (mapping' # mapping => mapping' # 0)
  /\ q.title <= Known /\ (q.at \in Mappers => q.title # 0)
  /\ q.at \in Creating => staff[s].at \in Creating /\ q.row = staff[s].row
  /\ q.at \in Closers => torn' \/ mapping' # 0
  /\ q.at = "commit" /\ q.auto => torn' \/ MadeFor(q.row) = {}
  /\ staff[s].at = "release" => torn'

LEMMA QuietSteps ==
  ASSUME TriageInv, NEW s \in Staff, NEW q \in StaffType, Steps(s, q), Quiet(s, q)
  PROVE  TriageInv'
<1> USE DEF TriageInv
<1>0. staff'[s] = q /\ (\A t \in Staff \ {s} : staff'[t] = staff[t]) /\ staff' \in [Staff -> StaffType]
  BY DEF Steps, TriageTypes
<1>1. state' = state /\ named' = named /\ tries' = tries /\ made' = made
  BY DEF Quiet, rowVars
<1>2. TriageTypes'
  BY <1>0, <1>1 DEF Quiet, TriageTypes
<1>3. TitlesKnown'
  BY <1>0, <1>1 DEF Quiet, TitlesKnown, Known
<1>4. RowsHeld'
  <2>1. RowsCare(s, q)
    BY <1>1 DEF RowsCare, Quiet, RowsHeld
  <2> QED BY <2>1, RowsStep DEF Quiet
<1>5. MappingBehind'
  <2>1. MapCare(s, q)
    BY <1>1 DEF MapCare, Quiet
  <2> QED BY <2>1, MapStep DEF Quiet
<1>6. FirstOfRow'
  <2>1. FirstCare(s, q)
    BY <1>1 DEF FirstCare, Quiet, MadeFor
  <2> QED BY <2>1, FirstStep DEF Quiet
<1> QED BY <1>2, <1>3, <1>4, <1>5, <1>6

(* A step that leaves the row it is at in state v.                          *)
Leaves(s, q, v) ==
  /\ state' = [state EXCEPT ![staff[s].row] = v] /\ UNCHANGED <<mapping, made, acts, faults>>
  /\ named' \in [Languages -> Nat] /\ (\A r \in Languages : named'[r] <= Known)
  /\ tries' \in [Languages -> Nat] /\ torn' \in BOOLEAN /\ (torn => torn')
  /\ q.title <= Known /\ q.at \in {"idle", "claim"}
  /\ v = "TRACKED" => torn' \/ mapping # 0 \/ state[staff[s].row] = "TRACKED"
  /\ state[staff[s].row] = "CREATING" => torn' \/ staff[s].at \in Creating \/ v = "CREATING"
  /\ staff[s].at # "release"

LEMMA LeavesSteps ==
  ASSUME TriageInv, NEW s \in Staff, NEW q \in StaffType, Steps(s, q), NEW v \in States, Leaves(s, q, v)
  PROVE  TriageInv'
<1> USE DEF TriageInv
<1>0. staff'[s] = q /\ (\A t \in Staff \ {s} : staff'[t] = staff[t]) /\ staff' \in [Staff -> StaffType]
  BY DEF Steps, TriageTypes
<1>1. staff[s].row \in Languages
  BY DEF TriageTypes, StaffType
<1>2. q.at \notin Creating /\ q.at \notin Closers /\ q.at \notin Mappers /\ q.at # "commit"
  BY DEF Leaves, Creating, Closers, Mappers
<1>3. state'[staff[s].row] = v /\ \A r \in Languages \ {staff[s].row} : state'[r] = state[r]
  BY <1>1 DEF Leaves, TriageTypes
<1>4. TriageTypes'
  BY <1>0, <1>1 DEF Leaves, TriageTypes
<1>5. TitlesKnown'
  BY <1>0, <1>2 DEF Leaves, TitlesKnown, Known
<1>6. RowsHeld'
  <2>1. RowsCare(s, q)
    BY <1>2, <1>3 DEF RowsCare, Leaves
  <2> QED BY <2>1, RowsStep DEF Leaves
<1>7. MappingBehind'
  <2>1. MapCare(s, q)
    BY <1>2, <1>3 DEF MapCare, Leaves
  <2> QED BY <2>1, MapStep DEF Leaves
<1>8. FirstOfRow'
  <2>1. FirstCare(s, q)
    BY <1>2 DEF FirstCare, Leaves
  <2> QED BY <2>1, FirstStep DEF Leaves
<1> QED BY <1>4, <1>5, <1>6, <1>7, <1>8

LEMMA TitlesStart == TitlesInit => TriageInv
<1> SUFFICES ASSUME TitlesInit PROVE TriageInv
  OBVIOUS
<1> USE DEF TitlesInit
<1>1. TriageTypes
  <2>1. made \in Seq(Languages)
    OBVIOUS
  <2> QED BY <2>1, AtRestIs DEF TriageTypes, States
<1>2. \A s \in Staff : staff[s].at = "idle" /\ staff[s].title = 0
  BY AtRestIs
<1>3. TitlesKnown
  BY <1>2 DEF TitlesKnown, Known, Mappers
<1>4. RowsHeld
  BY <1>2 DEF RowsHeld, OneCreator, Creating
<1>5. MappingBehind
  BY <1>2 DEF MappingBehind, TrackedIsMapped, Closers
<1>6. FirstOfRow
  BY <1>2 DEF FirstOfRow, At
<1> QED BY <1>1, <1>3, <1>4, <1>5, <1>6 DEF TriageInv

LEMMA KnownIs == ASSUME TriageInv, NEW s \in Staff PROVE /\ Known \in Nat /\ Known >= 1 /\ mapping \in Nat /\ mapping <= Known
                                                        /\ staff[s].title \in Nat /\ staff[s].title <= Known
                                                        /\ acts \in Nat /\ faults \in Nat /\ torn \in BOOLEAN
                                                        /\ staff[s].row \in Languages
BY DEF TriageInv, TriageTypes, StaffType, TitlesKnown, Known

LEMMA SeenUntrackedKeeps == ASSUME TriageInv, NEW s \in Staff, NEW r \in Languages, SeenUntracked(s, r) PROVE TriageInv'
<1>1. PICK q \in StaffType : Steps(s, q) /\ q.at = "report" /\ q.title = staff[s].title
  BY BeginsLeads DEF SeenUntracked, Stages, TriageInv
<1>2. Quiet(s, q)
  BY <1>1, KnownIs DEF SeenUntracked, Quiet, Creating, Closers, Mappers, At, Act, Fault, NothingElse, Begins
<1> QED BY <1>1, <1>2, QuietSteps

LEMMA AutoMapKeeps == ASSUME TriageInv, NEW s \in Staff, NEW r \in Languages, AutoMap(s, r) PROVE TriageInv'
<1>1. PICK q \in StaffType : Steps(s, q) /\ q.at = "match" /\ q.title = staff[s].title
  BY BeginsLeads DEF AutoMap, Stages, TriageInv
<1>2. Quiet(s, q)
  BY <1>1, KnownIs DEF AutoMap, Quiet, Creating, Closers, Mappers, At, Act, Fault, NothingElse, Begins
<1> QED BY <1>1, <1>2, QuietSteps

LEMMA UnskipReadKeeps == ASSUME TriageInv, NEW s \in Staff, NEW r \in Languages, UnskipRead(s, r) PROVE TriageInv'
<1>1. PICK q \in StaffType : Steps(s, q) /\ q.at = "unskip" /\ q.title = staff[s].title
  BY BeginsLeads DEF UnskipRead, Stages, TriageInv
<1>2. Quiet(s, q)
  BY <1>1, KnownIs DEF UnskipRead, Quiet, Creating, Closers, Mappers, At, Act, Fault, NothingElse, Begins
<1> QED BY <1>1, <1>2, QuietSteps

LEMMA OrphanedKeeps == ASSUME TriageInv, NEW s \in Staff, NEW r \in Languages, Orphaned(s, r) PROVE TriageInv'
<1>1. PICK q \in StaffType : Steps(s, q) /\ q.at = "reconcile" /\ q.title = staff[s].title
  BY BeginsLeads DEF Orphaned, Stages, TriageInv
<1>2. Quiet(s, q)
  BY <1>1, KnownIs DEF Orphaned, Quiet, Creating, Closers, Mappers, At, Act, Fault, NothingElse, Begins
<1> QED BY <1>1, <1>2, QuietSteps

LEMMA DiesKeeps == ASSUME TriageInv, NEW s \in Staff, Dies(s) PROVE TriageInv'
<1>1. PICK q \in StaffType : Steps(s, q) /\ q.at = "idle" /\ q.title = 0
  BY EndsLeads DEF Dies
<1>3. torn' \in BOOLEAN /\ (torn => torn') /\ (staff[s].at = "release" => torn')
  BY DEF Dies, At
<1>2. Quiet(s, q)
  BY <1>1, <1>3, KnownIs DEF Dies, Quiet, Creating, Closers, Mappers, At, Act, Fault, NothingElse
<1> QED BY <1>1, <1>2, QuietSteps

LEMMA ThrowsKeeps == ASSUME TriageInv, NEW s \in Staff, Throws(s) PROVE TriageInv'
<1>1. PICK q \in StaffType : Steps(s, q) /\ q.at = "fail" /\ q.row = staff[s].row /\ q.title = staff[s].title
  BY GoesLeads DEF Throws, Stages, TriageInv
<1>2. Quiet(s, q)
  BY <1>1, KnownIs DEF Throws, Quiet, Creating, Closers, Mappers, At, Act, Fault, NothingElse
<1> QED BY <1>1, <1>2, QuietSteps

LEMMA TrackKeeps == ASSUME TriageInv, NEW s \in Staff, Track(s) PROVE TriageInv'
<1>1. PICK q \in StaffType : Steps(s, q) /\ q.at = "finish" /\ q.row = staff[s].row /\ q.title = staff[s].title
  BY GoesLeads DEF Track, Stages, TriageInv
<1>2. Quiet(s, q)
  BY <1>1, KnownIs DEF Track, Quiet, Creating, Closers, Mappers, At, Act, Fault, NothingElse, Upsert, TriageInv, TitlesKnown
<1> QED BY <1>1, <1>2, QuietSteps

LEMMA MapWriteKeeps == ASSUME TriageInv, NEW s \in Staff, MapWrite(s) PROVE TriageInv'
<1>1. PICK q \in StaffType : Steps(s, q) /\ q.at = "mapClose" /\ q.row = staff[s].row /\ q.title = staff[s].title
  BY GoesLeads DEF MapWrite, Stages, TriageInv
<1>2. Quiet(s, q)
  BY <1>1, KnownIs DEF MapWrite, Quiet, Creating, Closers, Mappers, At, Act, Fault, NothingElse, Upsert, TriageInv, TitlesKnown
<1> QED BY <1>1, <1>2, QuietSteps

LEMMA MatchKeeps == ASSUME TriageInv, NEW s \in Staff, Match(s) PROVE TriageInv'
<1>1. CASE Ends(s)
  <2>1. PICK q \in StaffType : Steps(s, q) /\ q.at = "idle" /\ q.title = 0
    BY <1>1, EndsLeads
  <2>2. Quiet(s, q)
    BY <2>1, KnownIs DEF Match, Quiet, Creating, Closers, Mappers, At, NothingElse
  <2> QED BY <2>1, <2>2, QuietSteps
<1>2. CASE ~Ends(s)
  <2>1. PICK found \in {MadeTitles, MadeTitles \cup {1}} :
           /\ Cardinality(found) = 1
           /\ staff' = [staff EXCEPT ![s].at = "mapCheck", ![s].title = CHOOSE t \in found : TRUE]
    BY <1>2 DEF Match
  <2>2. found # {}
    BY <2>1, FS_EmptySet
  <2>3. PICK t \in found : t = CHOOSE u \in found : TRUE
    BY <2>2
  <2>4. t \in Nat \ {0} /\ t <= Known
    BY MadeTitlesAre DEF TriageInv
  <2>5. PICK p \in StaffType : p = staff[s]
    BY DEF TriageInv, TriageTypes
  <2>6. PICK q : q = [p EXCEPT !.at = "mapCheck", !.title = t]
    OBVIOUS
  <2>7. q \in StaffType /\ q.at = "mapCheck" /\ q.title = t
    BY <2>4, <2>6 DEF StaffType, Stages
  <2>8. Steps(s, q)
    BY <2>1, <2>3, <2>5, <2>6 DEF Steps
  <2>9. Quiet(s, q)
    BY <2>4, <2>7, KnownIs DEF Match, Quiet, Creating, Closers, Mappers, At, NothingElse
  <2> QED BY <2>7, <2>8, <2>9, QuietSteps
<1> QED BY <1>1, <1>2

LEMMA MapToExistingKeeps ==
  ASSUME TriageInv, NEW s \in Staff, NEW r \in Languages, NEW t \in {1} \cup MadeTitles, MapToExisting(s, r, t)
  PROVE  TriageInv'
<1>1. t \in Nat \ {0} /\ t <= Known
  BY MadeTitlesAre DEF TriageInv
<1>2. PICK p \in StaffType : p = staff[s]
  BY DEF TriageInv, TriageTypes
<1>3. PICK q : q = [p EXCEPT !.at = "mapCheck", !.row = r, !.title = t]
  OBVIOUS
<1>4. q \in StaffType /\ q.at = "mapCheck" /\ q.title = t
  BY <1>1, <1>3 DEF StaffType, Stages
<1>5. Steps(s, q)
  BY <1>2, <1>3 DEF Steps, MapToExisting
<1>6. Quiet(s, q)
  BY <1>1, <1>4, KnownIs DEF MapToExisting, Quiet, Creating, Closers, Mappers, At, Act
<1> QED BY <1>4, <1>5, <1>6, QuietSteps

LEMMA MapCheckKeeps == ASSUME TriageInv, NEW s \in Staff, MapCheck(s) PROVE TriageInv'
<1>1. CASE Ends(s)
  <2>1. PICK q \in StaffType : Steps(s, q) /\ q.at = "idle" /\ q.title = 0
    BY <1>1, EndsLeads
  <2>2. Quiet(s, q)
    BY <2>1, KnownIs DEF MapCheck, Quiet, Creating, Closers, Mappers, At, NothingElse
  <2> QED BY <2>1, <2>2, QuietSteps
<1>2. CASE Goes(s, "mapWrite")
  <2>1. PICK q \in StaffType : Steps(s, q) /\ q.at = "mapWrite" /\ q.row = staff[s].row /\ q.title = staff[s].title
    BY <1>2, GoesLeads DEF Stages, TriageInv
  <2>2. Quiet(s, q)
    BY <2>1, KnownIs DEF MapCheck, Quiet, Creating, Closers, Mappers, At, NothingElse, TriageInv, TitlesKnown
  <2> QED BY <2>1, <2>2, QuietSteps
<1> QED BY <1>1, <1>2 DEF MapCheck

LEMMA CandidateKeeps == ASSUME TriageInv, NEW s \in Staff, NEW r \in Languages, Candidate(s, r) PROVE TriageInv'
<1>0. PICK p \in StaffType, n \in Nat : p = AtRest /\ n = tries[r] /\ p.title = 0
  BY AtRestIs DEF TriageInv, TriageTypes
<1>1. PICK q : q = [p EXCEPT !.at = "claim", !.row = r, !.spent = n, !.auto = TRUE]
  OBVIOUS
<1>2. q \in StaffType /\ q.at = "claim" /\ q.title = 0
  BY <1>0, <1>1 DEF StaffType, Stages
<1>3. Steps(s, q)
  BY <1>0, <1>1 DEF Candidate, Steps
<1>4. Quiet(s, q)
  BY <1>2, KnownIs DEF Candidate, Quiet, Creating, Closers, Mappers, At, NothingElse
<1> QED BY <1>2, <1>3, <1>4, QuietSteps

LEMMA ApproveKeeps == ASSUME TriageInv, NEW s \in Staff, NEW r \in Languages, Approve(s, r) PROVE TriageInv'
<1>0. PICK p \in StaffType, n \in Nat : p = AtRest /\ n = tries[r] /\ p.title = 0
  BY AtRestIs DEF TriageInv, TriageTypes
<1>1. PICK q : q = [p EXCEPT !.at = "reset", !.row = r, !.spent = n]
  OBVIOUS
<1>2. q \in StaffType /\ q.at = "reset" /\ q.title = 0
  BY <1>0, <1>1 DEF StaffType, Stages
<1>3. Steps(s, q)
  BY <1>0, <1>1 DEF Approve, Steps
<1>4. Quiet(s, q)
  BY <1>2, KnownIs DEF Approve, Quiet, Creating, Closers, Mappers, At, Act
<1> QED BY <1>2, <1>3, <1>4, QuietSteps

LEMMA RecheckKeeps == ASSUME TriageInv, NEW s \in Staff, Recheck(s) PROVE TriageInv'
<1>1. PICK p \in StaffType, n \in Nat : p = staff[s] /\ n = mapping
  BY DEF TriageInv, TriageTypes
<1>2. PICK stage \in {"adopt", "search", "commit"} :
         stage = IF mapping # 0 THEN "adopt" ELSE IF staff[s].auto THEN "search" ELSE "commit"
  OBVIOUS
<1>3. PICK q : q = [p EXCEPT !.title = n, !.at = stage]
  OBVIOUS
<1>4. q \in StaffType /\ q.at = stage /\ q.title = n /\ q.row = p.row /\ q.auto = p.auto
  BY <1>3 DEF StaffType, Stages
<1>5. Steps(s, q)
  BY <1>1, <1>2, <1>3 DEF Recheck, Steps
<1>6. stage = "commit" => ~q.auto
  BY <1>1, <1>2, <1>4
<1>7. Quiet(s, q)
  BY <1>1, <1>2, <1>4, <1>6, KnownIs DEF Recheck, Quiet, Creating, Closers, Mappers, At, NothingElse
<1> QED BY <1>4, <1>5, <1>7, QuietSteps

LEMMA SearchTitleKeeps == ASSUME TriageInv, NEW s \in Staff, SearchTitle(s) PROVE TriageInv'
<1>1. CASE Goes(s, "refuse")
  <2>1. PICK q \in StaffType : Steps(s, q) /\ q.at = "refuse" /\ q.row = staff[s].row /\ q.title = staff[s].title
    BY <1>1, GoesLeads DEF Stages, TriageInv
  <2>2. Quiet(s, q)
    BY <2>1, KnownIs DEF SearchTitle, Quiet, Creating, Closers, Mappers, At, NothingElse
  <2> QED BY <2>1, <2>2, QuietSteps
<1>2. CASE MadeTitles = {} /\ Goes(s, "commit")
  <2>1. PICK q \in StaffType : Steps(s, q) /\ q.at = "commit" /\ q.row = staff[s].row /\ q.title = staff[s].title
    BY <1>2, GoesLeads DEF Stages, TriageInv
  <2>2. MadeFor(q.row) = {}
    <3>1. Len(made) \in Nat /\ DOMAIN made = 1..Len(made)
      BY DEF TriageInv, TriageTypes
    <3>2. Len(made) = 0
      BY <1>2, <3>1 DEF MadeTitles
    <3> QED BY <3>1, <3>2 DEF MadeFor
  <2>3. Quiet(s, q)
    BY <2>1, <2>2, KnownIs DEF SearchTitle, Quiet, Creating, Closers, Mappers, At, NothingElse
  <2> QED BY <2>1, <2>3, QuietSteps
<1> QED BY <1>1, <1>2 DEF SearchTitle

LEMMA PasteMappingKeeps ==
  ASSUME TriageInv, NEW s \in Staff, NEW r \in Languages, NEW t \in {1} \cup MadeTitles, PasteMapping(s, r, t)
  PROVE  TriageInv'
<1>1. PICK q \in StaffType : Steps(s, q) /\ q.at = "close" /\ q.title = staff[s].title
  BY BeginsLeads DEF PasteMapping, Stages, TriageInv
<1>2. t \in Nat \ {0} /\ t <= Known
  BY MadeTitlesAre DEF TriageInv
<1>3. Quiet(s, q)
  BY <1>1, <1>2, KnownIs DEF PasteMapping, Begins, Quiet, Creating, Closers, Mappers, At, Act
<1> QED BY <1>1, <1>3, QuietSteps

LEMMA PersistUntrackedKeeps == ASSUME TriageInv, NEW s \in Staff, PersistUntracked(s) PROVE TriageInv'
<1>1. PICK q \in StaffType : Steps(s, q) /\ q.at = "idle" /\ q.title = 0
  BY EndsLeads DEF PersistUntracked
<1>2. PICK v \in States : v = IF state[staff[s].row] = "none" THEN "NEW" ELSE state[staff[s].row]
  BY DEF States, TriageInv, TriageTypes, StaffType
<1>3. named' \in [Languages -> Nat] /\ \A r \in Languages : named'[r] <= Known
  BY KnownIs DEF PersistUntracked, Tracked, TriageInv, TriageTypes, TitlesKnown
<1>4. tries' \in [Languages -> Nat]
  BY DEF PersistUntracked, TriageInv, TriageTypes
<1>5. torn' \in BOOLEAN /\ (torn => torn') /\ (v = "TRACKED" => torn' \/ mapping # 0 \/ state[staff[s].row] = "TRACKED")
      /\ (state[staff[s].row] = "CREATING" => torn' \/ staff[s].at \in Creating \/ v = "CREATING")
  BY <1>2, KnownIs DEF PersistUntracked, At, NothingElse, TriageInv, MappingBehind, Closers, Creating
<1>6. Leaves(s, q, v)
  BY <1>1, <1>2, <1>3, <1>4, <1>5, KnownIs DEF PersistUntracked, Leaves, At, Tracked, NothingElse
<1> QED BY <1>1, <1>2, <1>6, LeavesSteps

LEMMA MapCloseKeeps == ASSUME TriageInv, NEW s \in Staff, MapClose(s) PROVE TriageInv'
<1>1. PICK q \in StaffType : Steps(s, q) /\ q.at = "idle" /\ q.title = 0
  BY EndsLeads DEF MapClose
<1>2. PICK v \in States : v = "TRACKED"
  BY DEF States
<1>3. named' \in [Languages -> Nat] /\ \A r \in Languages : named'[r] <= Known
  BY KnownIs DEF MapClose, Tracked, TriageInv, TriageTypes, TitlesKnown
<1>4. tries' \in [Languages -> Nat]
  BY DEF MapClose, TriageInv, TriageTypes
<1>5. torn' \in BOOLEAN /\ (torn => torn') /\ (v = "TRACKED" => torn' \/ mapping # 0 \/ state[staff[s].row] = "TRACKED")
      /\ (state[staff[s].row] = "CREATING" => torn' \/ staff[s].at \in Creating \/ v = "CREATING")
  BY <1>2, KnownIs DEF MapClose, At, NothingElse, TriageInv, MappingBehind, Closers, Creating
<1>6. Leaves(s, q, v)
  BY <1>1, <1>2, <1>3, <1>4, <1>5, KnownIs DEF MapClose, Leaves, At, Tracked, NothingElse
<1> QED BY <1>1, <1>2, <1>6, LeavesSteps

LEMMA AdoptKeeps == ASSUME TriageInv, NEW s \in Staff, Adopt(s) PROVE TriageInv'
<1>1. PICK q \in StaffType : Steps(s, q) /\ q.at = "idle" /\ q.title = 0
  BY EndsLeads DEF Adopt
<1>2. PICK v \in States : v = "TRACKED"
  BY DEF States
<1>3. named' \in [Languages -> Nat] /\ \A r \in Languages : named'[r] <= Known
  BY KnownIs DEF Adopt, Tracked, TriageInv, TriageTypes, TitlesKnown
<1>4. tries' \in [Languages -> Nat]
  BY DEF Adopt, TriageInv, TriageTypes
<1>5. torn' \in BOOLEAN /\ (torn => torn') /\ (v = "TRACKED" => torn' \/ mapping # 0 \/ state[staff[s].row] = "TRACKED")
      /\ (state[staff[s].row] = "CREATING" => torn' \/ staff[s].at \in Creating \/ v = "CREATING")
  BY <1>2, KnownIs DEF Adopt, At, NothingElse, TriageInv, MappingBehind, Closers, Creating
<1>6. Leaves(s, q, v)
  BY <1>1, <1>2, <1>3, <1>4, <1>5, KnownIs DEF Adopt, Leaves, At, Tracked, NothingElse
<1> QED BY <1>1, <1>2, <1>6, LeavesSteps

LEMMA RefuseKeeps == ASSUME TriageInv, NEW s \in Staff, Refuse(s) PROVE TriageInv'
<1>1. PICK q \in StaffType : Steps(s, q) /\ q.at = "idle" /\ q.title = 0
  BY EndsLeads DEF Refuse
<1>2. PICK v \in States : v = "FAILED"
  BY DEF States
<1>3. named' \in [Languages -> Nat] /\ \A r \in Languages : named'[r] <= Known
  BY KnownIs DEF Refuse, Tracked, TriageInv, TriageTypes, TitlesKnown
<1>4. tries' \in [Languages -> Nat]
  BY DEF Refuse, TriageInv, TriageTypes
<1>5. torn' \in BOOLEAN /\ (torn => torn') /\ (v = "TRACKED" => torn' \/ mapping # 0 \/ state[staff[s].row] = "TRACKED")
      /\ (state[staff[s].row] = "CREATING" => torn' \/ staff[s].at \in Creating \/ v = "CREATING")
  BY <1>2, KnownIs DEF Refuse, At, NothingElse, TriageInv, MappingBehind, Closers, Creating
<1>6. Leaves(s, q, v)
  BY <1>1, <1>2, <1>3, <1>4, <1>5, KnownIs DEF Refuse, Leaves, At, Tracked, NothingElse
<1> QED BY <1>1, <1>2, <1>6, LeavesSteps

LEMMA FinishKeeps == ASSUME TriageInv, NEW s \in Staff, Finish(s) PROVE TriageInv'
<1>1. PICK q \in StaffType : Steps(s, q) /\ q.at = "idle" /\ q.title = 0
  BY EndsLeads DEF Finish
<1>2. PICK v \in States : v = "TRACKED"
  BY DEF States
<1>3. named' \in [Languages -> Nat] /\ \A r \in Languages : named'[r] <= Known
  BY KnownIs DEF Finish, Tracked, TriageInv, TriageTypes, TitlesKnown
<1>4. tries' \in [Languages -> Nat]
  BY DEF Finish, TriageInv, TriageTypes
<1>5. torn' \in BOOLEAN /\ (torn => torn') /\ (v = "TRACKED" => torn' \/ mapping # 0 \/ state[staff[s].row] = "TRACKED")
      /\ (state[staff[s].row] = "CREATING" => torn' \/ staff[s].at \in Creating \/ v = "CREATING")
  BY <1>2, KnownIs DEF Finish, At, NothingElse, TriageInv, MappingBehind, Closers, Creating
<1>6. Leaves(s, q, v)
  BY <1>1, <1>2, <1>3, <1>4, <1>5, KnownIs DEF Finish, Leaves, At, Tracked, NothingElse
<1> QED BY <1>1, <1>2, <1>6, LeavesSteps

LEMMA GiveBackKeeps == ASSUME TriageInv, NEW s \in Staff, GiveBack(s) PROVE TriageInv'
<1>1. PICK q \in StaffType : Steps(s, q) /\ q.at = "idle" /\ q.title = 0
  BY EndsLeads DEF GiveBack
<1>2. PICK v \in States : v = IF staff[s].spent + 1 >= Attempts THEN "FAILED" ELSE "NEW"
  BY DEF States
<1>3. named' \in [Languages -> Nat] /\ \A r \in Languages : named'[r] <= Known
  BY KnownIs DEF GiveBack, Tracked, TriageInv, TriageTypes, TitlesKnown
<1>4. tries' \in [Languages -> Nat]
  BY DEF GiveBack, TriageInv, TriageTypes
<1>5. torn' \in BOOLEAN /\ (torn => torn') /\ (v = "TRACKED" => torn' \/ mapping # 0 \/ state[staff[s].row] = "TRACKED")
      /\ (state[staff[s].row] = "CREATING" => torn' \/ staff[s].at \in Creating \/ v = "CREATING")
  BY <1>2, KnownIs DEF GiveBack, At, NothingElse, TriageInv, MappingBehind, Closers, Creating
<1>6. Leaves(s, q, v)
  BY <1>1, <1>2, <1>3, <1>4, <1>5, KnownIs DEF GiveBack, Leaves, At, Tracked, NothingElse
<1> QED BY <1>1, <1>2, <1>6, LeavesSteps

LEMMA UnskipKeeps == ASSUME TriageInv, NEW s \in Staff, Unskip(s) PROVE TriageInv'
<1>1. PICK q \in StaffType : Steps(s, q) /\ q.at = "idle" /\ q.title = 0
  BY EndsLeads DEF Unskip
<1>2. PICK v \in States : v = IF state[staff[s].row] = "SKIPPED" THEN "NEW" ELSE state[staff[s].row]
  BY DEF States, TriageInv, TriageTypes, StaffType
<1>3. named' \in [Languages -> Nat] /\ \A r \in Languages : named'[r] <= Known
  BY KnownIs DEF Unskip, Tracked, TriageInv, TriageTypes, TitlesKnown
<1>4. tries' \in [Languages -> Nat]
  BY DEF Unskip, TriageInv, TriageTypes
<1>5. torn' \in BOOLEAN /\ (torn => torn') /\ (v = "TRACKED" => torn' \/ mapping # 0 \/ state[staff[s].row] = "TRACKED")
      /\ (state[staff[s].row] = "CREATING" => torn' \/ staff[s].at \in Creating \/ v = "CREATING")
  BY <1>2, KnownIs DEF Unskip, At, NothingElse, TriageInv, MappingBehind, Closers, Creating
<1>6. Leaves(s, q, v)
  BY <1>1, <1>2, <1>3, <1>4, <1>5, KnownIs DEF Unskip, Leaves, At, Tracked, NothingElse
<1> QED BY <1>1, <1>2, <1>6, LeavesSteps

LEMMA ReconcileKeeps == ASSUME TriageInv, NEW s \in Staff, Reconcile(s) PROVE TriageInv'
<1>1. PICK q \in StaffType : Steps(s, q) /\ q.at = "idle" /\ q.title = 0
  BY EndsLeads DEF Reconcile
<1>2. PICK v \in States : v = "SKIPPED"
  BY DEF States
<1>3. named' \in [Languages -> Nat] /\ \A r \in Languages : named'[r] <= Known
  BY KnownIs DEF Reconcile, Tracked, TriageInv, TriageTypes, TitlesKnown
<1>4. tries' \in [Languages -> Nat]
  BY DEF Reconcile, TriageInv, TriageTypes
<1>5. torn' \in BOOLEAN /\ (torn => torn') /\ (v = "TRACKED" => torn' \/ mapping # 0 \/ state[staff[s].row] = "TRACKED")
      /\ (state[staff[s].row] = "CREATING" => torn' \/ staff[s].at \in Creating \/ v = "CREATING")
  BY <1>2, KnownIs DEF Reconcile, At, NothingElse, TriageInv, MappingBehind, Closers, Creating
<1>6. Leaves(s, q, v)
  BY <1>1, <1>2, <1>3, <1>4, <1>5, KnownIs DEF Reconcile, Leaves, At, Tracked, NothingElse
<1> QED BY <1>1, <1>2, <1>6, LeavesSteps

LEMMA CloseRowKeeps == ASSUME TriageInv, NEW s \in Staff, CloseRow(s) PROVE TriageInv'
<1>1. PICK q \in StaffType : Steps(s, q) /\ q.at = "idle" /\ q.title = 0
  BY EndsLeads DEF CloseRow
<1>2. PICK v \in States : v = "TRACKED"
  BY DEF States
<1>3. named' \in [Languages -> Nat] /\ \A r \in Languages : named'[r] <= Known
  BY KnownIs DEF CloseRow, Tracked, TriageInv, TriageTypes, TitlesKnown
<1>4. tries' \in [Languages -> Nat]
  BY DEF CloseRow, TriageInv, TriageTypes
<1>5. torn' \in BOOLEAN /\ (torn => torn') /\ (v = "TRACKED" => torn' \/ mapping # 0 \/ state[staff[s].row] = "TRACKED")
      /\ (state[staff[s].row] = "CREATING" => torn' \/ staff[s].at \in Creating \/ v = "CREATING")
  BY <1>2, KnownIs DEF CloseRow, At, NothingElse, TriageInv, MappingBehind, Closers, Creating
<1>6. Leaves(s, q, v)
  BY <1>1, <1>2, <1>3, <1>4, <1>5, KnownIs DEF CloseRow, Leaves, At, Tracked, NothingElse
<1> QED BY <1>1, <1>2, <1>6, LeavesSteps

LEMMA FreshBudgetKeeps == ASSUME TriageInv, NEW s \in Staff, FreshBudget(s) PROVE TriageInv'
<1>1. PICK q \in StaffType : Steps(s, q) /\ q.at = "claim" /\ q.row = staff[s].row /\ q.title = staff[s].title
  BY GoesLeads DEF FreshBudget, Stages, TriageInv
<1>2. PICK v \in States : v = IF state[staff[s].row] = "FAILED" THEN "NEW" ELSE state[staff[s].row]
  BY DEF States, TriageInv, TriageTypes, StaffType
<1>3. state' = [state EXCEPT ![staff[s].row] = v]
  BY <1>2, KnownIs DEF FreshBudget, TriageInv, TriageTypes
<1>4. tries' \in [Languages -> Nat]
  BY DEF FreshBudget, TriageInv, TriageTypes
<1>5. named' \in [Languages -> Nat] /\ \A r \in Languages : named'[r] <= Known
  BY DEF FreshBudget, TriageInv, TriageTypes, TitlesKnown
<1>6. Leaves(s, q, v)
  BY <1>1, <1>2, <1>3, <1>4, <1>5, KnownIs DEF FreshBudget, Leaves, At, NothingElse
<1> QED BY <1>1, <1>2, <1>6, LeavesSteps

LEMMA ClaimKeeps == ASSUME TriageInv, NEW s \in Staff, Claim(s) PROVE TriageInv'
<1> DEFINE r == staff[s].row
<1>1. CASE ~Unclaimed(r)
  <2>1. PICK q \in StaffType : Steps(s, q) /\ q.at = "idle" /\ q.title = 0
    BY <1>1, EndsLeads DEF Claim
  <2>2. Quiet(s, q)
    BY <1>1, <2>1, KnownIs DEF Claim, Quiet, Creating, Closers, Mappers, At, NothingElse, rowVars
  <2> QED BY <2>1, <2>2, QuietSteps
<1>2. CASE Unclaimed(r)
  <2>1. PICK q \in StaffType : Steps(s, q) /\ q.at = "recheck" /\ q.row = r /\ q.title = staff[s].title
    BY <1>2, GoesLeads DEF Claim, Stages, TriageInv
  <2>2. /\ state' = [state EXCEPT ![r] = "CREATING"] /\ tries' = [tries EXCEPT ![r] = @ + 1]
        /\ UNCHANGED <<named, mapping, made, acts, faults, torn>> /\ staff[s].at = "claim" /\ state[r] = "NEW"
    BY <1>2 DEF Claim, At, NothingElse, Unclaimed
  <2>3. r \in Languages
    BY KnownIs
  <2> HIDE DEF r
  <2>4. state'[r] = "CREATING" /\ \A t \in Languages \ {r} : state'[t] = state[t]
    BY <2>2, <2>3 DEF TriageInv, TriageTypes
  <2>5. staff' \in [Staff -> StaffType] /\ staff'[s] = q /\ \A t \in Staff \ {s} : staff'[t] = staff[t]
    BY <2>1 DEF Steps, TriageInv, TriageTypes
  <2>6. TriageTypes'
    <3>1. tries' \in [Languages -> Nat] /\ state' \in [Languages -> States]
      BY <2>2, <2>3 DEF TriageInv, TriageTypes, States
    <3> QED BY <2>2, <2>5, <3>1 DEF TriageInv, TriageTypes
  <2>7. TitlesKnown'
    BY <2>1, <2>2, <2>5 DEF TriageInv, TitlesKnown, Known, Mappers
  <2>8. RowsHeld'
    <3>1. RowsCare(s, q)
      BY <2>1, <2>2, <2>4 DEF RowsCare
    <3> QED BY <2>1, <2>2, <3>1, RowsStep DEF TriageInv
  <2>9. MappingBehind'
    <3>1. MapCare(s, q)
      BY <2>1, <2>2, <2>3, <2>4 DEF MapCare, Closers
    <3> QED BY <2>1, <2>2, <3>1, MapStep DEF TriageInv
  <2>10. FirstOfRow'
    <3>1. FirstCare(s, q)
      BY <2>1, <2>2 DEF FirstCare
    <3> QED BY <2>1, <2>2, <3>1, FirstStep DEF TriageInv
  <2> QED BY <2>6, <2>7, <2>8, <2>9, <2>10 DEF TriageInv
<1> QED BY <1>1, <1>2

LEMMA CommitKeeps == ASSUME TriageInv, NEW s \in Staff, Commit(s) PROVE TriageInv'
<1>0. /\ Known \in Nat /\ staff[s].at = "commit" /\ staff[s].row \in Languages
      /\ made' = Append(made, staff[s].row) /\ UNCHANGED <<rowVars, mapping, acts, torn>>
  BY KnownIs DEF Commit, At
<1>1. made' \in Seq(Languages) /\ Len(made') + 1 = Known + 1 /\ Len(made) \in Nat
  BY <1>0 DEF TriageInv, TriageTypes, Known
<1>2. PICK q \in StaffType : /\ Steps(s, q) /\ q.at \in {"track", "fail"} /\ q.row = staff[s].row /\ q.title <= Known + 1
                             /\ q.at = "track" => q.title # 0
  <2>1. CASE staff' = [staff EXCEPT ![s].at = "track", ![s].title = Len(made) + 2]
    <3>1. PICK p \in StaffType, n \in Nat : p = staff[s] /\ n = Len(made) + 2
      BY <1>1 DEF TriageInv, TriageTypes
    <3>2. PICK q : q = [p EXCEPT !.at = "track", !.title = n]
      OBVIOUS
    <3>3. q \in StaffType /\ q.at = "track" /\ q.row = p.row /\ q.title = n
      BY <3>2 DEF StaffType, Stages
    <3>4. Steps(s, q)
      BY <2>1, <3>1, <3>2 DEF Steps
    <3>5. n <= Known + 1 /\ n # 0
      BY <1>1, <3>1 DEF Known
    <3> QED BY <3>1, <3>3, <3>4, <3>5
  <2>2. CASE Goes(s, "fail")
    <3>1. PICK q \in StaffType : Steps(s, q) /\ q.at = "fail" /\ q.row = staff[s].row /\ q.title = staff[s].title
      BY <2>2, GoesLeads DEF Stages, TriageInv
    <3>2. q.title <= Known + 1
      BY <3>1, KnownIs
    <3> QED BY <3>1, <3>2
  <2> QED BY <2>1, <2>2 DEF Commit
<1>3. staff' \in [Staff -> StaffType] /\ staff'[s] = q /\ \A t \in Staff \ {s} : staff'[t] = staff[t]
  BY <1>2 DEF Steps, TriageInv, TriageTypes
<1>4. TriageTypes'
  <2>1. faults' \in Nat
    BY KnownIs DEF Commit, Fault
  <2> QED BY <1>0, <1>1, <1>3, <2>1 DEF TriageInv, TriageTypes, rowVars
<1>5. TitlesKnown'
  <2>1. Known' = Known + 1
    BY <1>1 DEF Known
  <2>2. \A t \in Staff : staff[t].title \in Nat
    BY DEF TriageInv, TriageTypes, StaffType
  <2>3. \A t \in Staff \ {s} : staff'[t].title <= Known + 1 /\ (staff'[t].at \in Mappers => staff'[t].title # 0)
    BY <1>0, <1>3, <2>2 DEF TriageInv, TitlesKnown
  <2>4. q.title <= Known + 1 /\ (q.at \in Mappers => q.title # 0)
    BY <1>2 DEF Mappers
  <2>5. mapping' <= Known + 1 /\ \A r \in Languages : named'[r] <= Known + 1
    BY <1>0 DEF TriageInv, TitlesKnown, TriageTypes, rowVars
  <2> QED BY <1>3, <2>1, <2>3, <2>4, <2>5 DEF TitlesKnown
<1>6. RowsHeld'
  <2>1. RowsCare(s, q)
    BY <1>0, <1>2 DEF RowsCare, TriageInv, RowsHeld, Creating, rowVars
  <2> QED BY <1>0, <1>2, <2>1, RowsStep DEF TriageInv
<1>7. MappingBehind'
  <2>1. MapCare(s, q)
    BY <1>0, <1>2 DEF MapCare, Closers, rowVars
  <2> QED BY <1>0, <1>2, <2>1, MapStep DEF TriageInv
<1>8. FirstOfRow'
  <2>1. FirstCare(s, q)
    BY <1>0, <1>2 DEF FirstCare, Creating
  <2> QED BY <1>0, <1>2, <2>1, FirstStep DEF TriageInv
<1> QED BY <1>4, <1>5, <1>6, <1>7, <1>8 DEF TriageInv

LEMMA RemoveMappingKeeps == ASSUME TriageInv, NEW s \in Staff, RemoveMapping(s) PROVE TriageInv'
<1>1. PICK q \in StaffType : Steps(s, q) /\ q.at = "release" /\ q.title = staff[s].title
  BY BeginsLeads, AtRestIs DEF RemoveMapping, Stages, TriageInv, StaffType
<1>2. /\ UNCHANGED <<rowVars, made, faults>> /\ mapping' = 0 /\ acts' \in Nat
      /\ torn' \in BOOLEAN /\ (torn => torn') /\ (Closing => torn')
  <2>1. torn' \in BOOLEAN /\ (torn => torn') /\ (Closing => torn')
    BY DEF RemoveMapping, Closing
  <2>2. UNCHANGED <<rowVars, made, faults>> /\ mapping' = 0 /\ acts' \in Nat
    BY KnownIs DEF RemoveMapping, Act
  <2> QED BY <2>1, <2>2
<1>3. staff' \in [Staff -> StaffType] /\ staff'[s] = q /\ \A t \in Staff \ {s} : staff'[t] = staff[t]
  BY <1>1 DEF Steps, TriageInv, TriageTypes
<1>4. TriageTypes'
  BY <1>2, <1>3 DEF TriageInv, TriageTypes, rowVars
<1>5. TitlesKnown'
  BY <1>1, <1>2, <1>3, KnownIs DEF TriageInv, TitlesKnown, Known, Mappers, rowVars
<1>6. RowsHeld'
  <2>1. RowsCare(s, q)
    BY <1>1, <1>2 DEF RowsCare, Creating, rowVars
  <2> QED BY <1>1, <1>2, <2>1, RowsStep DEF TriageInv
<1>7. MappingBehind'
  <2>1. MapCare(s, q)
    BY <1>1, <1>2 DEF MapCare, Closers, Closing
  <2> QED BY <1>1, <1>2, <2>1, MapStep DEF TriageInv
<1>8. FirstOfRow'
  <2>1. FirstCare(s, q)
    BY <1>1, <1>2 DEF FirstCare
  <2> QED BY <1>1, <1>2, <2>1, FirstStep DEF TriageInv
<1> QED BY <1>4, <1>5, <1>6, <1>7, <1>8 DEF TriageInv

(* The rows that said TRACKED do so no more, and nothing else changes.      *)
LEMMA RowsReleased ==
  ASSUME TriageTypes, ReleaseQueueRows
  PROVE  /\ state' \in [Languages -> States] /\ \A r \in Languages : state'[r] # "TRACKED"
         /\ \A r \in Languages : state[r] = "CREATING" => state'[r] = "CREATING"
BY DEF TriageTypes, ReleaseQueueRows, States

LEMMA ReleaseKeeps == ASSUME TriageInv, NEW s \in Staff, Release(s) PROVE TriageInv'
<1>1. PICK q \in StaffType : Steps(s, q) /\ q.at = "idle" /\ q.title = 0
  BY EndsLeads DEF Release
<1>2. /\ UNCHANGED <<named, tries, mapping, made, acts, faults, torn>>
      /\ state' \in [Languages -> States] /\ (\A r \in Languages : state'[r] # "TRACKED")
      /\ (\A r \in Languages : state[r] = "CREATING" => state'[r] = "CREATING")
  BY RowsReleased DEF Release, NothingElse, TriageInv
<1>3. staff' \in [Staff -> StaffType] /\ staff'[s] = q /\ \A t \in Staff \ {s} : staff'[t] = staff[t]
  BY <1>1 DEF Steps, TriageInv, TriageTypes
<1>4. TriageTypes'
  BY <1>2, <1>3 DEF TriageInv, TriageTypes
<1>5. TitlesKnown'
  BY <1>1, <1>2, <1>3, KnownIs DEF TriageInv, TitlesKnown, Known, Mappers
<1>6. RowsHeld'
  <2>1. RowsCare(s, q)
    BY <1>1, <1>2 DEF RowsCare, Creating
  <2> QED BY <1>1, <1>2, <2>1, RowsStep DEF TriageInv
<1>7. MappingBehind'
  <2>1. MapCare(s, q)
    BY <1>1, <1>2 DEF MapCare, Closers
  <2> QED BY <1>1, <1>2, <2>1, MapStep DEF TriageInv
<1>8. FirstOfRow'
  <2>1. FirstCare(s, q)
    BY <1>1, <1>2 DEF FirstCare
  <2> QED BY <1>1, <1>2, <2>1, FirstStep DEF TriageInv
<1> QED BY <1>4, <1>5, <1>6, <1>7, <1>8 DEF TriageInv

(* What operators do without reading first.                                 *)
LEMMA SkipKeeps == ASSUME TriageInv, NEW r \in Languages, Skip(r) PROVE TriageInv'
<1>1. /\ UNCHANGED <<named, tries, mapping, made, staff, faults, torn>> /\ acts' \in Nat
      /\ state' = [state EXCEPT ![r] = "SKIPPED"] /\ state[r] \in {"NEW", "FAILED"}
  BY DEF Skip, Act, TriageInv, TriageTypes
<1>2. /\ state' \in [Languages -> States] /\ state'[r] = "SKIPPED"
      /\ \A t \in Languages \ {r} : state'[t] = state[t]
  BY <1>1 DEF TriageInv, TriageTypes, States
<1>3. TriageTypes'
  BY <1>1, <1>2 DEF TriageInv, TriageTypes
<1>4. TitlesKnown'
  BY <1>1 DEF TriageInv, TitlesKnown, Known
<1>5. RowsHeld'
  <2>1. \A t \in Staff : staff[t].at \in Creating /\ ~torn => state'[staff[t].row] = "CREATING"
    BY <1>1, <1>2 DEF TriageInv, RowsHeld, TriageTypes, StaffType
  <2> QED BY <1>1, <2>1 DEF TriageInv, RowsHeld, OneCreator
<1>6. MappingBehind'
  BY <1>1, <1>2 DEF TriageInv, MappingBehind, TrackedIsMapped, At
<1>7. FirstOfRow'
  BY <1>1 DEF TriageInv, FirstOfRow, At, MadeFor
<1> QED BY <1>3, <1>4, <1>5, <1>6, <1>7 DEF TriageInv

LEMMA SetMappingKeeps == ASSUME TriageInv, NEW t \in {1} \cup MadeTitles, SetMapping(t) PROVE TriageInv'
<1>1. /\ UNCHANGED <<rowVars, made, staff, faults, torn>> /\ acts' \in Nat
      /\ mapping' = t /\ t \in Nat \ {0} /\ t <= Known
  BY MadeTitlesAre DEF SetMapping, Act, TriageInv, TriageTypes
<1>2. TriageTypes'
  BY <1>1 DEF TriageInv, TriageTypes, rowVars
<1>3. TitlesKnown'
  BY <1>1 DEF TriageInv, TitlesKnown, Known, rowVars
<1>4. RowsHeld'
  BY <1>1 DEF TriageInv, RowsHeld, OneCreator, rowVars
<1>5. MappingBehind'
  BY <1>1 DEF MappingBehind, TrackedIsMapped, At
<1>6. FirstOfRow'
  BY <1>1 DEF TriageInv, FirstOfRow, At, MadeFor
<1> QED BY <1>2, <1>3, <1>4, <1>5, <1>6 DEF TriageInv

LEMMA RemoveMappingsKeeps == ASSUME TriageInv, RemoveMappings PROVE TriageInv'
<1>1. /\ UNCHANGED <<named, tries, made, staff, faults>> /\ acts' \in Nat /\ mapping' = 0
      /\ torn' \in BOOLEAN /\ (torn => torn') /\ (Closing => torn')
      /\ state' \in [Languages -> States] /\ (\A r \in Languages : state'[r] # "TRACKED")
      /\ (\A r \in Languages : state[r] = "CREATING" => state'[r] = "CREATING")
  <2>1. torn' \in BOOLEAN /\ (torn => torn') /\ (Closing => torn')
    BY DEF RemoveMappings, Closing
  <2>2. UNCHANGED <<named, tries, made, staff, faults>> /\ acts' \in Nat /\ mapping' = 0 /\ ReleaseQueueRows
    BY DEF RemoveMappings, Act, TriageInv, TriageTypes
  <2> QED BY <2>1, <2>2, RowsReleased DEF TriageInv
<1>2. TriageTypes'
  BY <1>1 DEF TriageInv, TriageTypes
<1>3. TitlesKnown'
  <2>1. 0 <= Known
    BY DEF Known, TriageInv, TriageTypes
  <2> QED BY <1>1, <2>1 DEF TriageInv, TitlesKnown, Known
<1>4. RowsHeld'
  <2>1. \A t \in Staff : staff[t].at \in Creating /\ ~torn => state'[staff[t].row] = "CREATING"
    BY <1>1 DEF TriageInv, RowsHeld, TriageTypes, StaffType
  <2> QED BY <1>1, <2>1 DEF TriageInv, RowsHeld, OneCreator
<1>5. MappingBehind'
  BY <1>1 DEF MappingBehind, TrackedIsMapped, At, Closing, Closers
<1>6. FirstOfRow'
  BY <1>1 DEF TriageInv, FirstOfRow, At, MadeFor
<1> QED BY <1>2, <1>3, <1>4, <1>5, <1>6 DEF TriageInv

LEMMA TriageStutters == ASSUME TriageInv, UNCHANGED titleVars PROVE TriageInv'
<1> USE DEF TriageInv, titleVars, rowVars
<1>1. TriageTypes' /\ TitlesKnown'
  BY DEF TriageTypes, TitlesKnown, Known
<1>2. RowsHeld' /\ MappingBehind' /\ FirstOfRow'
  BY DEF RowsHeld, OneCreator, MappingBehind, TrackedIsMapped, FirstOfRow, At, MadeFor
<1> QED BY <1>1, <1>2

LEMMA TitlesSteps == TriageInv /\ [TitlesNext]_titleVars => TriageInv'
<1> SUFFICES ASSUME TriageInv, [TitlesNext]_titleVars PROVE TriageInv'
  OBVIOUS
<1>1. ASSUME NEW s \in Staff, Serves(s) PROVE TriageInv'
  BY <1>1, PersistUntrackedKeeps, MatchKeeps, MapCheckKeeps, MapWriteKeeps, MapCloseKeeps, FreshBudgetKeeps, ClaimKeeps,
     RecheckKeeps, AdoptKeeps, SearchTitleKeeps, RefuseKeeps, CommitKeeps, TrackKeeps, FinishKeeps, ThrowsKeeps,
     GiveBackKeeps, DiesKeeps, SeenUntrackedKeeps, AutoMapKeeps, CandidateKeeps DEF Serves
<1>2. ASSUME NEW s \in Staff, Operates(s) PROVE TriageInv'
  BY <1>2, ApproveKeeps, UnskipReadKeeps, OrphanedKeeps, MapToExistingKeeps, PasteMappingKeeps, UnskipKeeps,
     ReconcileKeeps, CloseRowKeeps, RemoveMappingKeeps, ReleaseKeeps DEF Operates
<1>3. CASE UNCHANGED titleVars
  BY <1>3, TriageStutters
<1> QED BY <1>1, <1>2, <1>3, SkipKeeps, SetMappingKeeps, RemoveMappingsKeeps DEF TitlesNext

(* The attempts of a row, and the failures that paid for them.              *)
Elsewhere(s) == \A t \in Staff \ {s} : staff'[t] = staff[t]

LEMMA ThrowingIs ==
  ASSUME TriageTypes, NEW r \in Languages
  PROVE  IsFiniteSet(Throwing(r)) /\ Cardinality(Throwing(r)) \in Nat
BY TitlesBounds, FS_Subset, FS_CardinalityType DEF Throwing

PaidCare(s) == \A r \in Languages :
  \/ tries'[r] = 0
  \/ tries'[r] = tries[r] /\ (Free(r)' => Free(r) \/ (staff[s].at = "fail" /\ staff[s].row = r))
  \/ tries'[r] = tries[r] + 1 /\ Free(r) /\ ~Free(r)'

LEMMA PaidStep ==
  ASSUME TriageTypes, Paid, NEW s \in Staff, Elsewhere(s), staff'[s].at # "fail",
         faults' \in Nat, faults' >= faults, tries' \in [Languages -> Nat], PaidCare(s)
  PROVE  Paid'
<1> SUFFICES ASSUME NEW r \in Languages
             PROVE  /\ Cardinality(Throwing(r)') <= faults'
                    /\ tries'[r] + Cardinality(Throwing(r)') <= faults' + (IF Free(r)' THEN 0 ELSE 1)
  BY DEF Paid
<1>1. Throwing(r)' = Throwing(r) \ {s}
  BY DEF Throwing, Elsewhere
<1>2. PICK n \in Nat : n = Cardinality(Throwing(r))
  BY ThrowingIs
<1>3. PICK m \in Nat : m = Cardinality(Throwing(r)') /\ m <= n /\ (staff[s].at = "fail" /\ staff[s].row = r => m = n - 1)
  <2>0. staff[s].at = "fail" /\ staff[s].row = r <=> s \in Throwing(r)
    BY DEF Throwing
  <2>1. CASE s \in Throwing(r)
    <3>0. IsFiniteSet(Throwing(r) \ {s})
      BY ThrowingIs, FS_Subset
    <3>1. Cardinality(Throwing(r) \ {s}) = n - 1 /\ n - 1 \in Nat
      BY <1>2, <2>1, <3>0, ThrowingIs, FS_RemoveElement, FS_CardinalityType
    <3>2. Cardinality(Throwing(r)') = n - 1 /\ n - 1 <= n
      BY <1>1, <1>2, <3>1
    <3> QED BY <3>1, <3>2
  <2>2. CASE s \notin Throwing(r)
    <3>1. Throwing(r) \ {s} = Throwing(r)
      BY <2>2
    <3>2. Cardinality(Throwing(r)') = n /\ n <= n
      BY <1>1, <1>2, <3>1
    <3> QED BY <2>0, <2>2, <3>2
  <2> QED BY <2>1, <2>2
<1>4. PICK e \in {0, 1}, f \in {0, 1} : e = (IF Free(r) THEN 0 ELSE 1) /\ f = IF Free(r)' THEN 0 ELSE 1
  OBVIOUS
<1>5. n <= faults /\ tries[r] + n <= faults + e /\ tries[r] \in Nat /\ faults \in Nat /\ tries'[r] \in Nat
  BY <1>2, <1>4 DEF Paid, TriageTypes
<1>6. m <= faults' /\ tries'[r] + m <= faults' + f
  <2>1. CASE tries'[r] = 0
    BY <1>3, <1>5, <2>1
  <2>2. CASE tries'[r] = tries[r] /\ (Free(r)' => Free(r) \/ (staff[s].at = "fail" /\ staff[s].row = r))
    <3>1. f = 0 => e = 0 \/ m = n - 1
      BY <1>3, <1>4, <2>2
    <3> QED BY <1>3, <1>5, <2>2, <3>1
  <2>3. CASE tries'[r] = tries[r] + 1 /\ Free(r) /\ ~Free(r)'
    BY <1>3, <1>4, <1>5, <2>3
  <2> QED BY <2>1, <2>2, <2>3 DEF PaidCare
<1> QED BY <1>3, <1>4, <1>6

LEMMA PaidFailure ==
  ASSUME TriageTypes, Paid, NEW s \in Staff, Elsewhere(s), staff[s].at # "fail",
         staff'[s].at = "fail", staff'[s].row = staff[s].row, faults' = faults + 1, UNCHANGED <<state, tries>>
  PROVE  Paid'
<1> SUFFICES ASSUME NEW r \in Languages
             PROVE  /\ Cardinality(Throwing(r)') <= faults'
                    /\ tries'[r] + Cardinality(Throwing(r)') <= faults' + (IF Free(r)' THEN 0 ELSE 1)
  BY DEF Paid
<1>1. Throwing(r)' \in {Throwing(r), Throwing(r) \cup {s}} /\ s \notin Throwing(r)
  BY DEF Throwing, Elsewhere
<1>2. PICK n \in Nat : n = Cardinality(Throwing(r))
  BY ThrowingIs
<1>3. PICK m \in Nat : m = Cardinality(Throwing(r)') /\ m <= n + 1
  <2>1. Cardinality(Throwing(r) \cup {s}) = n + 1
    BY <1>1, <1>2, ThrowingIs, FS_AddElement
  <2> QED BY <1>1, <1>2, <2>1
<1>4. PICK e \in {0, 1} : e = IF Free(r) THEN 0 ELSE 1
  OBVIOUS
<1>5. n <= faults /\ tries[r] + n <= faults + e /\ tries[r] \in Nat /\ faults \in Nat
  BY <1>2, <1>4 DEF Paid, TriageTypes
<1>6. m <= faults' /\ tries'[r] + m <= faults' + e
  BY <1>3, <1>5
<1>7. Free(r)' <=> Free(r)
  BY DEF Free
<1> QED BY <1>3, <1>4, <1>6, <1>7

(* Where the others are, and whether the step failed.                       *)
LEMMA OneMoves ==
  ASSUME TriageTypes, NEW s \in Staff, NEW q \in StaffType, Steps(s, q)
  PROVE  Elsewhere(s) /\ staff'[s] = q
BY DEF TriageTypes, Steps, Elsewhere

LEMMA AsideIs ==
  ASSUME TriageTypes, Paid, NEW s \in Staff, Elsewhere(s), staff'[s].at # "fail",
         UNCHANGED rowVars, faults' \in {faults, faults + 1}
  PROVE  Paid'
<1>1. PaidCare(s)
  BY DEF PaidCare, Free, rowVars
<1>2. faults' \in Nat /\ faults' >= faults /\ tries' \in [Languages -> Nat]
  BY DEF TriageTypes, rowVars
<1> QED BY <1>1, <1>2, PaidStep

LEMMA GoesAway ==
  ASSUME TriageTypes, NEW s \in Staff,
         \/ Ends(s)
         \/ \E stage \in Stages \ {"fail"}, r \in Languages : Goes(s, stage) \/ Begins(s, r, stage)
  PROVE  Elsewhere(s) /\ staff'[s].at # "fail"
<1>1. CASE Ends(s)
  BY <1>1, EndsLeads, OneMoves
<1>2. ASSUME NEW stage \in Stages \ {"fail"}, Goes(s, stage) PROVE Elsewhere(s) /\ staff'[s].at # "fail"
  BY <1>2, GoesLeads, OneMoves
<1>3. ASSUME NEW stage \in Stages \ {"fail"}, NEW r \in Languages, Begins(s, r, stage)
      PROVE  Elsewhere(s) /\ staff'[s].at # "fail"
  BY <1>3, BeginsLeads, OneMoves
<1> QED BY <1>1, <1>2, <1>3

LEMMA PaidAside ==
  ASSUME TriageInv, Paid, NEW s \in Staff,
         \/ Match(s) \/ MapCheck(s) \/ Recheck(s) \/ SearchTitle(s) \/ MapWrite(s) \/ Track(s) \/ Dies(s) \/ RemoveMapping(s)
         \/ Claim(s) /\ ~Unclaimed(staff[s].row)
         \/ \E r \in Languages : \/ SeenUntracked(s, r) \/ AutoMap(s, r) \/ UnskipRead(s, r) \/ Orphaned(s, r)
                                 \/ Candidate(s, r) \/ Approve(s, r)
                                 \/ \E t \in {1} \cup MadeTitles : MapToExisting(s, r, t) \/ PasteMapping(s, r, t)
  PROVE  Paid'
<1> USE DEF TriageInv
<1>1. ASSUME NEW e, staff' = [staff EXCEPT ![s] = e], e.at # "fail" PROVE Elsewhere(s) /\ staff'[s].at # "fail"
  BY <1>1 DEF Elsewhere, TriageTypes
<1>2. CASE Match(s)
  <2>1. Elsewhere(s) /\ staff'[s].at # "fail"
    <3>1. CASE Ends(s)
      BY <3>1, GoesAway
    <3>2. CASE ~Ends(s)
      <4>1. PICK t : staff' = [staff EXCEPT ![s].at = "mapCheck", ![s].title = t]
        BY <1>2, <3>2 DEF Match
      <4> QED BY <4>1 DEF Elsewhere, TriageTypes, StaffType
    <3> QED BY <3>1, <3>2
  <2> QED BY <1>2, <2>1, AsideIs DEF Match, NothingElse
<1>3. CASE MapCheck(s)
  <2>1. Elsewhere(s) /\ staff'[s].at # "fail"
    BY <1>3, KnownIs, GoesAway DEF MapCheck, Stages
  <2> QED BY <1>3, <2>1, AsideIs DEF MapCheck, NothingElse
<1>4. CASE Recheck(s)
  <2>1. PICK stage \in {"adopt", "search", "commit"} :
          stage = IF mapping # 0 THEN "adopt" ELSE IF staff[s].auto THEN "search" ELSE "commit"
    OBVIOUS
  <2>2. staff' = [staff EXCEPT ![s].title = mapping, ![s].at = stage]
    BY <1>4, <2>1 DEF Recheck
  <2>3. Elsewhere(s) /\ staff'[s].at # "fail"
    BY <2>2 DEF Elsewhere, TriageTypes, StaffType
  <2> QED BY <1>4, <2>3, AsideIs DEF Recheck, NothingElse
<1>5. CASE SearchTitle(s)
  <2>1. Elsewhere(s) /\ staff'[s].at # "fail"
    BY <1>5, KnownIs, GoesAway DEF SearchTitle, Stages
  <2> QED BY <1>5, <2>1, AsideIs DEF SearchTitle, NothingElse
<1>6. CASE MapWrite(s) \/ Track(s)
  <2>1. Elsewhere(s) /\ staff'[s].at # "fail"
    BY <1>6, KnownIs, GoesAway DEF MapWrite, Track, Stages
  <2> QED BY <1>6, <2>1, AsideIs DEF MapWrite, Track, NothingElse
<1>7. CASE Dies(s)
  <2>1. Elsewhere(s) /\ staff'[s].at # "fail"
    BY <1>7, GoesAway DEF Dies
  <2> QED BY <1>7, <2>1, AsideIs DEF Dies, Fault
<1>8. CASE RemoveMapping(s)
  <2>1. Elsewhere(s) /\ staff'[s].at # "fail"
    BY <1>8, GoesAway, AtRestIs DEF RemoveMapping, Stages, StaffType
  <2> QED BY <1>8, <2>1, AsideIs DEF RemoveMapping
<1>9. CASE Claim(s) /\ ~Unclaimed(staff[s].row)
  <2>1. Elsewhere(s) /\ staff'[s].at # "fail"
    BY <1>9, GoesAway DEF Claim
  <2> QED BY <1>9, <2>1, AsideIs DEF Claim, NothingElse, rowVars
<1>10. ASSUME NEW r \in Languages, SeenUntracked(s, r) \/ AutoMap(s, r) \/ UnskipRead(s, r) \/ Orphaned(s, r) PROVE Paid'
  <2>1. Elsewhere(s) /\ staff'[s].at # "fail"
    BY <1>10, GoesAway DEF SeenUntracked, AutoMap, UnskipRead, Orphaned, Stages
  <2> QED BY <1>10, <2>1, AsideIs DEF SeenUntracked, AutoMap, UnskipRead, Orphaned, NothingElse
<1>11. ASSUME NEW r \in Languages, Candidate(s, r) \/ Approve(s, r) PROVE Paid'
  <2>1. PICK p \in StaffType, n \in Nat : p = AtRest /\ n = tries[r]
    BY AtRestIs DEF TriageTypes
  <2>2. \/ staff' = [staff EXCEPT ![s] = [p EXCEPT !.at = "claim", !.row = r, !.spent = n, !.auto = TRUE]]
        \/ staff' = [staff EXCEPT ![s] = [p EXCEPT !.at = "reset", !.row = r, !.spent = n]]
    BY <1>11, <2>1 DEF Candidate, Approve
  <2>3. /\ [p EXCEPT !.at = "claim", !.row = r, !.spent = n, !.auto = TRUE].at = "claim"
        /\ [p EXCEPT !.at = "reset", !.row = r, !.spent = n].at = "reset"
    BY DEF StaffType
  <2>4. Elsewhere(s) /\ staff'[s].at # "fail"
    BY <2>2, <2>3 DEF Elsewhere, TriageTypes
  <2> QED BY <1>11, <2>4, AsideIs DEF Candidate, Approve, NothingElse
<1>12. ASSUME NEW r \in Languages, NEW t \in {1} \cup MadeTitles, MapToExisting(s, r, t) PROVE Paid'
  <2>1. Elsewhere(s) /\ staff'[s].at # "fail"
    BY <1>12 DEF MapToExisting, Elsewhere, TriageTypes, StaffType
  <2> QED BY <1>12, <2>1, AsideIs DEF MapToExisting
<1>13. ASSUME NEW r \in Languages, NEW t \in {1} \cup MadeTitles, PasteMapping(s, r, t) PROVE Paid'
  <2>1. Elsewhere(s) /\ staff'[s].at # "fail"
    BY <1>13, GoesAway DEF PasteMapping, Stages
  <2> QED BY <1>13, <2>1, AsideIs DEF PasteMapping
<1> QED BY <1>2, <1>3, <1>4, <1>5, <1>6, <1>7, <1>8, <1>9, <1>10, <1>11, <1>12, <1>13

LEMMA PaidFailing ==
  ASSUME TriageInv, Paid, NEW s \in Staff, Throws(s) \/ Commit(s)
  PROVE  Paid'
<1> USE DEF TriageInv
<1>1. ASSUME Goes(s, "fail"), staff[s].at # "fail", Fault, UNCHANGED rowVars PROVE Paid'
  <2>1. PICK q \in StaffType : Steps(s, q) /\ q.at = "fail" /\ q.row = staff[s].row
    BY <1>1, GoesLeads DEF Stages
  <2>2. Elsewhere(s) /\ staff'[s] = q
    BY <2>1, OneMoves
  <2> QED BY <1>1, <2>1, <2>2, PaidFailure DEF Fault, rowVars
<1>2. CASE Throws(s)
  BY <1>1, <1>2 DEF Throws
<1>3. CASE Commit(s) /\ Goes(s, "fail") /\ Fault
  BY <1>1, <1>3 DEF Commit, At
<1>4. CASE Commit(s) /\ staff' = [staff EXCEPT ![s].at = "track", ![s].title = Len(made) + 2] /\ UNCHANGED faults
  <2>1. Elsewhere(s) /\ staff'[s].at # "fail"
    BY <1>4 DEF Elsewhere, TriageTypes, StaffType
  <2> QED BY <1>4, <2>1, AsideIs DEF Commit
<1> QED BY <1>2, <1>3, <1>4 DEF Commit

LEMMA PaidRows ==
  ASSUME TriageInv, Paid, NEW s \in Staff,
         \/ PersistUntracked(s) \/ MapClose(s) \/ FreshBudget(s) \/ (Claim(s) /\ Unclaimed(staff[s].row)) \/ Adopt(s) \/ Refuse(s)
         \/ Finish(s) \/ GiveBack(s) \/ Unskip(s) \/ Reconcile(s) \/ CloseRow(s) \/ Release(s)
  PROVE  Paid'
<1> USE DEF TriageInv
<1>0. faults' = faults /\ faults' \in Nat /\ faults' >= faults
  BY KnownIs DEF PersistUntracked, MapClose, FreshBudget, Claim, Adopt, Refuse, Finish, GiveBack, Unskip, Reconcile,
     CloseRow, Release, NothingElse
<1>1. Elsewhere(s) /\ staff'[s].at # "fail"
  BY KnownIs, GoesAway DEF PersistUntracked, MapClose, FreshBudget, Claim, Adopt, Refuse, Finish, GiveBack, Unskip,
     Reconcile, CloseRow, Release, Stages
<1>2. tries' \in [Languages -> Nat]
  <2>1. CASE UNCHANGED tries
    BY <2>1 DEF TriageTypes
  <2>2. CASE FreshBudget(s) \/ Unskip(s) \/ Claim(s)
    BY <2>2 DEF FreshBudget, Unskip, Claim, TriageTypes
  <2> QED BY <2>1, <2>2 DEF PersistUntracked, MapClose, Adopt, Refuse, Finish, GiveBack, Reconcile, CloseRow, Release
<1>3. staff[s].row \in Languages /\ \A r \in Languages : tries[r] \in Nat
  BY KnownIs DEF TriageTypes
<1>4. PaidCare(s)
  <2> USE <1>3 DEF PaidCare, Free, TriageTypes, At
  <2>1. CASE PersistUntracked(s)
    BY <2>1 DEF PersistUntracked
  <2>2. CASE MapClose(s) \/ Adopt(s) \/ Finish(s)
    BY <2>2 DEF MapClose, Adopt, Finish, Tracked
  <2>3. CASE FreshBudget(s)
    BY <2>3 DEF FreshBudget
  <2>4. CASE Claim(s) /\ Unclaimed(staff[s].row)
    BY <2>4 DEF Claim, Unclaimed
  <2>5. CASE Refuse(s)
    BY <2>5 DEF Refuse
  <2>6. CASE GiveBack(s)
    BY <2>6 DEF GiveBack
  <2>7. CASE Unskip(s)
    BY <2>7 DEF Unskip
  <2>8. CASE Reconcile(s) \/ CloseRow(s)
    BY <2>8 DEF Reconcile, CloseRow
  <2>9. CASE Release(s)
    BY <2>9 DEF Release, ReleaseQueueRows
  <2> QED BY <2>1, <2>2, <2>3, <2>4, <2>5, <2>6, <2>7, <2>8, <2>9
<1> QED BY <1>0, <1>1, <1>2, <1>4, PaidStep

LEMMA PaidStill ==
  ASSUME TriageTypes, Paid, UNCHANGED <<tries, staff, faults>>, \A r \in Languages : Free(r)' => Free(r)
  PROVE  Paid'
<1> SUFFICES ASSUME NEW r \in Languages
             PROVE  /\ Cardinality(Throwing(r)') <= faults'
                    /\ tries'[r] + Cardinality(Throwing(r)') <= faults' + (IF Free(r)' THEN 0 ELSE 1)
  BY DEF Paid
<1>1. Throwing(r)' = Throwing(r)
  BY DEF Throwing
<1>2. PICK n \in Nat : n = Cardinality(Throwing(r))
  BY ThrowingIs
<1>3. PICK e \in {0, 1}, f \in {0, 1} : e = (IF Free(r) THEN 0 ELSE 1) /\ f = (IF Free(r)' THEN 0 ELSE 1) /\ e <= f
  OBVIOUS
<1>4. n <= faults /\ tries[r] + n <= faults + e /\ tries[r] \in Nat /\ faults \in Nat
  BY <1>2, <1>3 DEF Paid, TriageTypes
<1>5. n <= faults /\ tries[r] + n <= faults + f
  BY <1>3, <1>4
<1> QED BY <1>1, <1>2, <1>3, <1>5

LEMMA PaidStarts == TitlesInit => Paid
<1> SUFFICES ASSUME TitlesInit, NEW r \in Languages
             PROVE  /\ Cardinality(Throwing(r)) <= faults
                    /\ tries[r] + Cardinality(Throwing(r)) <= faults + (IF Free(r) THEN 0 ELSE 1)
  BY DEF Paid
<1>1. Throwing(r) = {}
  BY AtRestIs DEF Throwing, TitlesInit
<1>2. Cardinality(Throwing(r)) = 0 /\ faults = 0 /\ tries[r] = 0
  BY <1>1, FS_EmptySet DEF TitlesInit
<1> QED BY <1>2

LEMMA PaidSteps == TriageInv /\ Paid /\ [TitlesNext]_titleVars => Paid'
<1> SUFFICES ASSUME TriageInv, Paid, [TitlesNext]_titleVars PROVE Paid'
  OBVIOUS
<1>1. ASSUME NEW s \in Staff, Serves(s) PROVE Paid'
  BY <1>1, PaidAside, PaidFailing, PaidRows DEF Serves
<1>2. ASSUME NEW s \in Staff, Operates(s) PROVE Paid'
  BY <1>2, PaidAside, PaidRows DEF Operates
<1>3. ASSUME NEW r \in Languages, Skip(r) PROVE Paid'
  <2>1. \A t \in Languages : Free(t)' => Free(t)
    BY <1>3 DEF Skip, Free, TriageInv, TriageTypes
  <2> QED BY <1>3, <2>1, PaidStill DEF Skip, TriageInv
<1>4. ASSUME NEW t \in {1} \cup MadeTitles, SetMapping(t) PROVE Paid'
  BY <1>4, PaidStill DEF SetMapping, Free, TriageInv, rowVars
<1>5. CASE RemoveMappings
  <2>1. \A t \in Languages : Free(t)' => Free(t)
    BY <1>5 DEF RemoveMappings, ReleaseQueueRows, Free
  <2> QED BY <1>5, <2>1, PaidStill DEF RemoveMappings, TriageInv
<1>6. CASE UNCHANGED titleVars
  BY <1>6, PaidStill DEF titleVars, rowVars, Free, TriageInv
<1> QED BY <1>1, <1>2, <1>3, <1>4, <1>5, <1>6 DEF TitlesNext

LEMMA TitlesAlways == TitlesSpec => [](TriageInv /\ Paid)
<1>1. TitlesInit => TriageInv /\ Paid
  BY TitlesStart, PaidStarts
<1>2. TriageInv /\ Paid /\ [TitlesNext]_titleVars => TriageInv' /\ Paid'
  BY TitlesSteps, PaidSteps
<1> QED BY <1>1, <1>2, PTL DEF TitlesSpec

(* The queue of untracked series keeps one creator to a row, no row says    *)
(* TRACKED without a mapping, and every attempt but the first is paid by a  *)
(* failure, whatever processes and operators meet on one series.            *)
THEOREM TitlesAreTriaged == TitlesSpec => []TitlesInv
<1>1. TriageInv /\ Paid => TitlesInv
  <2> SUFFICES ASSUME TriageInv, Paid PROVE TitlesInv
    OBVIOUS
  <2>1. OneCreator /\ TrackedIsMapped /\ \A s \in Staff : staff[s].at \in Creating /\ ~torn => state[staff[s].row] = "CREATING"
    BY DEF TriageInv, RowsHeld, MappingBehind
  <2>2. tries \in [Languages -> 0..(faults + 1)]
    <3>1. ASSUME NEW r \in Languages PROVE tries[r] \in 0..(faults + 1)
      <4>1. PICK n \in Nat : n = Cardinality(Throwing(r))
        BY ThrowingIs DEF TriageInv
      <4>2. PICK e \in {0, 1} : e = IF Free(r) THEN 0 ELSE 1
        OBVIOUS
      <4>3. tries[r] + n <= faults + e /\ tries[r] \in Nat /\ faults \in Nat
        BY <4>1, <4>2 DEF Paid, TriageInv, TriageTypes
      <4> QED BY <4>1, <4>3
    <3> QED BY <3>1 DEF TriageInv, TriageTypes
  <2>3. {mapping} \cup {named[r] : r \in Languages} \subseteq {0, 1} \cup MadeTitles
    <3>1. \A n \in Nat : n <= Known => n \in {0, 1} \cup MadeTitles
      BY DEF Known, MadeTitles, TriageInv, TriageTypes
    <3>2. mapping \in {0, 1} \cup MadeTitles
      BY <3>1, KnownIs DEF TriageInv, TriageTypes, TitlesKnown
    <3>3. \A r \in Languages : named[r] \in {0, 1} \cup MadeTitles
      BY <3>1 DEF TriageInv, TriageTypes, TitlesKnown
    <3> QED BY <3>2, <3>3
  <2> QED BY <2>1, <2>2, <2>3 DEF TitlesInv, TitlesTypeOK, TriageInv, TriageTypes
<1> QED BY <1>1, TitlesAlways, PTL

(* A step of one member of staff moves nobody else.                         *)
LEMMA OthersStay ==
  ASSUME TriageTypes, NEW u \in Staff, Serves(u) \/ Operates(u)
  PROVE  Elsewhere(u)
<1> USE DEF TriageTypes, Elsewhere, Goes, Ends, Begins
<1>1. CASE PersistUntracked(u) \/ MapClose(u) \/ Claim(u) \/ Adopt(u) \/ Refuse(u) \/ Finish(u) \/ GiveBack(u) \/ Dies(u)
  BY <1>1 DEF PersistUntracked, MapClose, Claim, Adopt, Refuse, Finish, GiveBack, Dies
<1>2. CASE Match(u) \/ MapCheck(u) \/ MapWrite(u) \/ FreshBudget(u) \/ Recheck(u)
  BY <1>2 DEF Match, MapCheck, MapWrite, FreshBudget, Recheck
<1>3. CASE SearchTitle(u) \/ Commit(u) \/ Track(u) \/ Throws(u)
  BY <1>3 DEF SearchTitle, Commit, Track, Throws
<1>4. ASSUME NEW r \in Languages, SeenUntracked(u, r) \/ AutoMap(u, r) \/ Candidate(u, r) PROVE Elsewhere(u)
  BY <1>4 DEF SeenUntracked, AutoMap, Candidate
<1>5. ASSUME NEW r \in Languages, Approve(u, r) \/ UnskipRead(u, r) \/ Orphaned(u, r) PROVE Elsewhere(u)
  BY <1>5 DEF Approve, UnskipRead, Orphaned
<1>6. ASSUME NEW r \in Languages, NEW t \in {1} \cup MadeTitles, MapToExisting(u, r, t) \/ PasteMapping(u, r, t)
      PROVE  Elsewhere(u)
  BY <1>6 DEF MapToExisting, PasteMapping
<1>7. CASE Unskip(u) \/ Reconcile(u) \/ CloseRow(u) \/ RemoveMapping(u) \/ Release(u)
  BY <1>7 DEF Unskip, Reconcile, CloseRow, RemoveMapping, Release
<1>8. CASE Serves(u)
  BY <1>8, <1>1, <1>2, <1>3, <1>4 DEF Serves
<1>9. CASE Operates(u)
  BY <1>9, <1>5, <1>6, <1>7 DEF Operates
<1> QED BY <1>8, <1>9

(* Who is about to write a mapping writes it, fails or dies.                *)
LEMMA WritersWrite ==
  ASSUME NEW s \in Staff, Serves(s) \/ Operates(s), staff[s].at \in {"mapWrite", "track"}
  PROVE  MapWrite(s) \/ Track(s) \/ Throws(s) \/ Dies(s)
<1>1. CASE Serves(s)
  BY <1>1 DEF Serves, At, Begins, PersistUntracked, Match, MapCheck, MapClose, FreshBudget, Claim, Recheck, Adopt,
     SearchTitle, Refuse, Commit, Finish, GiveBack, SeenUntracked, AutoMap, Candidate
<1>2. CASE Operates(s)
  BY <1>2 DEF Operates, At, Begins, Approve, UnskipRead, Orphaned, MapToExisting, PasteMapping, Unskip, Reconcile,
     CloseRow, RemoveMapping, Release
<1> QED BY <1>1, <1>2

(* A mapping that is found is left as it is by the passes, the creations    *)
(* and the one-click mapping, also one that appeared after they looked; and *)
(* the machine commits no second title for a row.                           *)
THEOREM MachinesLeaveIt == TitlesSpec => MachinesYield
<1>1. TriageInv /\ [TitlesNext]_titleVars =>
        [\A s \in Staff : staff[s].at \in {"mapWrite", "track"} /\ staff'[s].at \in {"mapClose", "finish"} /\ mapping # 0
           => mapping' = mapping]_titleVars
  <2> SUFFICES ASSUME TriageInv, TitlesNext, NEW s \in Staff, staff[s].at \in {"mapWrite", "track"},
                      staff'[s].at \in {"mapClose", "finish"}, mapping # 0
               PROVE  mapping' = mapping
    OBVIOUS
  <2>1. ASSUME NEW u \in Staff, Serves(u) \/ Operates(u) PROVE mapping' = mapping
    <3>1. u = s
      BY <2>1, OthersStay DEF TriageInv, Elsewhere
    <3>2. MapWrite(s) \/ Track(s) \/ Throws(s) \/ Dies(s)
      BY <2>1, <3>1, WritersWrite
    <3> QED BY <3>2 DEF MapWrite, Track, Upsert, Throws, Dies
  <2>2. ASSUME NEW r \in Languages, Skip(r) PROVE FALSE
    BY <2>2 DEF Skip
  <2>3. ASSUME NEW t \in {1} \cup MadeTitles, SetMapping(t) PROVE FALSE
    BY <2>3 DEF SetMapping
  <2>4. ~RemoveMappings
    BY DEF RemoveMappings
  <2> QED BY <2>1, <2>2, <2>3, <2>4 DEF TitlesNext
<1>2. TriageInv /\ [TitlesNext]_titleVars =>
        [\A s \in Staff : ~torn /\ At(s, "commit") /\ made' # made /\ staff'[s] # staff[s] /\ staff[s].auto
           => MadeFor(staff[s].row) = {}]_titleVars
  BY DEF TriageInv, FirstOfRow
<1> QED BY <1>1, <1>2, TitlesAlways, PTL DEF TitlesSpec, MachinesYield, MappingSticks, NoMachineDuplicates
-----------------------------------------------------------------------------
(***************************************************************************)
(* An extension's repository and the platform (Publishing.tla), for any    *)
(* drafts, publishers and replicas.                                        *)
(***************************************************************************)
Contents == [version : Versions, code : {d.code : d \in Drafts}, map : 0..2]
PubType == [at : {"idle", "store", "reconcile", "insert", "correct", "record"}, commit : Nat]
SyncType == [at : {"idle", "seed", "claim", "rows", "file", "put"}, raw : Nat, rows : 0..2, base : 0..2]

RepoTypes ==
  /\ git \in Seq(Contents) /\ Tip >= 1 /\ deliveries \subseteq 2..Tip /\ synced \in 0..Tip
  /\ mapped \in [to : 0..2, source : {"none", "import", "operator"}] /\ (mapped.to = 0 <=> mapped.source = "none")
  /\ pub \in [Publishers -> PubType] /\ sync \in [Syncers -> SyncType]

(* A publisher holds a commit that is there, and a line of the map to write.*)
Holding == \A p \in Publishers :
  /\ pub[p].at # "idle" => pub[p].commit \in 1..Tip
  /\ pub[p].at \in {"insert", "correct"} => git[pub[p].commit].map # 0

(* A bundle is what some commit held, under that commit's version.          *)
Bundled ==
  /\ bundles = [v \in DOMAIN bundles |-> bundles[v]]
  /\ \A v \in DOMAIN bundles : \E i \in 1..Tip, y \in BOOLEAN : \E a :
       bundles[v] = [content |-> git[i], yanked |-> y, at |-> a] /\ git[i].version = v

(* A sync that was begun in a week has written its mark, and who is about   *)
(* to begin one read a mark of an earlier week.                             *)
WeekKept ==
  /\ week \in Nat /\ week >= 1 /\ lastRun \in 0..week /\ started \in [1..MaxWeeks -> Nat]
  /\ \A w \in 1..MaxWeeks : started[w] <= 1 /\ (started[w] = 1 => w <= lastRun)
  /\ \A s \in Syncers : sync[s].at = "claim" => sync[s].raw < week

RepositoryInv == RepoTypes /\ Holding /\ Bundled /\ WeekKept

LEMMA PublishingStarts == PublishingInit => RepositoryInv
<1> SUFFICES ASSUME PublishingInit PROVE RepositoryInv
  OBVIOUS
<1> USE DEF PublishingInit
<1>1. PICK c \in Contents : git = <<c>>
  BY DEF Contents, Versions
<1>2. git \in Seq(Contents) /\ Tip = 1
  BY <1>1 DEF Tip
<1>3. RepoTypes
  BY <1>2 DEF RepoTypes, PubType, SyncType
<1>4. Holding
  BY DEF Holding
<1>5. Bundled
  <2>1. DOMAIN bundles = {} /\ bundles = [v \in DOMAIN bundles |-> bundles[v]]
    OBVIOUS
  <2> QED BY <2>1 DEF Bundled
<1>6. WeekKept
  BY DEF WeekKept
<1> QED BY <1>3, <1>4, <1>5, <1>6 DEF RepositoryInv

(* A commit is added: what was there is there still.                        *)
LEMMA Added ==
  ASSUME RepoTypes, NEW c \in Contents, git' = Append(git, c)
  PROVE  /\ git' \in Seq(Contents) /\ Tip' = Tip + 1 /\ Tip \in Nat
         /\ \A i \in 1..Tip : i \in 1..Tip' /\ git'[i] = git[i]
BY DEF RepoTypes, Tip

LEMMA CommitAdded ==
  ASSUME RepositoryInv, NEW c \in Contents, git' = Append(git, c), deliveries' \in {deliveries, deliveries \cup {Tip + 1}},
         UNCHANGED <<storeVars, pub, week, lastRun, started>>, sync' \in [Syncers -> SyncType],
         \A s \in Syncers : sync'[s].at = "claim" => sync'[s] = sync[s]
  PROVE  RepositoryInv'
<1> USE DEF RepositoryInv, storeVars
<1>1. /\ git' \in Seq(Contents) /\ Tip' = Tip + 1 /\ Tip \in Nat
      /\ \A i \in 1..Tip : i \in 1..Tip' /\ git'[i] = git[i]
  BY Added
<1>2. RepoTypes'
  BY <1>1 DEF RepoTypes
<1>3. Holding'
  BY <1>1 DEF Holding
<1>4. Bundled'
  <2>1. bundles' = [v \in DOMAIN bundles' |-> bundles'[v]]
    BY DEF Bundled
  <2>2. ASSUME NEW v \in DOMAIN bundles'
        PROVE  \E i \in 1..Tip', y \in BOOLEAN : \E a : bundles'[v] = [content |-> git'[i], yanked |-> y, at |-> a] /\ git'[i].version = v
    <3>1. PICK i \in 1..Tip, y \in BOOLEAN : \E a :
            bundles[v] = [content |-> git[i], yanked |-> y, at |-> a] /\ git[i].version = v
      BY <2>2 DEF Bundled
    <3>2. i \in 1..Tip' /\ git'[i] = git[i]
      BY <1>1
    <3> QED BY <3>1, <3>2
  <2> QED BY <2>1, <2>2 DEF Bundled
<1>5. WeekKept'
  BY DEF WeekKept
<1> QED BY <1>2, <1>3, <1>4, <1>5

(* A publisher goes on, with what it holds.                                 *)
LEMMA PublisherMoves ==
  ASSUME RepositoryInv, NEW p \in Publishers, NEW q \in PubType, pub' = [pub EXCEPT ![p] = q],
         q.at # "idle" => q.commit \in 1..Tip,
         q.at \in {"insert", "correct"} => git[q.commit].map # 0,
         git' = git, deliveries' \subseteq deliveries, synced' \in 0..Tip,
         mapped' \in [to : 0..2, source : {"none", "import", "operator"}], mapped'.to = 0 <=> mapped'.source = "none",
         Bundled', UNCHANGED syncVars
  PROVE  RepositoryInv'
<1> USE DEF RepositoryInv, syncVars
<1>0. Tip' = Tip
  BY DEF Tip
<1>1. RepoTypes'
  BY <1>0 DEF RepoTypes
<1>2. Holding'
  BY <1>0 DEF Holding, RepoTypes
<1>3. WeekKept'
  BY DEF WeekKept
<1> QED BY <1>1, <1>2, <1>3

LEMMA BundledStays == ASSUME Bundled, git' = git, bundles' = bundles PROVE Bundled'
BY DEF Bundled, Tip

LEMMA PubIs ==
  ASSUME RepositoryInv, NEW p \in Publishers
  PROVE  pub[p] \in PubType /\ Tip \in Nat
BY DEF RepositoryInv, RepoTypes, Tip

LEMMA PubMoves ==
  ASSUME RepoTypes, NEW p \in Publishers, NEW to \in {"idle", "store", "reconcile", "insert", "correct", "record"}, Moves(p, to)
  PROVE  \E q \in PubType : pub' = [pub EXCEPT ![p] = q] /\ q.at = to /\ q.commit = pub[p].commit
<1>1. PICK r \in PubType : r = pub[p]
  BY DEF RepoTypes
<1>2. PICK q : q = [r EXCEPT !.at = to]
  OBVIOUS
<1>3. q \in PubType /\ q.at = to /\ q.commit = r.commit
  BY <1>2 DEF PubType
<1>4. pub' = [pub EXCEPT ![p] = q]
  BY <1>1, <1>2 DEF Moves
<1> QED BY <1>1, <1>3, <1>4

(* What a publisher does next when a bundle is in, or not.                  *)
LEMMA AfterPublishIs == ASSUME NEW p, NEW created PROVE AfterPublish(p, created) \in {"idle", "record"}
BY DEF AfterPublish

(* The repository's own steps.                                              *)
LEMMA PushKeeps ==
  ASSUME RepositoryInv, NEW d \in Drafts, NEW m \in 0..2, Push([version |-> d.version, code |-> d.code, map |-> m])
  PROVE  RepositoryInv'
<1>1. PICK c : c = [version |-> d.version, code |-> d.code, map |-> m]
  OBVIOUS
<1>2. c \in Contents
  BY <1>1 DEF Contents, Versions
<1>3. git' = Append(git, c) /\ deliveries' = deliveries \cup {Tip + 1}
  BY <1>1 DEF Push
<1>4. sync' \in [Syncers -> SyncType]
  BY DEF Push, syncVars, RepositoryInv, RepoTypes
<1> QED BY <1>2, <1>3, <1>4, CommitAdded DEF Push, syncVars

LEMMA LoseKeeps == ASSUME RepositoryInv, NEW commit, Lose(commit) PROVE RepositoryInv'
<1> USE DEF RepositoryInv, Lose, storeVars, syncVars
<1>0. Tip' = Tip
  BY DEF Tip
<1>1. RepoTypes'
  BY <1>0 DEF RepoTypes
<1>2. Holding' /\ WeekKept'
  BY <1>0 DEF Holding, WeekKept
<1>3. Bundled'
  BY BundledStays
<1> QED BY <1>1, <1>2, <1>3

LEMMA DeliverKeeps == ASSUME RepositoryInv, NEW p \in Pushers, NEW commit, Deliver(p, commit) PROVE RepositoryInv'
<1> USE DEF Deliver, storeVars
<1>0. p \in Publishers
  BY DEF Publishers
<1>1. commit \in 1..Tip /\ Tip \in Nat
  BY PubIs, <1>0 DEF RepositoryInv, RepoTypes
<1>2. PICK q : q = [at |-> "store", commit |-> commit]
  OBVIOUS
<1>3. q \in PubType /\ q.at = "store" /\ q.commit = commit
  BY <1>1, <1>2 DEF PubType
<1>4. pub' = [pub EXCEPT ![p] = q]
  BY <1>2
<1>5. Bundled'
  BY BundledStays DEF RepositoryInv
<1>6. deliveries' \subseteq deliveries /\ git' = git /\ synced' \in 0..Tip /\ UNCHANGED syncVars
  BY DEF RepositoryInv, RepoTypes
<1>7. mapped' \in [to : 0..2, source : {"none", "import", "operator"}] /\ (mapped'.to = 0 <=> mapped'.source = "none")
  BY DEF RepositoryInv, RepoTypes
<1> QED BY <1>0, <1>1, <1>3, <1>4, <1>5, <1>6, <1>7, PublisherMoves

LEMMA PollKeeps == ASSUME RepositoryInv, PollHead PROVE RepositoryInv'
<1> USE DEF PollHead, storeVars, repoVars
<1>0. Poll \in Publishers
  BY DEF Publishers
<1>1. Tip \in 1..Tip /\ Tip \in Nat
  BY PubIs, <1>0 DEF RepositoryInv, RepoTypes
<1>2. PICK q : q = [at |-> "store", commit |-> Tip]
  OBVIOUS
<1>3. q \in PubType /\ q.at = "store" /\ q.commit = Tip
  BY <1>1, <1>2 DEF PubType
<1>4. pub' = [pub EXCEPT ![Poll] = q]
  BY <1>2
<1>5. Bundled'
  BY BundledStays DEF RepositoryInv
<1>6. deliveries' \subseteq deliveries /\ git' = git /\ synced' \in 0..Tip /\ UNCHANGED syncVars
  BY DEF RepositoryInv, RepoTypes
<1>7. mapped' \in [to : 0..2, source : {"none", "import", "operator"}] /\ (mapped'.to = 0 <=> mapped'.source = "none")
  BY DEF RepositoryInv, RepoTypes
<1> QED BY <1>0, <1>1, <1>3, <1>4, <1>5, <1>6, <1>7, PublisherMoves

(* The bundle of a commit goes in; the others are left.                     *)
LEMMA BundleGoesIn ==
  ASSUME RepositoryInv, NEW k \in 1..Tip, NEW v, v = git[k].version, git' = git, NEW a,
         bundles' = [w \in DOMAIN bundles \cup {v} |->
           IF w # v THEN bundles[w] ELSE [content |-> git[k], yanked |-> FALSE, at |-> a]]
  PROVE  Bundled'
<1>0. Tip' = Tip
  BY DEF Tip
<1>1. bundles' = [w \in DOMAIN bundles' |-> bundles'[w]] /\ DOMAIN bundles' = DOMAIN bundles \cup {v}
  OBVIOUS
<1>2. ASSUME NEW w \in DOMAIN bundles'
      PROVE  \E i \in 1..Tip, y \in BOOLEAN : \E b : bundles'[w] = [content |-> git[i], yanked |-> y, at |-> b] /\ git[i].version = w
  <2>1. CASE w = v
    BY <2>1, <1>1, k \in 1..Tip, FALSE \in BOOLEAN
  <2>2. CASE w # v
    <3>1. w \in DOMAIN bundles /\ bundles'[w] = bundles[w]
      BY <1>1, <1>2, <2>2
    <3>2. PICK i \in 1..Tip, y \in BOOLEAN : \E b :
            bundles[w] = [content |-> git[i], yanked |-> y, at |-> b] /\ git[i].version = w
      BY <3>1 DEF RepositoryInv, Bundled
    <3> QED BY <3>1, <3>2
  <2> QED BY <2>1, <2>2
<1>3. ASSUME NEW w \in DOMAIN bundles'
      PROVE  \E i \in 1..Tip', y \in BOOLEAN : \E b : bundles'[w] = [content |-> git'[i], yanked |-> y, at |-> b] /\ git'[i].version = w
  <2>1. PICK i \in 1..Tip, y \in BOOLEAN : \E b :
          bundles'[w] = [content |-> git[i], yanked |-> y, at |-> b] /\ git[i].version = w
    BY <1>2, <1>3
  <2>2. i \in 1..Tip' /\ git'[i] = git[i]
    BY <1>0
  <2> QED BY <2>1, <2>2
<1> QED BY <1>1, <1>3 DEF Bundled

(* What a publisher does.                                                   *)
LEMMA StoreKeeps == ASSUME RepositoryInv, NEW p \in Publishers, Store(p) PROVE RepositoryInv'
<1> USE DEF Store, repoVars, syncVars
<1>1. pub[p].commit \in 1..Tip /\ pub[p] \in PubType
  BY PubIs DEF RepositoryInv, Holding
<1>2. /\ deliveries' \subseteq deliveries /\ git' = git /\ synced' \in 0..Tip /\ UNCHANGED syncVars
      /\ mapped' \in [to : 0..2, source : {"none", "import", "operator"}] /\ (mapped'.to = 0 <=> mapped'.source = "none")
  BY DEF RepositoryInv, RepoTypes
<1>3. CASE \E w \in DOMAIN bundles : bundles[w].content = git[pub[p].commit]
  <2>1. Moves(p, AfterPublish(p, FALSE)) /\ bundles' = bundles
    BY <1>3
  <2>2. PICK to \in {"idle", "record"} : to = AfterPublish(p, FALSE)
    BY AfterPublishIs
  <2>5. Moves(p, to) /\ to \in {"idle", "store", "reconcile", "insert", "correct", "record"} /\ RepoTypes
    BY <2>1, <2>2 DEF RepositoryInv
  <2>3. PICK q \in PubType : pub' = [pub EXCEPT ![p] = q] /\ q.at = to /\ q.commit = pub[p].commit
    <3> HIDE DEF Store
    <3> QED BY <2>5, PubMoves
  <2>4. Bundled'
    BY <2>1, BundledStays DEF RepositoryInv
  <2> QED BY <1>1, <1>2, <2>2, <2>3, <2>4, PublisherMoves
<1>4. CASE ~\E w \in DOMAIN bundles : bundles[w].content = git[pub[p].commit]
  <2>1. Moves(p, "reconcile")
    BY <1>4
  <2>2. PICK q \in PubType : pub' = [pub EXCEPT ![p] = q] /\ q.at = "reconcile" /\ q.commit = pub[p].commit
    BY <2>1, PubMoves DEF RepositoryInv
  <2>3. PICK v : v = git[pub[p].commit].version
    OBVIOUS
  <2>4. PICK a : a = IF v \in DOMAIN bundles THEN bundles[v].at ELSE Latest + 1
    OBVIOUS
  <2>5. bundles' = [w \in DOMAIN bundles \cup {v} |->
          IF w # v THEN bundles[w] ELSE [content |-> git[pub[p].commit], yanked |-> FALSE, at |-> a]]
    BY <1>4, <2>3, <2>4
  <2>6. Bundled'
    BY <1>1, <1>2, <2>3, <2>5, BundleGoesIn
  <2> QED BY <1>1, <1>2, <2>2, <2>6, PublisherMoves
<1> QED BY <1>3, <1>4

LEMMA ReconcileMapKeeps == ASSUME RepositoryInv, NEW p \in Publishers, ReconcileMap(p) PROVE RepositoryInv'
<1> USE DEF ReconcileMap, repoVars, storeVars, syncVars
<1>1. pub[p].commit \in 1..Tip /\ pub[p] \in PubType
  BY PubIs DEF RepositoryInv, Holding
<1>2. /\ deliveries' \subseteq deliveries /\ git' = git /\ synced' \in 0..Tip /\ UNCHANGED syncVars
      /\ mapped' \in [to : 0..2, source : {"none", "import", "operator"}] /\ (mapped'.to = 0 <=> mapped'.source = "none")
  BY DEF RepositoryInv, RepoTypes
<1>3. Bundled'
  BY BundledStays DEF RepositoryInv
<1>4. PICK to : /\ Moves(p, to) /\ to \in {"idle", "record", "insert", "correct"}
                /\ to \in {"insert", "correct"} => File(p) # 0
  BY AfterPublishIs
<1>5. PICK q \in PubType : pub' = [pub EXCEPT ![p] = q] /\ q.at = to /\ q.commit = pub[p].commit
  BY <1>4, PubMoves DEF RepositoryInv
<1>6. q.at \in {"insert", "correct"} => git[q.commit].map # 0
  BY <1>4, <1>5 DEF File
<1> QED BY <1>1, <1>2, <1>3, <1>5, <1>6, PublisherMoves

(* A publisher that ends what it did.                                       *)
LEMMA PublisherRests ==
  ASSUME RepositoryInv, NEW p \in Publishers, NEW to \in {"idle", "record"}, Moves(p, to), pub[p].at # "idle",
         git' = git, deliveries' = deliveries, bundles' = bundles, UNCHANGED syncVars, synced' \in 0..Tip,
         mapped' \in [to : 0..2, source : {"none", "import", "operator"}], mapped'.to = 0 <=> mapped'.source = "none"
  PROVE  RepositoryInv'
<1>1. pub[p].commit \in 1..Tip
  BY DEF RepositoryInv, Holding
<1>2. PICK q \in PubType : pub' = [pub EXCEPT ![p] = q] /\ q.at = to /\ q.commit = pub[p].commit
  BY PubMoves DEF RepositoryInv
<1>3. Bundled'
  BY BundledStays DEF RepositoryInv
<1>4. (q.at # "idle" => q.commit \in 1..Tip) /\ (q.at \in {"insert", "correct"} => git[q.commit].map # 0)
  BY <1>1, <1>2
<1> QED BY <1>2, <1>3, <1>4, PublisherMoves

(* The line of the map a publisher is about to write.                       *)
LEMMA LineToWrite ==
  ASSUME RepositoryInv, NEW p \in Publishers, pub[p].at \in {"insert", "correct"}
  PROVE  File(p) \in 1..2
<1>1. PICK k \in 1..Tip : k = pub[p].commit /\ git[k].map # 0
  BY DEF RepositoryInv, Holding
<1>2. git[k] \in Contents
  BY <1>1 DEF RepositoryInv, RepoTypes, Tip
<1>3. git[k].map \in 0..2
  BY <1>2 DEF Contents
<1> QED BY <1>1, <1>3 DEF File

LEMMA InsertKeeps == ASSUME RepositoryInv, NEW p \in Publishers, Insert(p) PROVE RepositoryInv'
<1> USE DEF Insert, repoVars, syncVars
<1>1. File(p) \in 1..2
  BY LineToWrite
<1>2. mapped' \in [to : 0..2, source : {"none", "import", "operator"}] /\ (mapped'.to = 0 <=> mapped'.source = "none")
  BY <1>1 DEF RepositoryInv, RepoTypes
<1>3. AfterPublish(p, TRUE) \in {"idle", "record"} /\ synced' \in 0..Tip
  BY AfterPublishIs DEF RepositoryInv, RepoTypes
<1> QED BY <1>2, <1>3, PublisherRests

LEMMA CorrectKeeps == ASSUME RepositoryInv, NEW p \in Publishers, Correct(p) PROVE RepositoryInv'
<1> USE DEF Correct, repoVars, syncVars
<1>1. File(p) \in 1..2
  BY LineToWrite
<1>2. mapped' \in [to : 0..2, source : {"none", "import", "operator"}] /\ (mapped'.to = 0 <=> mapped'.source = "none")
  <2>1. PICK r \in [to : 0..2, source : {"none", "import", "operator"}] : r = mapped /\ (r.to = 0 <=> r.source = "none")
    BY DEF RepositoryInv, RepoTypes
  <2>2. PICK q : q = [r EXCEPT !.to = File(p)]
    OBVIOUS
  <2>3. q \in [to : 0..2, source : {"none", "import", "operator"}] /\ q.to = File(p) /\ q.source = r.source
    BY <1>1, <2>2
  <2>4. mapped' = IF r.source = "import" THEN q ELSE r
    BY <2>1, <2>2
  <2> QED BY <1>1, <2>1, <2>3, <2>4
<1>3. AfterPublish(p, TRUE) \in {"idle", "record"} /\ synced' \in 0..Tip
  BY AfterPublishIs DEF RepositoryInv, RepoTypes
<1> QED BY <1>2, <1>3, PublisherRests

LEMMA RecordKeeps == ASSUME RepositoryInv, Record PROVE RepositoryInv'
<1> USE DEF Record, repoVars, syncVars
<1>0. Poll \in Publishers
  BY DEF Publishers
<1>1. synced' \in 0..Tip
  BY <1>0, PubIs DEF RepositoryInv, Holding
<1>2. mapped' \in [to : 0..2, source : {"none", "import", "operator"}] /\ (mapped'.to = 0 <=> mapped'.source = "none")
  BY DEF RepositoryInv, RepoTypes
<1> QED BY <1>0, <1>1, <1>2, PublisherRests

LEMMA PublishFailsKeeps == ASSUME RepositoryInv, NEW p \in Publishers, PublishFails(p) PROVE RepositoryInv'
<1> USE DEF PublishFails, Abandoned, repoVars, storeVars, syncVars
<1>1. mapped' \in [to : 0..2, source : {"none", "import", "operator"}] /\ (mapped'.to = 0 <=> mapped'.source = "none")
  BY DEF RepositoryInv, RepoTypes
<1>2. synced' \in 0..Tip
  BY DEF RepositoryInv, RepoTypes
<1> QED BY <1>1, <1>2, PublisherRests

(* Operators.                                                               *)
LEMMA OperatorMapsKeeps == ASSUME RepositoryInv, NEW to \in 0..2, OperatorMaps(to) PROVE RepositoryInv'
<1> USE DEF RepositoryInv, OperatorMaps, repoVars, syncVars
<1>1. mapped' \in [to : 0..2, source : {"none", "import", "operator"}] /\ (mapped'.to = 0 <=> mapped'.source = "none")
  OBVIOUS
<1>2. RepoTypes' /\ Holding' /\ WeekKept'
  BY <1>1 DEF RepoTypes, Holding, WeekKept, Tip
<1>3. Bundled'
  BY BundledStays
<1> QED BY <1>2, <1>3

LEMMA YankKeeps == ASSUME RepositoryInv, NEW v, Yank(v) PROVE RepositoryInv'
<1> USE DEF RepositoryInv, Yank, repoVars, syncVars
<1>1. RepoTypes' /\ Holding' /\ WeekKept'
  BY DEF RepoTypes, Holding, WeekKept, Tip
<1>10. PICK i \in 1..Tip, y \in BOOLEAN : \E a : bundles[v] = [content |-> git[i], yanked |-> y, at |-> a] /\ git[i].version = v
  BY DEF Bundled
<1>2. PICK a : bundles[v] = [content |-> git[i], yanked |-> y, at |-> a] /\ git[i].version = v
  BY <1>10
<1>3. PICK q : q = [bundles[v] EXCEPT !.yanked = TRUE]
  OBVIOUS
<1>9. bundles' = [bundles EXCEPT ![v].yanked = TRUE] /\ v \in DOMAIN bundles
  OBVIOUS
<1>4. bundles' = [bundles EXCEPT ![v] = q] /\ v \in DOMAIN bundles
  <2> HIDE DEF RepositoryInv, Yank
  <2> QED BY <1>3, <1>9, ZenonT(20)
<1>8. q = [content |-> git[i], yanked |-> TRUE, at |-> a]
  <2> DEFINE B == [content : {git[i]}, yanked : BOOLEAN, at : {a}]
  <2>1. PICK r \in B : r = bundles[v]
    BY <1>2
  <2>2. q \in B /\ q.yanked = TRUE
    BY <1>3, <2>1
  <2> QED BY <2>2
<1>5. bundles' = [w \in DOMAIN bundles' |-> bundles'[w]] /\ DOMAIN bundles' = DOMAIN bundles
  BY <1>4
<1>6. ASSUME NEW w \in DOMAIN bundles'
      PROVE  \E j \in 1..Tip', z \in BOOLEAN : \E b : bundles'[w] = [content |-> git'[j], yanked |-> z, at |-> b] /\ git'[j].version = w
  <2>1. Tip' = Tip /\ git' = git
    BY DEF Tip
  <2>2. CASE w = v
    BY <1>2, <1>8, <1>4, <1>5, <2>1, <2>2
  <2>3. CASE w # v
    <3>1. bundles'[w] = bundles[w] /\ w \in DOMAIN bundles
      BY <1>4, <1>5, <1>6, <2>3
    <3>2. PICK j \in 1..Tip, z \in BOOLEAN : \E b :
            bundles[w] = [content |-> git[j], yanked |-> z, at |-> b] /\ git[j].version = w
      BY <3>1 DEF Bundled
    <3> QED BY <2>1, <3>1, <3>2
  <2> QED BY <2>2, <2>3
<1>7. Bundled'
  BY <1>5, <1>6 DEF Bundled
<1> QED BY <1>1, <1>7

(* A replica goes on with its sync.                                         *)
LEMMA SyncMoves ==
  ASSUME RepositoryInv, NEW s \in Syncers, NEW q \in SyncType, sync' = [sync EXCEPT ![s] = q],
         UNCHANGED <<repoVars, storeVars, pub, week>>,
         WeekKept'
  PROVE  RepositoryInv'
<1> USE DEF RepositoryInv, repoVars, storeVars
<1>1. RepoTypes' /\ Holding'
  BY DEF RepoTypes, Holding, Tip
<1>2. Bundled'
  BY BundledStays
<1> QED BY <1>1, <1>2

(* A replica that goes on without a look at the clock.                      *)
LEMMA SyncGoesOn ==
  ASSUME RepositoryInv, NEW s \in Syncers, NEW q \in SyncType, sync' = [sync EXCEPT ![s] = q],
         q.at = "claim" => q.raw < week,
         UNCHANGED <<repoVars, storeVars, pub, week, lastRun, started>>
  PROVE  RepositoryInv'
<1>1. WeekKept'
  BY DEF RepositoryInv, RepoTypes, WeekKept
<1> QED BY <1>1, SyncMoves

LEMMA SyncIs == ASSUME RepositoryInv, NEW s \in Syncers PROVE sync[s] \in SyncType
BY DEF RepositoryInv, RepoTypes

LEMMA DueKeeps == ASSUME RepositoryInv, NEW s \in Syncers, Due(s) PROVE RepositoryInv'
<1> USE DEF Due
<1>1. PICK r \in SyncType : r = sync[s]
  BY SyncIs
<1>2. PICK at \in {"seed", "claim"} : at = IF lastRun = 0 THEN "seed" ELSE "claim"
  OBVIOUS
<1>3. PICK q : q = [r EXCEPT !.at = at, !.raw = lastRun]
  OBVIOUS
<1>4. lastRun \in Nat /\ lastRun < week
  BY DEF RepositoryInv, WeekKept
<1>5. q \in SyncType /\ q.raw = lastRun
  BY <1>3, <1>4 DEF SyncType
<1>6. sync' = [sync EXCEPT ![s] = q]
  BY <1>1, <1>2, <1>3
<1> QED BY <1>4, <1>5, <1>6, SyncGoesOn

LEMMA SeedFirstRunKeeps == ASSUME RepositoryInv, NEW s \in Syncers, SeedFirstRun(s) PROVE RepositoryInv'
<1> USE DEF SeedFirstRun
<1>1. PICK r \in SyncType : r = sync[s]
  BY SyncIs
<1>2. PICK q : q = [r EXCEPT !.at = "idle"]
  OBVIOUS
<1>3. q \in SyncType /\ q.at = "idle"
  BY <1>2 DEF SyncType
<1>4. sync' = [sync EXCEPT ![s] = q]
  BY <1>1, <1>2
<1>5. lastRun' \in 0..week' /\ lastRun' >= lastRun
  BY DEF RepositoryInv, WeekKept
<1>6. WeekKept'
  BY <1>3, <1>4, <1>5 DEF RepositoryInv, RepoTypes, WeekKept
<1> QED BY <1>3, <1>4, <1>6, SyncMoves

LEMMA SyncClaimKeeps == ASSUME RepositoryInv, NEW s \in Syncers, SyncClaim(s) PROVE RepositoryInv'
<1> USE DEF SyncClaim
<1>1. PICK r \in SyncType : r = sync[s] /\ r.at = "claim" /\ r.raw < week
  BY SyncIs DEF RepositoryInv, WeekKept
<1>2. CASE StillRaw(s)
  <2>1. lastRun < week /\ lastRun' = week /\ started' = [started EXCEPT ![week] = @ + 1]
    BY <1>1, <1>2 DEF StillRaw
  <2>2. PICK q : q = [r EXCEPT !.at = "rows"]
    OBVIOUS
  <2>3. q \in SyncType /\ q.at = "rows"
    BY <2>2 DEF SyncType
  <2>4. sync' = [sync EXCEPT ![s] = q]
    BY <1>1, <1>2, <2>2
  <2>5. week \in Nat /\ week >= 1 /\ lastRun \in 0..week /\ started \in [1..MaxWeeks -> Nat]
    BY DEF RepositoryInv, WeekKept
  <2>6. ASSUME NEW w \in 1..MaxWeeks
        PROVE  started'[w] \in Nat /\ started'[w] <= 1 /\ (started'[w] = 1 => w <= lastRun')
    <3>1. started[w] \in Nat /\ started[w] <= 1 /\ (started[w] = 1 => w <= lastRun) /\ w \in Nat
      BY <2>5 DEF RepositoryInv, WeekKept
    <3>2. CASE w = week
      BY <2>1, <2>5, <3>1, <3>2
    <3>3. CASE w # week
      BY <2>1, <2>5, <3>1, <3>3
    <3> QED BY <3>2, <3>3
  <2>7. started' \in [1..MaxWeeks -> Nat]
    BY <2>1, <2>5, <2>6
  <2>8. WeekKept'
    BY <2>1, <2>3, <2>4, <2>5, <2>6, <2>7 DEF RepositoryInv, RepoTypes, WeekKept
  <2> QED BY <2>3, <2>4, <2>8, SyncMoves
<1>3. CASE ~StillRaw(s)
  <2>1. PICK q : q = [r EXCEPT !.at = "idle"]
    OBVIOUS
  <2>2. q \in SyncType /\ q.at = "idle"
    BY <2>1 DEF SyncType
  <2>3. sync' = [sync EXCEPT ![s] = q]
    BY <1>1, <1>3, <2>1
  <2> QED BY <1>3, <2>2, <2>3, SyncGoesOn
<1> QED BY <1>2, <1>3

LEMMA TrackedByExtensionKeeps == ASSUME RepositoryInv, NEW s \in Syncers, TrackedByExtension(s) PROVE RepositoryInv'
<1> USE DEF TrackedByExtension
<1>1. PICK r \in SyncType : r = sync[s]
  BY SyncIs
<1>2. PICK q : q = [r EXCEPT !.at = "file", !.rows = mapped.to]
  OBVIOUS
<1>3. mapped.to \in 0..2
  BY DEF RepositoryInv, RepoTypes
<1>4. q \in SyncType /\ q.at = "file"
  BY <1>2, <1>3 DEF SyncType
<1>5. sync' = [sync EXCEPT ![s] = q]
  BY <1>1, <1>2
<1> QED BY <1>4, <1>5, SyncGoesOn

(* The commit at the tip.                                                   *)
LEMMA TipIs == ASSUME RepositoryInv PROVE git[Tip] \in Contents /\ git[Tip].map \in 0..2
<1>1. git[Tip] \in Contents
  BY DEF RepositoryInv, RepoTypes, Tip
<1> QED BY <1>1 DEF Contents

LEMMA GetFileKeeps == ASSUME RepositoryInv, NEW s \in Syncers, GetFile(s) PROVE RepositoryInv'
<1> USE DEF GetFile
<1>1. PICK r \in SyncType : r = sync[s]
  BY SyncIs
<1>2. PICK b \in 0..2 : b = git[Tip].map
  BY TipIs
<1>3. PICK at \in {"idle", "put"} : at = IF sync[s].rows = b THEN "idle" ELSE "put"
  OBVIOUS
<1>4. PICK q : q = [r EXCEPT !.at = at, !.base = b]
  OBVIOUS
<1>5. q \in SyncType /\ q.at \in {"idle", "put"}
  BY <1>2, <1>4 DEF SyncType
<1>6. sync' = [sync EXCEPT ![s] = q]
  BY <1>1, <1>2, <1>3, <1>4
<1> QED BY <1>5, <1>6, SyncGoesOn

LEMMA PutFileKeeps == ASSUME RepositoryInv, NEW s \in Syncers, PutFile(s) PROVE RepositoryInv'
<1> USE DEF PutFile
<1>1. PICK r \in SyncType : r = sync[s]
  BY SyncIs
<1>2. PICK q : q = [r EXCEPT !.at = "idle"]
  OBVIOUS
<1>3. q \in SyncType /\ q.at = "idle"
  BY <1>2 DEF SyncType
<1>4. sync' = [sync EXCEPT ![s] = q]
  BY <1>1, <1>2
<1>5. CASE git[Tip].map = sync[s].base
  <2>1. PICK t \in Contents : t = git[Tip]
    BY TipIs
  <2>2. PICK c : c = [t EXCEPT !.map = r.rows]
    OBVIOUS
  <2>3. c \in Contents
    BY <2>2 DEF Contents, SyncType
  <2>4. git' = Append(git, c)
    BY <1>1, <1>5, <2>1, <2>2
  <2>5. sync' \in [Syncers -> SyncType] /\ \A t2 \in Syncers : sync'[t2].at = "claim" => sync'[t2] = sync[t2]
    BY <1>3, <1>4 DEF RepositoryInv, RepoTypes
  <2> QED BY <2>3, <2>4, <2>5, CommitAdded
<1>6. CASE git[Tip].map # sync[s].base
  <2>1. git' = git
    BY <1>6
  <2> QED BY <1>3, <1>4, <2>1, SyncGoesOn DEF repoVars
<1> QED BY <1>5, <1>6

LEMMA SyncFailsKeeps == ASSUME RepositoryInv, NEW s \in Syncers, SyncFails(s) PROVE RepositoryInv'
<1> USE DEF SyncFails
<1>1. PICK r \in SyncType : r = sync[s]
  BY SyncIs
<1>2. PICK q : q = [r EXCEPT !.at = "idle"]
  OBVIOUS
<1>3. q \in SyncType /\ q.at = "idle"
  BY <1>2 DEF SyncType
<1>4. sync' = [sync EXCEPT ![s] = q]
  BY <1>1, <1>2
<1> QED BY <1>3, <1>4, SyncGoesOn

LEMMA WeekPassesKeeps == ASSUME RepositoryInv, WeekPasses PROVE RepositoryInv'
<1> USE DEF RepositoryInv, WeekPasses, repoVars, storeVars
<1>1. RepoTypes' /\ Holding' /\ WeekKept'
  BY DEF RepoTypes, Holding, WeekKept, Tip, SyncType
<1>2. Bundled'
  BY BundledStays
<1> QED BY <1>1, <1>2

LEMMA RepositoryStutters == ASSUME RepositoryInv, UNCHANGED publishingVars PROVE RepositoryInv'
<1> USE DEF RepositoryInv, publishingVars, repoVars, storeVars, syncVars
<1>1. RepoTypes' /\ Holding' /\ WeekKept'
  BY DEF RepoTypes, Holding, WeekKept, Tip
<1>2. Bundled'
  BY BundledStays
<1> QED BY <1>1, <1>2

LEMMA PublisherStepKeeps == ASSUME RepositoryInv, NEW p \in Publishers, PublisherStep(p) PROVE RepositoryInv'
BY StoreKeeps, ReconcileMapKeeps, InsertKeeps, CorrectKeeps DEF PublisherStep

LEMMA RepositoryKeeps == RepositoryInv /\ [PublishingNext]_publishingVars => RepositoryInv'
<1> SUFFICES ASSUME RepositoryInv, [PublishingNext]_publishingVars PROVE RepositoryInv'
  OBVIOUS
<1>0. Poll \in Publishers /\ Pushers \subseteq Publishers
  BY DEF Publishers
<1>1. ASSUME NEW d \in Drafts, NEW m \in 0..2, Push([version |-> d.version, code |-> d.code, map |-> m])
      PROVE  RepositoryInv'
  BY <1>1, PushKeeps
<1>2. ASSUME NEW commit \in deliveries, Lose(commit) \/ \E p \in Pushers : Deliver(p, commit)
      PROVE  RepositoryInv'
  BY <1>2, LoseKeeps, DeliverKeeps
<1>3. CASE PollStep
  BY <1>0, <1>3, PollKeeps, PublisherStepKeeps, RecordKeeps DEF PollStep
<1>4. ASSUME NEW p \in Publishers, PublishFails(p) PROVE RepositoryInv'
  BY <1>4, PublishFailsKeeps
<1>5. ASSUME NEW p \in Pushers, PublisherStep(p) PROVE RepositoryInv'
  BY <1>0, <1>5, PublisherStepKeeps
<1>6. ASSUME NEW to \in 0..2, OperatorMaps(to) PROVE RepositoryInv'
  BY <1>6, OperatorMapsKeeps
<1>7. ASSUME NEW v \in Versions, Yank(v) PROVE RepositoryInv'
  BY <1>7, YankKeeps
<1>8. ASSUME NEW s \in Syncers, Due(s) \/ SeedFirstRun(s) \/ SyncClaim(s) \/ TrackedByExtension(s)
                        \/ GetFile(s) \/ PutFile(s) \/ SyncFails(s)
      PROVE  RepositoryInv'
  BY <1>8, DueKeeps, SeedFirstRunKeeps, SyncClaimKeeps, TrackedByExtensionKeeps, GetFileKeeps, PutFileKeeps, SyncFailsKeeps
<1>9. CASE WeekPasses
  BY <1>9, WeekPassesKeeps
<1>10. CASE UNCHANGED publishingVars
  BY <1>10, RepositoryStutters
<1> QED BY <1>1, <1>2, <1>3, <1>4, <1>5, <1>6, <1>7, <1>8, <1>9, <1>10 DEF PublishingNext

(* At any time, bundles are what the repository said at one of its         *)
(* commits, publishers hold commits that are there, and however many        *)
(* replicas ask, the map sync of a week runs once.                          *)
THEOREM RepositorySafe == PublishingSpec => []PublishingInv
<1>1. RepositoryInv => PublishingInv
  <2> SUFFICES ASSUME RepositoryInv PROVE PublishingInv
    OBVIOUS
  <2>1. ASSUME NEW v \in DOMAIN bundles
        PROVE  bundles[v].content \in {git[i] : i \in 1..Tip} /\ bundles[v].content.version = v
    <3>1. PICK i \in 1..Tip, y \in BOOLEAN : \E a :
            bundles[v] = [content |-> git[i], yanked |-> y, at |-> a] /\ git[i].version = v
      BY DEF RepositoryInv, Bundled
    <3> QED BY <3>1
  <2>2. PublishingTypeOK
    BY <2>1 DEF PublishingTypeOK, RepositoryInv, RepoTypes, Holding, WeekKept
  <2>3. OneSyncAWeek
    BY DEF OneSyncAWeek, RepositoryInv, WeekKept
  <2> QED BY <2>2, <2>3 DEF PublishingInv
<1>2. PublishingSpec => []RepositoryInv
  BY PublishingStarts, RepositoryKeeps, PTL DEF PublishingSpec
<1> QED BY <1>1, <1>2, PTL

(* A publish that read the table before the operator wrote does not write   *)
(* over what was mapped by hand.                                            *)
THEOREM HandMappedStands == PublishingSpec => OperatorsWordStands
<1>1. ASSUME [PublishingNext]_publishingVars, NEW p \in Publishers, pub'[p] # pub[p], mapped.source = "operator",
             RepositoryInv
      PROVE  mapped' = mapped
  <2> USE DEF storeVars
  <2>1. mapped.to # 0
    BY <1>1 DEF RepositoryInv, RepoTypes
  <2>2. ASSUME NEW r \in Publishers, PublisherStep(r) PROVE mapped' = mapped
    BY <2>1, <2>2, <1>1 DEF PublisherStep, Store, ReconcileMap, Insert, Correct
  <2>3. CASE PollStep
    BY <2>2, <2>3 DEF PollStep, PollHead, Record, Publishers
  <2>4. ASSUME NEW to \in 0..2, OperatorMaps(to) PROVE FALSE
    BY <2>4, <1>1 DEF OperatorMaps
  <2>5. ASSUME NEW s \in Syncers, Due(s) \/ SeedFirstRun(s) \/ SyncClaim(s) \/ TrackedByExtension(s)
                        \/ GetFile(s) \/ PutFile(s) \/ SyncFails(s)
        PROVE  mapped' = mapped
    BY <2>5 DEF Due, SeedFirstRun, SyncClaim, TrackedByExtension, GetFile, PutFile, SyncFails
  <2>6. CASE UNCHANGED publishingVars
    BY <2>6 DEF publishingVars
  <2> QED BY <1>1, <2>2, <2>3, <2>4, <2>5, <2>6
          DEF PublishingNext, Push, Deliver, Lose, PublishFails, Yank, WeekPasses, Publishers
<1>2. PublishingSpec => []RepositoryInv
  BY PublishingStarts, RepositoryKeeps, PTL DEF PublishingSpec
<1>3. RepositoryInv /\ [PublishingNext]_publishingVars
      => [\A p \in Publishers : pub'[p] # pub[p] /\ mapped.source = "operator" => mapped' = mapped]_publishingVars
  BY <1>1
<1> QED BY <1>2, <1>3, PTL DEF PublishingSpec, OperatorsWordStands

-----------------------------------------------------------------------------
(***************************************************************************)
(* Restarting (Restart.tla), for any services, lifetime of a request and   *)
(* number of requests and mishaps.                                         *)
(***************************************************************************)
(* A poll holds a request that was made, and none older than the one its   *)
(* service has obeyed: who leaves has written it down.                     *)
PollKnows(s) ==
  /\ obeyed[s] <= request.n
  /\ loop[s].at # "working" =>
       loop[s].holds \in Requests /\ obeyed[s] <= loop[s].holds /\ loop[s].holds <= request.n
  /\ loop[s].at = "leaving" => obeyed[s] = loop[s].holds

(* It has exited for none it has yet to obey, nor for the one it leaves on. *)
ExitsBehind(s) ==
  /\ \A n \in Requests : exits[s][n] <= 1 /\ (obeyed[s] < n => exits[s][n] = 0)
  /\ loop[s].at = "leaving" => exits[s][loop[s].holds] = 0

RestartsInv ==
  /\ RestartTypeOK
  /\ request.target # {} => request.n # 0
  /\ \A s \in Services : PollKnows(s) /\ ExitsBehind(s)

LEMMA AskKeeps ==
  ASSUME RestartsInv, NEW target \in SUBSET Services, Ask(target)
  PROVE  RestartsInv'
<1> USE RestartAssumption
<1>1. request.n \in 0..MaxRequests /\ MaxRequests \in Nat /\ MaxTime \in Nat
  BY DEF RestartsInv, RestartTypeOK
<1>2. RestartTypeOK'
  <2>1. request' \in [target : SUBSET Services, n : 0..MaxRequests]
    BY <1>1 DEF Ask, Requests
  <2>2. request'.n = request.n + 1
    BY DEF Ask
  <2>3. askedAt' \in [1..request'.n -> 0..MaxTime]
    BY <1>1, <2>2 DEF Ask, RestartsInv, RestartTypeOK
  <2> QED  BY <2>1, <2>3 DEF Ask, RestartsInv, RestartTypeOK
<1>3. request'.n = request.n + 1 /\ request'.n # 0
  BY <1>1 DEF Ask
<1>4. \A s \in Services : PollKnows(s)' /\ ExitsBehind(s)'
  BY <1>1, <1>3 DEF Ask, RestartsInv, RestartTypeOK, PollKnows, ExitsBehind, Requests
<1> QED  BY <1>2, <1>3, <1>4 DEF RestartsInv

(* A poll moves its own service only.                                      *)
LEMMA ServicePollKeeps ==
  ASSUME RestartsInv, NEW s \in Services,
         UNCHANGED <<request, askedAt, time>>,
         loop' \in [Services -> [at : {"working", "requested", "leaving"}, holds : 0..MaxRequests]],
         obeyed' \in [Services -> 0..MaxRequests],
         exits' \in [Services -> [Requests -> Nat]],
         mishaps' \in 0..MaxMishaps,
         \A r \in Services \ {s} : loop'[r] = loop[r] /\ obeyed'[r] = obeyed[r] /\ exits'[r] = exits[r],
         PollKnows(s)', ExitsBehind(s)'
  PROVE  RestartsInv'
<1>1. RestartTypeOK'
  BY DEF RestartsInv, RestartTypeOK
<1>2. ASSUME NEW r \in Services \ {s}
      PROVE  PollKnows(r)' /\ ExitsBehind(r)'
  BY DEF RestartsInv, PollKnows, ExitsBehind
<1> QED  BY <1>1, <1>2 DEF RestartsInv

LEMMA ReadKeeps ==
  ASSUME RestartsInv, NEW s \in Services, ReadRequest(s)
  PROVE  RestartsInv'
<1> USE RestartAssumption
<1>1. request.n \in Requests
  BY DEF ReadRequest, RestartApplies, RestartsInv, RestartTypeOK, Requests
<1>2. loop' \in [Services -> [at : {"working", "requested", "leaving"}, holds : 0..MaxRequests]]
  BY <1>1 DEF ReadRequest, RestartsInv, RestartTypeOK, Requests
<1>3. loop'[s].at = "requested" /\ loop'[s].holds = request.n
  BY DEF ReadRequest, RestartsInv, RestartTypeOK
<1>4. \A r \in Services \ {s} : loop'[r] = loop[r]
  BY DEF ReadRequest, RestartsInv, RestartTypeOK
<1>5. PollKnows(s)' /\ ExitsBehind(s)'
  BY <1>1, <1>3 DEF ReadRequest, RestartsInv, RestartTypeOK, PollKnows, ExitsBehind, Requests
<1> QED  BY <1>2, <1>4, <1>5, ServicePollKeeps DEF ReadRequest, RestartsInv, RestartTypeOK

LEMMA HonourKeeps ==
  ASSUME RestartsInv, NEW s \in Services, HonourRestartRequest(s)
  PROVE  RestartsInv'
<1> USE RestartAssumption
<1>1. /\ loop[s].holds \in Requests /\ obeyed[s] <= loop[s].holds /\ loop[s].holds <= request.n
      /\ obeyed[s] \in Nat /\ loop[s].holds \in 0..MaxRequests
      /\ \A n \in Requests : exits[s][n] <= 1 /\ (obeyed[s] < n => exits[s][n] = 0)
  BY DEF HonourRestartRequest, RestartsInv, RestartTypeOK, PollKnows, ExitsBehind
<1>2. ASSUME obeyed[s] = loop[s].holds
      PROVE  RestartsInv'
  <2>1. /\ loop' = [loop EXCEPT ![s] = Idle] /\ UNCHANGED obeyed
    BY <1>2 DEF HonourRestartRequest
  <2>2. /\ loop' \in [Services -> [at : {"working", "requested", "leaving"}, holds : 0..MaxRequests]]
        /\ loop'[s].at = "working" /\ \A r \in Services \ {s} : loop'[r] = loop[r]
    BY <2>1 DEF RestartsInv, RestartTypeOK, Idle
  <2>3. PollKnows(s)' /\ ExitsBehind(s)'
    BY <1>1, <2>1, <2>2 DEF HonourRestartRequest, RestartsInv, PollKnows, ExitsBehind
  <2> QED  BY <2>1, <2>2, <2>3, ServicePollKeeps DEF HonourRestartRequest, RestartsInv, RestartTypeOK
<1>3. ASSUME obeyed[s] # loop[s].holds
      PROVE  RestartsInv'
  <2>1. /\ obeyed' = [obeyed EXCEPT ![s] = loop[s].holds]
        /\ loop' = [loop EXCEPT ![s].at = "leaving"]
    BY <1>3 DEF HonourRestartRequest
  <2>2. /\ loop' \in [Services -> [at : {"working", "requested", "leaving"}, holds : 0..MaxRequests]]
        /\ loop'[s].at = "leaving" /\ loop'[s].holds = loop[s].holds
        /\ \A r \in Services \ {s} : loop'[r] = loop[r]
    BY <2>1 DEF RestartsInv, RestartTypeOK
  <2>3. /\ obeyed' \in [Services -> 0..MaxRequests] /\ obeyed'[s] = loop[s].holds
        /\ \A r \in Services \ {s} : obeyed'[r] = obeyed[r]
    BY <1>1, <2>1 DEF RestartsInv, RestartTypeOK
  <2>4. obeyed[s] < loop[s].holds /\ exits[s][loop[s].holds] = 0
    BY <1>1, <1>3
  <2>5. PollKnows(s)'
    BY <1>1, <2>2, <2>3 DEF HonourRestartRequest, PollKnows, Requests
  <2>6. \A n \in Requests : loop[s].holds < n => obeyed[s] < n
    BY <1>1 DEF Requests
  <2>7. ExitsBehind(s)'
    BY <1>1, <2>2, <2>3, <2>4, <2>6 DEF HonourRestartRequest, ExitsBehind
  <2> QED  BY <2>2, <2>3, <2>5, <2>7, ServicePollKeeps DEF HonourRestartRequest, RestartsInv, RestartTypeOK
<1> QED  BY <1>2, <1>3

LEMMA ExitKeeps ==
  ASSUME RestartsInv, NEW s \in Services, Exit(s)
  PROVE  RestartsInv'
<1> USE RestartAssumption
<1> DEFINE n == loop[s].holds
<1>1. n \in Requests /\ obeyed[s] = n /\ exits[s][n] = 0 /\ obeyed[s] <= request.n
  BY DEF Exit, RestartsInv, PollKnows, ExitsBehind
<1>2. /\ loop' \in [Services -> [at : {"working", "requested", "leaving"}, holds : 0..MaxRequests]]
      /\ loop'[s].at = "working" /\ \A r \in Services \ {s} : loop'[r] = loop[r]
  BY DEF Exit, RestartsInv, RestartTypeOK, Idle
<1>3. PICK mine \in [Requests -> Nat] : mine = exits[s]
  BY DEF RestartsInv, RestartTypeOK
<1>4. exits' = [exits EXCEPT ![s] = [mine EXCEPT ![n] = mine[n] + 1]]
  BY <1>3 DEF Exit
<1>5. [mine EXCEPT ![n] = mine[n] + 1] \in [Requests -> Nat]
  BY <1>1
<1>6. /\ exits' \in [Services -> [Requests -> Nat]]
      /\ exits'[s] = [mine EXCEPT ![n] = mine[n] + 1]
      /\ \A r \in Services \ {s} : exits'[r] = exits[r]
  <2> HIDE DEF n
  <2> QED  BY <1>4, <1>5 DEF RestartsInv, RestartTypeOK
<1>7. /\ exits'[s][n] = 1 /\ \A m \in Requests \ {n} : exits'[s][m] = exits[s][m]
  BY <1>1, <1>3, <1>6
<1>8. PollKnows(s)'
  BY <1>1, <1>2 DEF Exit, PollKnows
<1>9. ExitsBehind(s)'
  <2>1. \A m \in Requests : exits[s][m] <= 1 /\ (obeyed[s] < m => exits[s][m] = 0)
    BY DEF RestartsInv, ExitsBehind
  <2>2. obeyed'[s] = obeyed[s]
    BY DEF Exit
  <2>3. ASSUME NEW m \in Requests
        PROVE  exits'[s][m] <= 1 /\ (obeyed'[s] < m => exits'[s][m] = 0)
    <3>1. CASE m = n
      BY <1>1, <1>7, <2>2, <3>1 DEF Requests
    <3>2. CASE m # n
      BY <1>7, <2>1, <2>2, <3>2
    <3> QED  BY <3>1, <3>2
  <2> QED  BY <1>2, <2>3 DEF ExitsBehind
<1> QED  BY <1>2, <1>6, <1>8, <1>9, ServicePollKeeps DEF Exit, RestartsInv, RestartTypeOK

LEMMA MishapKeeps ==
  ASSUME RestartsInv, NEW s \in Services, Mishap(s)
  PROVE  RestartsInv'
<1> USE RestartAssumption
<1>1. /\ loop' \in [Services -> [at : {"working", "requested", "leaving"}, holds : 0..MaxRequests]]
      /\ loop'[s].at = "working" /\ \A r \in Services \ {s} : loop'[r] = loop[r]
  BY DEF Mishap, RestartsInv, RestartTypeOK, Idle
<1>2. mishaps' \in 0..MaxMishaps
  BY DEF Mishap, RestartsInv, RestartTypeOK
<1>3. PollKnows(s)' /\ ExitsBehind(s)'
  BY <1>1 DEF Mishap, RestartsInv, PollKnows, ExitsBehind
<1> QED  BY <1>1, <1>2, <1>3, ServicePollKeeps DEF Mishap, RestartsInv, RestartTypeOK

LEMMA RestartInductive ==
  ASSUME RestartsInv, [RestartNext]_restartVars
  PROVE  RestartsInv'
<1>1. ASSUME NEW target \in {Services} \cup {{s} : s \in Services}, Ask(target)
      PROVE  RestartsInv'
  BY <1>1, AskKeeps
<1>2. ASSUME NEW s \in Services, ReadRequest(s) \/ HonourRestartRequest(s) \/ Exit(s) \/ Mishap(s)
      PROVE  RestartsInv'
  BY <1>2, ReadKeeps, HonourKeeps, ExitKeeps, MishapKeeps
<1>3. CASE TimePasses
  BY <1>3, RestartAssumption
  DEF TimePasses, RestartsInv, RestartTypeOK, PollKnows, ExitsBehind
<1>4. CASE UNCHANGED restartVars
  BY <1>4 DEF restartVars, RestartsInv, RestartTypeOK, PollKnows, ExitsBehind
<1> QED  BY <1>1, <1>2, <1>3, <1>4 DEF RestartNext

(* A service that is back before its request has run out does not leave    *)
(* for it again (maybeHonourRestartRequest), whatever was asked meanwhile  *)
(* and wherever the poll failed: it is written down before the exit.       *)
THEOREM RestartsAreObeyedOnce == RestartSpec => []RestartInv
<1>1. RestartInit => RestartsInv
  BY RestartAssumption
  DEF RestartInit, RestartsInv, RestartTypeOK, PollKnows, ExitsBehind, Idle, Requests
<1>2. RestartsInv => RestartInv
  BY DEF RestartsInv, RestartInv, RestartsOnce, ExitsBehind
<1> QED  BY <1>1, <1>2, RestartInductive, PTL DEF RestartSpec

-----------------------------------------------------------------------------
(***************************************************************************)
(* A row of the card queue (Desk.tla), for any number of clerks, orders    *)
(* and leases outlived.                                                    *)
(***************************************************************************)
SlotType == [state : {"ABSENT", "PENDING", "LEASED"} \cup Settled, orders : SUBSET Orders, marker : BOOLEAN]
HandType == [at : {"none", "working", "written", "failing"}, orders : SUBSET Orders,
             marker : BOOLEAN, mine : BOOLEAN, same : BOOLEAN]
DeskType == [at : {"idle", "merging"}, orders : SUBSET Orders, marker : BOOLEAN, fresh : BOOLEAN]

Accepted == {o \in Orders : fate[o] = "accepted"}

(* A worker whose lease is the row's has the row's orders; one that goes   *)
(* by a marker has written a card for all of its own.                      *)
HandAgrees ==
  /\ hand.mine => hand.at # "none" /\ slot.state = "LEASED" /\ slot.orders = hand.orders
  /\ hand.at = "written" => hand.marker
  /\ hand.marker => hand.orders \cap Accepted = {}

(* No row and no copy holds an order that has not been given.              *)
OrdersGiven == \A o \in slot.orders \cup hand.orders : fate[o] # "free"

(* What a clerk read and nobody has written since is the row.              *)
DeskAgrees == \A c \in Clerks : desk[c].fresh =>
  slot.state = "PENDING" /\ desk[c].orders = slot.orders /\ desk[c].marker = slot.marker

OInv == DeskTypeOK /\ OrdersStand /\ MarkersAreTrue /\ HandAgrees /\ OrdersGiven /\ DeskAgrees

LEMMA DeskShapes ==
  ASSUME OInv
  PROVE  /\ slot \in SlotType /\ hand \in HandType /\ desk \in [Clerks -> DeskType]
         /\ fate \in [Orders -> Fates] /\ MaxOverruns \in Nat
         /\ slot.orders \subseteq Orders /\ hand.orders \subseteq Orders
         /\ NoHand \in HandType /\ ~NoHand.mine /\ NoHand.at = "none" /\ ~NoHand.marker /\ NoHand.orders = {}
  BY DeskAssumption DEF OInv, DeskTypeOK, SlotType, HandType, DeskType, NoHand

LEMMA StaleOf ==
  ASSUME OInv
  PROVE  Stale(desk) \in [Clerks -> DeskType] /\ \A c \in Clerks : ~Stale(desk)[c].fresh
<1>1. ASSUME NEW c \in Clerks
      PROVE  Stale(desk)[c] \in DeskType /\ ~Stale(desk)[c].fresh
  <2>1. PICK d \in DeskType : d = desk[c]
    BY DeskShapes
  <2>2. PICK e : e = [d EXCEPT !.fresh = FALSE]
    OBVIOUS
  <2>3. e \in DeskType /\ ~e.fresh
    BY <2>2 DEF DeskType
  <2> QED  BY <2>1, <2>2, <2>3 DEF Stale
<1> QED  BY <1>1 DEF Stale

(* The row with another state, and what else a statement writes of it.     *)
LEMMA SlotWith ==
  ASSUME OInv, NEW new \in {"ABSENT", "PENDING", "LEASED"} \cup Settled
  PROVE  /\ [slot EXCEPT !.state = new] \in SlotType
         /\ [slot EXCEPT !.state = new].state = new
         /\ [slot EXCEPT !.state = new].orders = slot.orders
         /\ [slot EXCEPT !.state = new].marker = slot.marker
  BY DeskShapes DEF SlotType

LEMMA EndingOf ==
  ASSUME OInv, NEW os, NEW how \in Fates \ {"free", "accepted"}
  PROVE  /\ Ending(os, how) \in [Orders -> Fates]
         /\ \A o \in Orders : /\ Ending(os, how)[o] = "accepted" <=> fate[o] = "accepted" /\ o \notin os
                              /\ Ending(os, how)[o] = "free" <=> fate[o] = "free"
  BY DeskShapes DEF Ending, Fates

(* Any statement on the row: what it must leave true.                      *)
LEMMA RowKeeps ==
  ASSUME OInv, slot' \in SlotType, hand' \in HandType, desk' = Stale(desk),
         fate' \in [Orders -> Fates], overruns' \in 0..MaxOverruns,
         OrdersStand', MarkersAreTrue', HandAgrees', OrdersGiven'
  PROVE  OInv'
<1>1. DeskTypeOK'
  BY StaleOf DEF DeskTypeOK, SlotType, HandType, DeskType
<1>2. DeskAgrees'
  BY StaleOf DEF DeskAgrees
<1> QED  BY <1>1, <1>2 DEF OInv

LEMMA QueueKeeps ==
  ASSUME OInv, NEW o \in Orders, NEW states \in SUBSET ({"ABSENT"} \cup Settled), Queue(o, states)
  PROVE  OInv'
<1>1. PICK s : s = [state |-> "PENDING", orders |-> {o}, marker |-> FALSE]
  OBVIOUS
<1>2. s \in SlotType /\ s.state = "PENDING" /\ s.orders = {o} /\ ~s.marker
  BY <1>1 DEF SlotType
<1>3. slot' = s /\ desk' = Stale(desk) /\ hand' = hand /\ overruns' = overruns /\ fate[o] = "free"
      /\ slot.state \in {"ABSENT"} \cup Settled
  BY <1>1 DEF Queue, Writes, NextOrder
<1>4. PICK f : f = Ending(slot.orders, "withdrawn")
  OBVIOUS
<1>5. /\ f \in [Orders -> Fates]
      /\ \A p \in Orders : /\ f[p] = "accepted" <=> fate[p] = "accepted" /\ p \notin slot.orders
                           /\ f[p] = "free" <=> fate[p] = "free"
  BY <1>4, EndingOf DEF Fates
<1>6. fate' = [f EXCEPT ![o] = "accepted"]
  BY <1>4 DEF Queue
<1>7. fate' \in [Orders -> Fates] /\ fate'[o] = "accepted" /\ \A p \in Orders \ {o} : fate'[p] = f[p]
  BY <1>5, <1>6 DEF Fates
<1>8. \A p \in Orders \ {o} : fate'[p] # "accepted"
  BY <1>5, <1>7 DEF OInv, OrdersStand
<1>9. ~hand.mine
  BY <1>3 DEF OInv, HandAgrees, Settled
<1>10. OrdersStand' /\ MarkersAreTrue'
  BY <1>2, <1>3, <1>8, <1>9 DEF OrdersStand, MarkersAreTrue
<1>11. o \notin hand.orders
  BY <1>3 DEF OInv, OrdersGiven
<1>12. HandAgrees' /\ OrdersGiven'
  <2>1. \A p \in hand.orders : fate'[p] # "free" /\ fate'[p] # "accepted"
    BY <1>5, <1>7, <1>8, <1>11, DeskShapes DEF OInv, OrdersGiven
  <2> QED  BY <1>2, <1>3, <1>7, <1>9, <2>1 DEF OInv, HandAgrees, OrdersGiven, Accepted
<1> QED  BY <1>2, <1>3, <1>7, <1>10, <1>12, RowKeeps, DeskShapes DEF OInv, DeskTypeOK

(* A row that keeps its orders, or has none to lose.                       *)
LEMMA SameOrdersKeep ==
  ASSUME OInv, NEW row \in SlotType, Writes(row), fate' = fate,
         hand' \in HandType, overruns' \in 0..MaxOverruns,
         row.orders = slot.orders, row.marker => slot.marker,
         row.state \in {"PENDING", "LEASED", "DEAD_LETTER"} \/ Accepted = {},
         HandAgrees', OrdersGiven', hand'.mine => row.orders = hand'.orders
  PROVE  OInv'
<1>1. OrdersStand' /\ MarkersAreTrue'
  BY DEF Writes, OInv, OrdersStand, MarkersAreTrue, Accepted
<1> QED  BY <1>1, RowKeeps, DeskShapes DEF Writes

LEMMA EnqueueKeeps == ASSUME OInv, Enqueue PROVE OInv'
<1>1. PICK s : s = [NoSlot EXCEPT !.state = "PENDING"]
  OBVIOUS
<1>2. s \in SlotType /\ s.orders = {} /\ ~s.marker
  BY <1>1 DEF SlotType, NoSlot
<1>3. slot' = s /\ desk' = Stale(desk) /\ UNCHANGED <<hand, fate, overruns>> /\ slot.state = "ABSENT"
  BY <1>1 DEF Enqueue, Writes
<1>4. ~hand.mine /\ \A o \in Orders : fate[o] # "accepted"
  BY <1>3 DEF OInv, HandAgrees, OrdersStand
<1>5. OrdersStand' /\ MarkersAreTrue' /\ HandAgrees' /\ OrdersGiven'
  BY <1>2, <1>3, <1>4 DEF OInv, OrdersStand, MarkersAreTrue, HandAgrees, OrdersGiven, Accepted
<1> QED  BY <1>2, <1>3, <1>5, RowKeeps, DeskShapes DEF OInv, DeskTypeOK

(* The edit route writes over the version it read, or not at all.          *)
LEMMA MergeKeeps ==
  ASSUME OInv, NEW c \in Clerks, NEW o \in Orders, PatchRow(c, o)
  PROVE  OInv'
<1>1. PICK d \in DeskType : d = desk[c] /\ d.fresh /\ slot.state = "PENDING"
                            /\ d.orders = slot.orders /\ d.marker = slot.marker
  BY DeskShapes DEF PatchRow, OInv, DeskAgrees
<1>2. PICK s : s = [state |-> "PENDING", orders |-> d.orders \cup {o}, marker |-> d.marker]
  OBVIOUS
<1>3. s \in SlotType /\ s.state = "PENDING" /\ s.orders = slot.orders \cup {o} /\ s.marker = slot.marker
  BY <1>1, <1>2 DEF SlotType, DeskType
<1>4. slot' = s /\ UNCHANGED <<hand, overruns>> /\ fate[o] = "free"
  BY <1>1, <1>2 DEF PatchRow, Merge, NextOrder
<1>5. fate' = [fate EXCEPT ![o] = IF slot.marker THEN "late" ELSE "accepted"]
  BY <1>1 DEF PatchRow, Merge
<1>6. fate' \in [Orders -> Fates] /\ fate'[o] = (IF slot.marker THEN "late" ELSE "accepted")
      /\ \A p \in Orders \ {o} : fate'[p] = fate[p]
  BY <1>5, DeskShapes DEF Fates
<1>7. NotReading \in DeskType /\ ~NotReading.fresh
  BY DEF NotReading, DeskType
<1>8. desk' = [Stale(desk) EXCEPT ![c] = NotReading]
  BY DEF PatchRow, Merge
<1>9. desk' \in [Clerks -> DeskType] /\ \A e \in Clerks : ~desk'[e].fresh
  BY <1>7, <1>8, StaleOf
<1>10. ~hand.mine /\ o \notin hand.orders
  BY <1>1, <1>4 DEF OInv, HandAgrees, OrdersGiven
<1>11. OrdersStand'
  BY <1>3, <1>4, <1>6, <1>10 DEF OInv, OrdersStand
<1>12. MarkersAreTrue'
  BY <1>3, <1>4, <1>6, DeskShapes DEF OInv, MarkersAreTrue
<1>13. HandAgrees' /\ OrdersGiven'
  <2>1. \A p \in hand.orders : fate'[p] = fate[p]
    BY <1>6, <1>10, DeskShapes
  <2>2. \A p \in slot.orders : fate'[p] # "free"
    BY <1>6, DeskShapes DEF OInv, OrdersGiven
  <2>3. HandAgrees'
    BY <1>4, <1>10, <2>1 DEF OInv, HandAgrees, Accepted
  <2> QED  BY <1>3, <1>4, <1>6, <2>1, <2>2, <2>3 DEF OInv, OrdersGiven
<1>14. DeskTypeOK'
  BY <1>3, <1>4, <1>6, <1>9, DeskShapes DEF OInv, DeskTypeOK, SlotType, DeskType
<1> QED  BY <1>9, <1>11, <1>12, <1>13, <1>14 DEF OInv, DeskAgrees

LEMMA ReadRowKeeps == ASSUME OInv, NEW c \in Clerks, ReadRow(c) \/ LoseRace(c) PROVE OInv'
<1>1. UNCHANGED <<slot, hand, fate, overruns>>
  BY DEF ReadRow, LoseRace
<1>2. PICK d \in DeskType : desk' = [desk EXCEPT ![c] = d] /\
        (d.fresh => slot.state = "PENDING" /\ d.orders = slot.orders /\ d.marker = slot.marker)
  <2>1. CASE ReadRow(c)
    <3>1. PICK d : d = [at |-> "merging", orders |-> slot.orders, marker |-> slot.marker, fresh |-> TRUE]
      OBVIOUS
    <3>2. d \in DeskType /\ d.orders = slot.orders /\ d.marker = slot.marker
      BY <3>1, DeskShapes DEF DeskType, SlotType
    <3> QED  BY <2>1, <3>1, <3>2 DEF ReadRow
  <2>2. CASE LoseRace(c)
    <3>1. NotReading \in DeskType /\ ~NotReading.fresh
      BY DEF NotReading, DeskType
    <3> QED  BY <2>2, <3>1 DEF LoseRace
  <2> QED  BY <2>1, <2>2
<1>3. desk' \in [Clerks -> DeskType] /\ DeskAgrees'
  BY <1>1, <1>2, DeskShapes DEF OInv, DeskAgrees
<1>4. DeskTypeOK'
  BY <1>1, <1>3 DEF OInv, DeskTypeOK, DeskType
<1> QED  BY <1>1, <1>3, <1>4
     DEF OInv, OrdersStand, MarkersAreTrue, HandAgrees, OrdersGiven, Accepted

LEMMA RetryKeeps == ASSUME OInv, RetryRow PROVE OInv'
<1>1. PICK s : s = [slot EXCEPT !.state = "PENDING"]
  OBVIOUS
<1>2. s \in SlotType /\ s.state = "PENDING" /\ s.orders = slot.orders /\ s.marker = slot.marker
  BY <1>1, SlotWith
<1>3. Writes(s) /\ UNCHANGED <<hand, fate, overruns>> /\ ~hand.mine
  BY <1>1 DEF RetryRow, OInv, HandAgrees
<1>4. HandAgrees' /\ OrdersGiven'
  BY <1>2, <1>3 DEF Writes, OInv, HandAgrees, OrdersGiven, Accepted
<1> QED  BY <1>2, <1>3, <1>4, SameOrdersKeep, DeskShapes DEF OInv, DeskTypeOK

LEMMA ReorderKeeps == ASSUME OInv, Reorder PROVE OInv'
<1>1. Writes(slot) /\ UNCHANGED <<hand, fate, overruns>> /\ slot' = slot
  BY DEF Reorder, Writes
<1>2. HandAgrees' /\ OrdersGiven'
  BY <1>1 DEF OInv, HandAgrees, OrdersGiven, Accepted
<1>3. OrdersStand' /\ MarkersAreTrue'
  BY <1>1 DEF OInv, OrdersStand, MarkersAreTrue
<1> QED  BY <1>1, <1>2, <1>3, RowKeeps, DeskShapes DEF Writes, OInv, DeskTypeOK

LEMMA RemoveKeeps == ASSUME OInv, RemoveRow PROVE OInv'
<1>1. NoSlot \in SlotType /\ NoSlot.orders = {} /\ ~NoSlot.marker
  BY DEF NoSlot, SlotType
<1>2. PICK h \in HandType : h = hand
  BY DeskShapes
<1>3. PICK g : g = [h EXCEPT !.mine = FALSE, !.same = FALSE]
  OBVIOUS
<1>4. g \in HandType /\ ~g.mine /\ g.at = h.at /\ g.orders = h.orders /\ g.marker = h.marker
  BY <1>3 DEF HandType
<1>5. slot' = NoSlot /\ desk' = Stale(desk) /\ hand' = g /\ overruns' = overruns
  BY <1>2, <1>3 DEF RemoveRow, Writes
<1>6. /\ fate' \in [Orders -> Fates]
      /\ \A o \in Orders : /\ fate'[o] = "accepted" <=> fate[o] = "accepted" /\ o \notin slot.orders
                           /\ fate'[o] = "free" <=> fate[o] = "free"
  BY EndingOf DEF RemoveRow, Fates
<1>7. \A o \in Orders : fate'[o] # "accepted"
  BY <1>6 DEF OInv, OrdersStand
<1>8. OrdersStand' /\ MarkersAreTrue'
  BY <1>1, <1>5, <1>7 DEF OrdersStand, MarkersAreTrue
<1>9. HandAgrees' /\ OrdersGiven'
  BY <1>1, <1>2, <1>4, <1>5, <1>6, <1>7, DeskShapes DEF OInv, HandAgrees, OrdersGiven, Accepted
<1> QED  BY <1>1, <1>4, <1>5, <1>6, <1>8, <1>9, RowKeeps, DeskShapes DEF OInv, DeskTypeOK

-----------------------------------------------------------------------------
(* The worker                                                              *)

LEMMA ClaimRowKeeps == ASSUME OInv, ClaimRow PROVE OInv'
<1>1. PICK s : s = [slot EXCEPT !.state = "LEASED"]
  OBVIOUS
<1>2. s \in SlotType /\ s.state = "LEASED" /\ s.orders = slot.orders /\ s.marker = slot.marker
  BY <1>1, SlotWith
<1>3. PICK h : h = [at |-> "working", orders |-> slot.orders, marker |-> slot.marker,
                    mine |-> TRUE, same |-> TRUE]
  OBVIOUS
<1>4. h \in HandType /\ h.at = "working" /\ h.orders = slot.orders /\ h.marker = slot.marker
  BY <1>3, DeskShapes DEF HandType, SlotType
<1>5. Writes(s) /\ slot' = s /\ hand' = h /\ UNCHANGED <<fate, overruns>>
  BY <1>1, <1>3 DEF ClaimRow, Writes
<1>6. HandAgrees'
  BY <1>2, <1>4, <1>5, DeskShapes DEF OInv, MarkersAreTrue, HandAgrees, Accepted
<1>7. OrdersGiven'
  BY <1>2, <1>4, <1>5 DEF OInv, OrdersGiven
<1> QED  BY <1>2, <1>4, <1>5, <1>6, <1>7, SameOrdersKeep, DeskShapes DEF OInv, DeskTypeOK

(* A report that is late changes nothing but the worker.                   *)
LEMMA HandGone ==
  ASSUME OInv, hand' = NoHand, UNCHANGED <<slot, desk, fate, overruns>>
  PROVE  OInv'
<1>1. DeskTypeOK'
  BY DeskShapes DEF OInv, DeskTypeOK, HandType
<1> QED  BY <1>1, DeskShapes
     DEF OInv, OrdersStand, MarkersAreTrue, HandAgrees, OrdersGiven, DeskAgrees, Accepted

(* One that is in time finds the row's orders in the worker's hand.        *)
LEMMA InTime ==
  ASSUME OInv, hand.mine
  PROVE  slot.state = "LEASED" /\ slot.orders = hand.orders /\ Accepted \subseteq hand.orders
  BY DEF OInv, HandAgrees, OrdersStand, Accepted

LEMMA WriteCardKeeps == ASSUME OInv, WriteCard PROVE OInv'
<1>1. PICK h \in HandType : h = hand /\ h.at = "working"
  BY DeskShapes DEF WriteCard
<1>2. PICK g : g = [h EXCEPT !.at = "written", !.marker = TRUE]
  OBVIOUS
<1>3. g \in HandType /\ g.at = "written" /\ g.marker /\ g.orders = h.orders /\ g.mine = h.mine
  BY <1>2 DEF HandType
<1>4. hand' = g /\ UNCHANGED <<slot, desk, overruns>>
  BY <1>1, <1>2 DEF WriteCard
<1>5. /\ fate' \in [Orders -> Fates]
      /\ \A o \in Orders : /\ fate'[o] = "accepted" <=> fate[o] = "accepted" /\ o \notin hand.orders
                           /\ fate'[o] = "free" <=> fate[o] = "free"
  BY EndingOf DEF WriteCard, Fates
<1>6. OrdersStand' /\ MarkersAreTrue'
  BY <1>1, <1>3, <1>4, <1>5, DeskShapes DEF OInv, OrdersStand, MarkersAreTrue
<1>7. HandAgrees' /\ OrdersGiven'
  BY <1>1, <1>3, <1>4, <1>5, DeskShapes DEF OInv, HandAgrees, OrdersGiven, Accepted
<1>8. DeskTypeOK'
  BY <1>3, <1>4, <1>5 DEF OInv, DeskTypeOK, HandType
<1> QED  BY <1>4, <1>6, <1>7, <1>8 DEF OInv, DeskAgrees

LEMMA DeferKeeps == ASSUME OInv, DeferRow PROVE OInv'
<1>1. hand.marker
  BY DEF DeferRow, OInv, HandAgrees
<1>2. CASE ~hand.mine
  BY <1>2, HandGone DEF DeferRow, Reports
<1>3. CASE hand.mine
  <2>1. PICK s : s = [state |-> "PENDING", orders |-> hand.orders, marker |-> TRUE]
    OBVIOUS
  <2>2. s \in SlotType /\ s.orders = hand.orders
    BY <2>1, DeskShapes DEF SlotType
  <2>3. slot' = s /\ desk' = Stale(desk) /\ fate' = fate /\ hand' = NoHand /\ overruns' = overruns
    BY <1>3, <2>1 DEF DeferRow, Reports, Writes
  <2>4. \A o \in Orders : fate[o] # "accepted"
    BY <1>1, <1>3, InTime DEF OInv, HandAgrees, Accepted
  <2>5. OrdersStand' /\ MarkersAreTrue' /\ HandAgrees' /\ OrdersGiven'
    BY <2>2, <2>3, <2>4, DeskShapes DEF OInv, OrdersStand, MarkersAreTrue, HandAgrees, OrdersGiven, Accepted
  <2> QED  BY <2>2, <2>3, <2>5, RowKeeps, DeskShapes DEF OInv, DeskTypeOK
<1> QED  BY <1>2, <1>3, DeskShapes DEF HandType

LEMMA FinishRowKeeps == ASSUME OInv, FinishRow PROVE OInv'
<1>1. CASE ~hand.mine
  BY <1>1, HandGone DEF FinishRow, Reports
<1>2. CASE hand.mine
  <2>1. PICK s : s = [slot EXCEPT !.state = "DONE"]
    OBVIOUS
  <2>2. s \in SlotType /\ s.orders = slot.orders /\ s.marker = slot.marker
    BY <2>1, SlotWith DEF Settled
  <2>3. PICK f : f = IF hand.marker THEN fate ELSE Ending(hand.orders, "moot")
    OBVIOUS
  <2>4. slot' = s /\ desk' = Stale(desk) /\ fate' = f /\ hand' = NoHand /\ overruns' = overruns
    BY <1>2, <2>1, <2>3 DEF FinishRow, Reports, Writes
  <2>5. /\ f \in [Orders -> Fates] /\ \A o \in Orders : f[o] = "free" <=> fate[o] = "free"
        /\ \A o \in Orders : f[o] # "accepted"
    <3>1. CASE hand.marker
      BY <1>2, <2>3, <3>1, InTime, DeskShapes DEF OInv, HandAgrees, Accepted
    <3>2. CASE ~hand.marker
      <4>1. f = Ending(hand.orders, "moot")
        BY <2>3, <3>2
      <4>2. /\ f \in [Orders -> Fates]
            /\ \A o \in Orders : /\ f[o] = "accepted" <=> fate[o] = "accepted" /\ o \notin hand.orders
                                 /\ f[o] = "free" <=> fate[o] = "free"
        BY <4>1, EndingOf DEF Fates
      <4> QED  BY <1>2, <4>2, InTime DEF Accepted
    <3> QED  BY <3>1, <3>2
  <2>6. OrdersStand' /\ MarkersAreTrue' /\ HandAgrees' /\ OrdersGiven'
    BY <2>2, <2>4, <2>5, DeskShapes DEF OInv, OrdersStand, MarkersAreTrue, HandAgrees, OrdersGiven, Accepted
  <2> QED  BY <2>2, <2>4, <2>5, <2>6, RowKeeps, DeskShapes DEF OInv, DeskTypeOK
<1> QED  BY <1>1, <1>2, DeskShapes DEF HandType

(* The worker's own copy goes over the row's, and what an edit had added   *)
(* since is written over: such an order is accepted no longer.             *)
LEMMA ClearKeeps == ASSUME OInv, ClearVerifyState PROVE OInv'
<1>1. PICK h \in HandType : h = hand /\ h.at = "working" /\ h.marker
  BY DeskShapes DEF ClearVerifyState
<1>2. PICK g : g = [h EXCEPT !.at = "failing"]
  OBVIOUS
<1>3. g \in HandType /\ g.at = "failing" /\ g.marker /\ g.orders = h.orders /\ g.mine = h.mine
  BY <1>1, <1>2 DEF HandType
<1>4. hand' = g /\ overruns' = overruns
  BY <1>1, <1>2 DEF ClearVerifyState
<1>5. CASE ~hand.same
  <2>1. UNCHANGED <<slot, desk, fate>>
    BY <1>5 DEF ClearVerifyState
  <2>2. OrdersStand' /\ MarkersAreTrue' /\ HandAgrees' /\ OrdersGiven' /\ DeskAgrees'
    BY <1>1, <1>3, <1>4, <2>1 DEF OInv, OrdersStand, MarkersAreTrue, HandAgrees, OrdersGiven, DeskAgrees, Accepted
  <2>3. DeskTypeOK'
    BY <1>3, <1>4, <2>1 DEF OInv, DeskTypeOK, HandType
  <2> QED  BY <2>2, <2>3 DEF OInv
<1>6. CASE hand.same
  <2>1. PICK s : s = [slot EXCEPT !.orders = hand.orders, !.marker = FALSE]
    OBVIOUS
  <2>2. s \in SlotType /\ s.state = slot.state /\ s.orders = hand.orders /\ ~s.marker
    BY <2>1, DeskShapes DEF SlotType
  <2>3. slot' = s /\ desk' = Stale(desk) /\ fate' = Ending(slot.orders \ hand.orders, "overwritten")
    BY <1>6, <2>1 DEF ClearVerifyState, Writes
  <2>4. /\ fate' \in [Orders -> Fates]
        /\ \A o \in Orders : /\ fate'[o] = "accepted" <=> fate[o] = "accepted" /\ o \notin slot.orders \ hand.orders
                             /\ fate'[o] = "free" <=> fate[o] = "free"
    BY <2>3, EndingOf DEF Fates
  <2>5. \A o \in Orders : fate'[o] # "accepted"
    BY <1>1, <2>4 DEF OInv, OrdersStand, HandAgrees, Accepted
  <2>6. OrdersStand' /\ MarkersAreTrue'
    BY <2>2, <2>3, <2>5 DEF OrdersStand, MarkersAreTrue
  <2>7. /\ slot'.orders = hand.orders /\ slot'.state = slot.state
        /\ hand'.orders = hand.orders /\ hand'.mine = hand.mine /\ hand'.at = "failing"
    BY <1>1, <1>3, <1>4, <2>2, <2>3
  <2>8. HandAgrees'
    BY <2>5, <2>7 DEF OInv, HandAgrees, Accepted
  <2>9. OrdersGiven'
    BY <2>4, <2>7, DeskShapes DEF OInv, OrdersGiven
  <2> QED  BY <1>3, <1>4, <2>2, <2>3, <2>4, <2>6, <2>8, <2>9, RowKeeps, DeskShapes DEF OInv, DeskTypeOK
<1> QED  BY <1>5, <1>6, DeskShapes DEF HandType

LEMMA FailKeeps == ASSUME OInv, FailRow PROVE OInv'
<1>1. PICK new \in {"PENDING", "DEAD_LETTER"} : Reports([slot EXCEPT !.state = new], fate)
  BY DEF FailRow
<1>2. CASE ~hand.mine
  BY <1>1, <1>2, HandGone DEF Reports
<1>3. CASE hand.mine
  <2>1. PICK s : s = [slot EXCEPT !.state = new]
    OBVIOUS
  <2>2. s \in SlotType /\ s.state = new /\ s.orders = slot.orders /\ s.marker = slot.marker
    BY <2>1, SlotWith DEF Settled
  <2>3. Writes(s) /\ fate' = fate /\ hand' = NoHand /\ overruns' = overruns
    BY <1>1, <1>3, <2>1 DEF Reports
  <2>4. HandAgrees' /\ OrdersGiven'
    BY <2>2, <2>3, DeskShapes DEF Writes, OInv, HandAgrees, OrdersGiven, Accepted
  <2> QED  BY <2>2, <2>3, <2>4, SameOrdersKeep, DeskShapes DEF OInv, DeskTypeOK
<1> QED  BY <1>2, <1>3, DeskShapes DEF HandType

LEMMA SweepRowKeeps == ASSUME OInv, SweepRow PROVE OInv'
<1>1. PICK s : s = [slot EXCEPT !.state = "PENDING"]
  OBVIOUS
<1>2. s \in SlotType /\ s.state = "PENDING" /\ s.orders = slot.orders /\ s.marker = slot.marker
  BY <1>1, SlotWith
<1>3. PICK h \in HandType : h = hand
  BY DeskShapes
<1>4. PICK g : g = [h EXCEPT !.mine = FALSE]
  OBVIOUS
<1>5. g \in HandType /\ ~g.mine /\ g.at = h.at /\ g.orders = h.orders /\ g.marker = h.marker
  BY <1>4 DEF HandType
<1>6. Writes(s) /\ hand' = g /\ fate' = fate
  BY <1>1, <1>3, <1>4 DEF SweepRow
<1>7. overruns' \in 0..MaxOverruns
  BY DeskShapes DEF SweepRow, OInv, DeskTypeOK
<1>8. HandAgrees' /\ OrdersGiven'
  BY <1>2, <1>3, <1>5, <1>6, DeskShapes DEF Writes, OInv, HandAgrees, OrdersGiven, Accepted
<1> QED  BY <1>2, <1>5, <1>6, <1>7, <1>8, SameOrdersKeep

LEMMA DeskInductive == ASSUME OInv, [DeskNext]_deskVars PROVE OInv'
<1>1. ASSUME NEW o \in Orders, QueueAction(o) \/ CreateManual(o) PROVE OInv'
  BY <1>1, QueueKeeps DEF QueueAction, CreateManual
<1>2. ASSUME NEW c \in Clerks, ReadRow(c) \/ LoseRace(c) \/ \E o \in Orders : PatchRow(c, o)
      PROVE  OInv'
  BY <1>2, ReadRowKeeps, MergeKeeps
<1>3. CASE Enqueue \/ RetryRow \/ RemoveRow \/ Reorder
  BY <1>3, EnqueueKeeps, RetryKeeps, RemoveKeeps, ReorderKeeps
<1>4. CASE ClaimRow \/ WriteCard \/ DeferRow \/ FinishRow \/ ClearVerifyState \/ FailRow \/ SweepRow
  BY <1>4, ClaimRowKeeps, WriteCardKeeps, DeferKeeps, FinishRowKeeps, ClearKeeps, FailKeeps, SweepRowKeeps
<1>5. CASE Crash
  BY <1>5, HandGone DEF Crash
<1>6. CASE UNCHANGED deskVars
  BY <1>6 DEF deskVars, OInv, DeskTypeOK, OrdersStand, MarkersAreTrue, HandAgrees, OrdersGiven, DeskAgrees, Accepted
<1> QED  BY <1>1, <1>2, <1>3, <1>4, <1>5, <1>6 DEF DeskNext

(* An order the platform accepted is neither lost nor reported done before *)
(* a card carried it, by edits at one time, an edit across a claim or a    *)
(* sweep, and a worker past its lease; and a marker is of a card that was  *)
(* written for what the row asks.                                          *)
THEOREM OrdersAreKept == DeskSpec => []DeskInv
<1>1. DeskInit => OInv
  <2> SUFFICES ASSUME DeskInit PROVE OInv
    OBVIOUS
  <2>1. NoSlot \in SlotType /\ NoSlot.orders = {} /\ ~NoSlot.marker
    BY DEF NoSlot, SlotType
  <2>2. NoHand \in HandType /\ ~NoHand.mine /\ NoHand.at = "none" /\ ~NoHand.marker /\ NoHand.orders = {}
    BY DEF NoHand, HandType
  <2>3. NotReading \in DeskType /\ ~NotReading.fresh
    BY DEF NotReading, DeskType
  <2>4. desk \in [Clerks -> DeskType] /\ \A c \in Clerks : ~desk[c].fresh
    BY <2>3 DEF DeskInit
  <2>5. fate \in [Orders -> Fates] /\ \A o \in Orders : fate[o] # "accepted"
    BY DEF DeskInit, Fates
  <2>6. overruns \in 0..MaxOverruns
    BY DeskAssumption DEF DeskInit
  <2>7. DeskTypeOK
    BY <2>1, <2>2, <2>4, <2>5, <2>6 DEF DeskInit, DeskTypeOK, SlotType, HandType, DeskType
  <2>8. OrdersStand /\ MarkersAreTrue /\ HandAgrees /\ OrdersGiven /\ DeskAgrees
    BY <2>1, <2>2, <2>4, <2>5 DEF DeskInit, OrdersStand, MarkersAreTrue, HandAgrees, OrdersGiven, DeskAgrees
  <2> QED  BY <2>7, <2>8 DEF OInv
<1>2. OInv => DeskInv
  BY DEF OInv, DeskInv
<1> QED  BY <1>1, <1>2, DeskInductive, PTL DEF DeskSpec

-----------------------------------------------------------------------------
(***************************************************************************)
(* The error feed (Feed.tla), for any rows, any number of clearing         *)
(* requests and any limits on what a reader loads and a clearing takes.    *)
(***************************************************************************)
EntryType == [is : {"fine", "failing", "gone"}, at : 0..MaxEvents]
AckType == [of : 0..MaxEvents, at : 0..MaxEvents]

(* An acknowledgement is of a failure that was read, and what was read of  *)
(* a row is no younger than the row.                                       *)
AcksWereRead == \A s \in Subjects : acks[s].at > 0 => <<s, acks[s].of>> \in read
ReadsArePast == \A s \in Subjects, t \in 0..MaxEvents : <<s, t>> \in read => t <= entry[s].at
RowsArePast == \A s \in Subjects : entry[s].at <= clock

FdInv == FeedTypeOK /\ AcksWereRead /\ ReadsArePast /\ RowsArePast

LEMMA FeedShapes ==
  ASSUME FdInv
  PROVE  /\ entry \in [Subjects -> EntryType] /\ acks \in [Subjects -> AckType]
         /\ clearing \in [Clearers -> [at : {"idle", "read", "written"}, read : SUBSET read]]
         /\ clock \in 0..MaxEvents /\ MaxEvents \in Nat /\ read \subseteq Subjects \X (0..MaxEvents)
         /\ NoAck \in AckType /\ NoAck.at = 0
  BY FeedAssumption DEF FdInv, FeedTypeOK, EntryType, AckType, NoAck

LEMMA TickOf == ASSUME FdInv, Ticks PROVE clock' = clock + 1 /\ clock' \in 0..MaxEvents
  BY FeedShapes DEF Ticks

LEMMA ChangesKeep ==
  ASSUME FdInv, NEW s \in Subjects, NEW is \in {"fine", "failing", "gone"}, Changes(s, is)
  PROVE  FdInv'
<1>1. PICK e : e = [is |-> is, at |-> clock']
  OBVIOUS
<1>2. e \in EntryType /\ e.at = clock + 1 /\ clock' = clock + 1 /\ clock' \in 0..MaxEvents
  BY <1>1, TickOf DEF EntryType, Changes
<1>3. /\ entry' = [entry EXCEPT ![s] = e]
      /\ acks' = acks /\ clearing' = clearing /\ read' = read
  BY <1>1 DEF Changes
<1>4. /\ entry' \in [Subjects -> EntryType] /\ entry'[s] = e
      /\ \A t \in Subjects \ {s} : entry'[t] = entry[t]
  BY <1>2, <1>3, FeedShapes
<1>5. FeedTypeOK'
  BY <1>2, <1>3, <1>4, FeedShapes DEF FdInv, FeedTypeOK, EntryType
<1>6. AcksWereRead'
  BY <1>3 DEF FdInv, AcksWereRead
<1>7. \A t \in Subjects : entry[t].at \in 0..clock /\ entry[t].at <= entry'[t].at /\ entry'[t].at <= clock'
  BY <1>2, <1>4, FeedShapes DEF FdInv, RowsArePast, EntryType
<1>8. ReadsArePast'
  BY <1>3, <1>4, <1>7, FeedShapes DEF FdInv, ReadsArePast, EntryType
<1>9. RowsArePast'
  BY <1>7 DEF RowsArePast
<1> QED  BY <1>5, <1>6, <1>8, <1>9 DEF FdInv

LEMMA ReadsKeep ==
  ASSUME FdInv, NEW c \in Clearers, NEW ss \in SUBSET Subjects, Reads(c, ss)
  PROVE  FdInv'
<1>1. PICK seen : seen = {<<s, entry[s].at>> : s \in ss}
  OBVIOUS
<1>2. PICK k : k = [at |-> "read", read |-> seen]
  OBVIOUS
<1>3. /\ clearing' = [clearing EXCEPT ![c] = k] /\ read' = read \cup seen
      /\ entry' = entry /\ acks' = acks /\ clock' = clock
  BY <1>1, <1>2 DEF Reads
<1>4. seen \subseteq Subjects \X (0..MaxEvents)
  BY <1>1, FeedShapes DEF EntryType
<1>5. clearing' \in [Clearers -> [at : {"idle", "read", "written"}, read : SUBSET read']]
  <2>1. k \in [at : {"idle", "read", "written"}, read : SUBSET read']
    BY <1>2, <1>3
  <2>2. clearing \in [Clearers -> [at : {"idle", "read", "written"}, read : SUBSET read']]
    BY <1>3, FeedShapes
  <2> QED  BY <1>3, <2>1, <2>2
<1>6. FeedTypeOK'
  BY <1>3, <1>4, <1>5, FeedShapes DEF FeedTypeOK, EntryType, AckType
<1>7. AcksWereRead'
  BY <1>3 DEF FdInv, AcksWereRead
<1>8. ReadsArePast'
  BY <1>1, <1>3, FeedShapes DEF FdInv, ReadsArePast, EntryType
<1>9. RowsArePast'
  BY <1>3 DEF FdInv, RowsArePast
<1> QED  BY <1>6, <1>7, <1>8, <1>9 DEF FdInv

(* What any write of acknowledgements must leave true.                     *)
LEMMA WriteKeeps ==
  ASSUME FdInv, entry' = entry, read' = read, clock' \in clock..MaxEvents,
         acks' \in [Subjects -> AckType],
         clearing' \in [Clearers -> [at : {"idle", "read", "written"}, read : SUBSET read]],
         AcksWereRead'
  PROVE  FdInv'
<1>1. FeedTypeOK'
  BY FeedShapes DEF FeedTypeOK, EntryType, AckType
<1>2. ReadsArePast'
  BY DEF FdInv, ReadsArePast
<1>3. RowsArePast'
  BY FeedShapes DEF FdInv, RowsArePast, EntryType
<1> QED  BY <1>1, <1>2, <1>3 DEF FdInv

LEMMA ClearErrorsKeeps == ASSUME FdInv, NEW c \in Clearers, ClearErrors(c) PROVE FdInv'
<1>1. PICK k : k = clearing[c] /\ k \in [at : {"idle", "read", "written"}, read : SUBSET read]
  BY FeedShapes
<1>2. clock' = clock + 1 /\ clock' \in 0..MaxEvents /\ entry' = entry /\ read' = read
  BY TickOf DEF ClearErrors, Acknowledge
<1>3. PICK j : j = [k EXCEPT !.at = "written"]
  OBVIOUS
<1>4. j \in [at : {"idle", "read", "written"}, read : SUBSET read]
  BY <1>1, <1>3
<1>5. clearing' = [clearing EXCEPT ![c] = j]
  BY <1>1, <1>3 DEF ClearErrors, Acknowledge
<1>6. acks' = [s \in Subjects |->
                 IF \E t \in 0..MaxEvents : <<s, t>> \in k.read
                 THEN [of |-> CHOOSE t \in 0..MaxEvents : <<s, t>> \in k.read, at |-> clock'] ELSE acks[s]]
  BY <1>1 DEF ClearErrors, Acknowledge
<1>7. ASSUME NEW s \in Subjects
      PROVE  acks'[s] \in AckType /\ (acks'[s].at > 0 => <<s, acks'[s].of>> \in read)
  <2>1. CASE \E t \in 0..MaxEvents : <<s, t>> \in k.read
    <3>1. PICK t \in 0..MaxEvents : t = CHOOSE u \in 0..MaxEvents : <<s, u>> \in k.read
      BY <2>1
    <3>2. <<s, t>> \in k.read
      BY <2>1, <3>1
    <3>3. acks'[s] = [of |-> t, at |-> clock']
      BY <1>6, <2>1, <3>1
    <3> QED  BY <1>1, <1>2, <3>2, <3>3 DEF AckType
  <2>2. CASE ~ \E t \in 0..MaxEvents : <<s, t>> \in k.read
    <3>1. acks'[s] = acks[s]
      BY <1>6, <2>2
    <3> QED  BY <3>1, FeedShapes DEF FdInv, AcksWereRead
  <2> QED  BY <2>1, <2>2
<1>8. acks' \in [Subjects -> AckType]
  BY <1>6, <1>7
<1>9. AcksWereRead'
  BY <1>2, <1>7 DEF AcksWereRead
<1>10. clearing' \in [Clearers -> [at : {"idle", "read", "written"}, read : SUBSET read]]
  BY <1>4, <1>5, FeedShapes
<1>11. clock' \in clock..MaxEvents
  BY <1>2, FeedShapes
<1> QED  BY <1>2, <1>8, <1>9, <1>10, <1>11, WriteKeeps

(* Acknowledgements dropped.                                               *)
LEMMA DropKeeps ==
  ASSUME FdInv, NEW ss, entry' = entry, read' = read, clock' \in clock..MaxEvents,
         acks' = [s \in Subjects |-> IF s \in ss THEN NoAck ELSE acks[s]],
         clearing' \in [Clearers -> [at : {"idle", "read", "written"}, read : SUBSET read]]
  PROVE  FdInv'
<1>1. acks' \in [Subjects -> AckType]
  BY FeedShapes
<1>2. AcksWereRead'
  BY FeedShapes DEF FdInv, AcksWereRead
<1> QED  BY <1>1, <1>2, WriteKeeps

LEMMA PruneKeeps == ASSUME FdInv, NEW c \in Clearers, PruneClearedErrors(c) PROVE FdInv'
<1>1. PICK k : k = [at |-> "idle", read |-> {}]
  OBVIOUS
<1>2. k \in [at : {"idle", "read", "written"}, read : SUBSET read]
  BY <1>1
<1>3. clearing' = [clearing EXCEPT ![c] = k] /\ entry' = entry /\ clock' = clock /\ read' = read
  BY <1>1 DEF PruneClearedErrors
<1>4. clearing' \in [Clearers -> [at : {"idle", "read", "written"}, read : SUBSET read]]
  BY <1>2, <1>3, FeedShapes
<1>5. PICK gone : gone = {s \in Subjects : entry[s].is = "gone"}
  OBVIOUS
<1>6. acks' = [s \in Subjects |-> IF s \in gone THEN NoAck ELSE acks[s]]
  BY <1>5 DEF PruneClearedErrors
<1>7. clock' \in clock..MaxEvents
  BY <1>3, FeedShapes
<1> QED  BY <1>3, <1>4, <1>6, <1>7, DropKeeps

LEMMA RestoreKeeps == ASSUME FdInv, NEW ss, RestoreErrors(ss) PROVE FdInv'
<1>1. clock' = clock + 1 /\ clock' \in 0..MaxEvents
  BY TickOf DEF RestoreErrors
<1>2. clock' \in clock..MaxEvents
  BY <1>1, FeedShapes
<1> QED  BY <1>2, DropKeeps, FeedShapes DEF RestoreErrors

LEMMA FeedInitHolds == FeedInit => FdInv
<1> SUFFICES ASSUME FeedInit PROVE FdInv
  OBVIOUS
<1>1. PICK e : e = [is |-> "fine", at |-> 0]
  OBVIOUS
<1>2. PICK k : k = [at |-> "idle", read |-> {}]
  OBVIOUS
<1>3. e \in EntryType /\ k \in [at : {"idle", "read", "written"}, read : SUBSET {}] /\ NoAck \in AckType
      /\ e.at = 0 /\ NoAck.at = 0
  BY <1>1, <1>2, FeedAssumption DEF EntryType, AckType, NoAck
<1>4. /\ entry = [s \in Subjects |-> e] /\ acks = [s \in Subjects |-> NoAck]
      /\ clearing = [c \in Clearers |-> k] /\ clock = 0 /\ read = {}
  BY <1>1, <1>2 DEF FeedInit
<1>5. /\ entry \in [Subjects -> EntryType] /\ acks \in [Subjects -> AckType]
      /\ clearing \in [Clearers -> [at : {"idle", "read", "written"}, read : SUBSET read]]
  BY <1>3, <1>4
<1>6. FeedTypeOK
  BY <1>4, <1>5, FeedAssumption DEF FeedTypeOK, EntryType, AckType
<1>7. AcksWereRead /\ ReadsArePast /\ RowsArePast
  BY <1>3, <1>4 DEF AcksWereRead, ReadsArePast, RowsArePast
<1> QED  BY <1>6, <1>7 DEF FdInv

LEMMA FeedStep == FdInv /\ [FeedNext]_feedVars => FdInv'
<1> SUFFICES ASSUME FdInv, [FeedNext]_feedVars PROVE FdInv'
  OBVIOUS
<1>1. CASE UNCHANGED feedVars
  BY <1>1 DEF feedVars, FdInv, FeedTypeOK, AcksWereRead, ReadsArePast, RowsArePast
<1>2. ASSUME NEW s \in Subjects, NEW is \in {"fine", "failing", "gone"}, Changes(s, is) PROVE FdInv'
  BY <1>2, ChangesKeep
<1>3. ASSUME NEW ss, RestoreErrors(ss) PROVE FdInv'
  BY <1>3, RestoreKeeps
<1>4. ASSUME NEW c \in Clearers, NEW s \in Subjects, ResolveMatch(c, s) PROVE FdInv'
  <2>1. {s} \in SUBSET Subjects
    OBVIOUS
  <2> QED  BY <1>4, <2>1, ReadsKeep DEF ResolveMatch
<1>5. ASSUME NEW c \in Clearers, ReadOutstanding(c) PROVE FdInv'
  <2>1. Newest(Outstanding) \in SUBSET Subjects
    BY DEF Newest, Outstanding, Failing
  <2> QED  BY <1>5, <2>1, ReadsKeep DEF ReadOutstanding
<1>6. ASSUME NEW c \in Clearers, ClearErrors(c) PROVE FdInv'
  BY <1>6, ClearErrorsKeeps
<1>7. ASSUME NEW c \in Clearers, PruneClearedErrors(c) PROVE FdInv'
  BY <1>7, PruneKeeps
<1> QED  BY <1>1, <1>2, <1>3, <1>4, <1>5, <1>6, <1>7 DEF FeedNext

(* What hides a row is an acknowledgement as old as the row's failure or   *)
(* younger; being of a failure that was read, it is of this one.           *)
LEMMA FdInvImplies == FdInv => FeedInv
<1> SUFFICES ASSUME FdInv PROVE FeedInv
  OBVIOUS
<1>1. ASSUME NEW s \in Failing \cap Excluded
      PROVE  <<s, entry[s].at>> \in read
  <2>1. s \in Subjects /\ acks[s].at > 0 /\ entry[s].at <= acks[s].of
    BY <1>1 DEF Failing, Excluded, Loaded, AckedSubjects
  <2>2. <<s, acks[s].of>> \in read /\ acks[s].of \in 0..MaxEvents /\ entry[s].at \in 0..MaxEvents
    BY <2>1, FeedShapes DEF FdInv, AcksWereRead, AckType, EntryType
  <2>3. acks[s].of <= entry[s].at
    BY <2>1, <2>2 DEF FdInv, ReadsArePast
  <2>4. acks[s].of = entry[s].at
    BY <2>1, <2>2, <2>3
  <2> QED  BY <2>2, <2>4
<1> QED  BY <1>1 DEF FeedInv, FdInv, HiddenWasRead

(* The feed (src/core/observability/errorFeed.ts): a failure that an       *)
(* acknowledgement hides is one that a clearing read, whatever fails again *)
(* while clearings are under way and in whatever order they write.         *)
THEOREM HiddenFailuresWereRead == FeedSpec => []FeedInv
<1>1. FdInv /\ [FeedNext]_feedVars => FdInv'
  BY FeedStep
<1> QED  BY <1>1, FeedInitHolds, FdInvImplies, PTL DEF FeedSpec
-----------------------------------------------------------------------------
(***************************************************************************)
(* A table read page by page, for any rows and values, any size of a page  *)
(* and whatever changes meanwhile.                                         *)
(***************************************************************************)
CursorType == (0..1) \X (0..MaxValue) \X Rows
WalkType == [by : {"column", "id", "created"}, dir : {"asc", "desc"}, probe : BOOLEAN,
             at : {"on", "ended", "refused"}, cursor : {<<>>} \cup CursorType]

TableTypes ==
  /\ table \in [Rows -> Gone..MaxValue] /\ walk \in WalkType
  /\ listed \in [Rows -> 0..2] /\ steady \in SUBSET There /\ churn \in 0..MaxChurn

(* What is steady has been listed once if the cursor is past it, and not   *)
(* yet if it is not.                                                       *)
OncePast ==
  /\ walk.at = "on" => \A r \in steady : listed[r] = IF After(r, walk.cursor) THEN 0 ELSE 1
  /\ walk.at = "ended" => \A r \in steady : listed[r] = 1
  /\ \A r \in steady : listed[r] <= 1

PgInv == TableTypes /\ OncePast

LEMMA PagingShapes ==
  ASSUME PgInv
  PROVE  /\ TableTypes /\ OncePast /\ MaxRow \in Nat /\ MaxValue \in Nat /\ MaxChurn \in Nat
         /\ Limit \in Nat /\ Limit > 0 /\ Rows \subseteq Nat /\ Gone = -1 /\ Blank = 0
         /\ There \subseteq Rows /\ IsFiniteSet(Rows) /\ \A r \in There : table[r] \in 0..MaxValue
<1>1. MaxRow \in Nat /\ MaxValue \in Nat /\ MaxChurn \in Nat /\ Limit \in Nat /\ Limit > 0
  BY PagingAssumption
<1>2. IsFiniteSet(Rows) /\ Rows \subseteq Nat
  BY <1>1, FS_Interval DEF Rows
<1>3. ASSUME NEW r \in There PROVE table[r] \in 0..MaxValue
  <2>1. r \in Rows /\ table[r] \in Gone..MaxValue /\ table[r] # Gone
    BY DEF PgInv, TableTypes, There
  <2> QED  BY <1>1, <2>1 DEF Gone
<1> QED  BY <1>1, <1>2, <1>3 DEF PgInv, There, Gone, Blank

(* The order of a listing, key by key.                                     *)
Further(k, l) == IF walk.dir = "desc" THEN k < l ELSE k > l
Ahead(k, l) ==
  \/ k[1] > l[1]
  \/ k[1] = l[1] /\ Further(k[2], l[2])
  \/ k[1] = l[1] /\ k[2] = l[2] /\ Further(k[3], l[3])

LEMMA OnwardIsAhead ==
  ASSUME NEW k, NEW l
  PROVE  Onward(k, l, 3) <=> Ahead(k, l)
<1> DEFINE Differs(i) == /\ \A j \in 1..(i - 1) : k[j] = l[j]
                    /\ IF Descends(i) THEN k[i] < l[i] ELSE k[i] > l[i]
<1>1. Onward(k, l, 3) <=> Differs(1) \/ Differs(2) \/ Differs(3)
  <2>1. Onward(k, l, 3) <=> \E i \in 1..3 : Differs(i)
    BY DEF Onward
  <2>2. 1..3 = {1, 2, 3}
    OBVIOUS
  <2> HIDE DEF Differs
  <2> QED  BY <2>1, <2>2
<1>2. Differs(1) <=> k[1] > l[1]
  <2>1. ~Descends(1) /\ 1..(1 - 1) = {}
    BY DEF Descends
  <2> QED  BY <2>1
<1>3. Differs(2) <=> k[1] = l[1] /\ Further(k[2], l[2])
  <2>1. (Descends(2) <=> walk.dir = "desc") /\ 1..(2 - 1) = {1}
    BY DEF Descends
  <2> QED  BY <2>1 DEF Further
<1>4. Differs(3) <=> k[1] = l[1] /\ k[2] = l[2] /\ Further(k[3], l[3])
  <2>1. (Descends(3) <=> walk.dir = "desc") /\ 1..(3 - 1) = {1, 2}
    BY DEF Descends
  <2> QED  BY <2>1 DEF Further
<1> QED  BY <1>1, <1>2, <1>3, <1>4 DEF Ahead

Triples == Int \X Int \X Int
LEMMA AheadOrders ==
  ASSUME NEW k \in Triples, NEW l \in Triples, NEW m \in Triples
  PROVE  /\ ~Ahead(k, k) /\ (Ahead(k, l) /\ Ahead(l, m) => Ahead(k, m))
         /\ k = l \/ Ahead(k, l) \/ Ahead(l, k)
<1>1. /\ k[1] \in Int /\ k[2] \in Int /\ k[3] \in Int /\ l[1] \in Int /\ l[2] \in Int /\ l[3] \in Int
      /\ m[1] \in Int /\ m[2] \in Int /\ m[3] \in Int
  BY DEF Triples
<1>2. k[1] = l[1] /\ k[2] = l[2] /\ k[3] = l[3] => k = l
  BY DEF Triples
<1>3. ~Ahead(k, k)
  BY <1>1 DEF Ahead, Further
<1>4. Ahead(k, l) /\ Ahead(l, m) => Ahead(k, m)
  BY <1>1 DEF Ahead, Further
<1>5. k = l \/ Ahead(k, l) \/ Ahead(l, k)
  BY <1>1, <1>2 DEF Ahead, Further
<1> QED  BY <1>3, <1>4, <1>5

(* The rows there are stand in a line, and a cursor somewhere in it.       *)
InALine(S) ==
  \A r, s, t \in S :
    /\ ~Precedes(r, r) /\ (Precedes(r, s) /\ Precedes(s, t) => Precedes(r, t))
    /\ r = s \/ Precedes(r, s) \/ Precedes(s, r)

LEMMA KeysAreTriples ==
  ASSUME PgInv, NEW r \in There
  PROVE  Keys(r) \in CursorType /\ Keys(r) \in Triples /\ Keys(r)[3] = r
<1> USE PagingShapes
<1>1. r \in Rows /\ r \in Nat /\ table[r] \in 0..MaxValue /\ 0 \in 0..MaxValue
  OBVIOUS
<1>2. CASE walk.by = "id"
  BY <1>1, <1>2 DEF Keys, CursorType, Triples
<1>3. CASE walk.by # "id"
  <2>1. PICK b \in 0..1 : b = IF table[r] = Blank THEN 1 ELSE 0
    OBVIOUS
  <2>2. Keys(r) = <<b, table[r], r>>
    BY <1>3, <2>1 DEF Keys
  <2> QED  BY <1>1, <2>1, <2>2 DEF CursorType, Triples
<1> QED  BY <1>2, <1>3

LEMMA RowsInALine ==
  ASSUME PgInv
  PROVE  InALine(There)
<1>1. SUFFICES ASSUME NEW r \in There, NEW s \in There, NEW t \in There
               PROVE  /\ ~Precedes(r, r) /\ (Precedes(r, s) /\ Precedes(s, t) => Precedes(r, t))
                      /\ r = s \/ Precedes(r, s) \/ Precedes(s, r)
  BY DEF InALine
<1>2. \A p \in There, q \in There : Precedes(p, q) <=> Ahead(Keys(q), Keys(p))
  BY OnwardIsAhead DEF Precedes
<1>3. Keys(r) \in Triples /\ Keys(s) \in Triples /\ Keys(t) \in Triples /\ (Keys(r) = Keys(s) => r = s)
  BY KeysAreTriples
<1>4. ~Ahead(Keys(r), Keys(r)) /\ (Keys(r) = Keys(s) \/ Ahead(Keys(r), Keys(s)) \/ Ahead(Keys(s), Keys(r)))
  BY <1>3, AheadOrders
<1>5. Ahead(Keys(t), Keys(s)) /\ Ahead(Keys(s), Keys(r)) => Ahead(Keys(t), Keys(r))
  BY <1>3, AheadOrders
<1> QED  BY <1>2, <1>3, <1>4, <1>5

(* A set of naturals that is not empty has a least element.                *)
LEMMA Least ==
  ASSUME NEW T \in SUBSET Nat, T # {}
  PROVE  \E m \in T : \A n \in T : m <= n
<1>1. PICK m \in T : \A n \in T : ~ (<<n, m>> \in OpToRel(<, Nat))
  BY WFMin, NatLessThanWellFounded
<1>2. \A n \in T : ~(n < m)
  BY <1>1 DEF OpToRel
<1> QED  BY <1>2

(* The head of a line, which is on its first page, and its end.            *)
LEMMA LineHasAHead ==
  ASSUME NEW S, IsFiniteSet(S), InALine(S), S # {}
  PROVE  \E h \in S : {s \in S : Precedes(s, h)} = {}
<1> DEFINE Before(r) == {s \in S : Precedes(s, r)}
           T == {Cardinality(Before(r)) : r \in S}
<1>1. \A r \in S : IsFiniteSet(Before(r)) /\ Cardinality(Before(r)) \in Nat
  BY FS_Subset, FS_CardinalityType
<1>2. T \in SUBSET Nat /\ T # {}
  BY <1>1
<1>3. PICK l \in T : \A n \in T : l <= n
  <2> HIDE DEF T
  <2> QED  BY <1>2, Least
<1>4. PICK h \in S : l = Cardinality(Before(h))
  BY <1>3
<1>5. ASSUME NEW g \in Before(h) PROVE FALSE
  <2>1. g \in S /\ Before(g) \subseteq Before(h) /\ g \notin Before(g)
    BY DEF InALine
  <2>2. Cardinality(Before(g)) \in T
    BY <2>1
  <2> HIDE DEF Before, T
  <2>3. Cardinality(Before(g)) <= Cardinality(Before(h)) /\ Cardinality(Before(g)) # Cardinality(Before(h))
    BY <1>1, <1>4, <1>5, <2>1, FS_Subset
  <2> QED  BY <1>1, <1>3, <1>4, <2>1, <2>2, <2>3
<1> QED  BY <1>5

LEMMA LineHasAnEnd ==
  ASSUME NEW S, IsFiniteSet(S), InALine(S), S # {}
  PROVE  \E e \in S : \A s \in S \ {e} : Precedes(s, e)
<1> DEFINE Behind(r) == {s \in S : Precedes(r, s)}
           T == {Cardinality(Behind(r)) : r \in S}
<1>1. \A r \in S : IsFiniteSet(Behind(r)) /\ Cardinality(Behind(r)) \in Nat
  BY FS_Subset, FS_CardinalityType
<1>2. T \in SUBSET Nat /\ T # {}
  BY <1>1
<1>3. PICK l \in T : \A n \in T : l <= n
  <2> HIDE DEF T
  <2> QED  BY <1>2, Least
<1>4. PICK e \in S : l = Cardinality(Behind(e))
  BY <1>3
<1>5. ASSUME NEW g \in Behind(e) PROVE FALSE
  <2>1. g \in S /\ Behind(g) \subseteq Behind(e) /\ g \notin Behind(g)
    BY DEF InALine
  <2>2. Cardinality(Behind(g)) \in T
    BY <2>1
  <2> HIDE DEF Behind, T
  <2>3. Cardinality(Behind(g)) <= Cardinality(Behind(e)) /\ Cardinality(Behind(g)) # Cardinality(Behind(e))
    BY <1>1, <1>4, <1>5, <2>1, FS_Subset
  <2> QED  BY <1>1, <1>3, <1>4, <2>1, <2>2, <2>3
<1> QED  BY <1>5 DEF InALine

(* A page: the line up to its last row, all of it if it is short.          *)
LEMMA PagesAreCut ==
  ASSUME NEW S, IsFiniteSet(S), InALine(S), S # {}, Limit \in Nat, Limit > 0
  PROVE  /\ LastOf(FirstOf(S)) \in FirstOf(S)
         /\ \A r \in S : r \notin FirstOf(S) <=> Precedes(LastOf(FirstOf(S)), r)
<1> DEFINE Before(r) == {s \in S : Precedes(s, r)}
           page == FirstOf(S)
<1>1. \A r \in S : IsFiniteSet(Before(r)) /\ Cardinality(Before(r)) \in Nat
  BY FS_Subset, FS_CardinalityType
<1>2. page \subseteq S /\ \A r \in S : r \in page <=> Cardinality(Before(r)) < Limit
  BY DEF FirstOf
<1>3. page # {}
  <2>1. PICK h \in S : Before(h) = {}
    BY LineHasAHead
  <2> HIDE DEF page
  <2> QED  BY <1>2, <2>1, FS_EmptySet
<1> HIDE DEF page
<1>4. PICK e \in page : \A s \in page \ {e} : Precedes(s, e)
  <2>1. IsFiniteSet(page) /\ InALine(page)
    BY <1>2, FS_Subset DEF InALine
  <2> QED  BY <1>3, <2>1, LineHasAnEnd
<1>5. LastOf(page) \in page /\ \A s \in page \ {LastOf(page)} : Precedes(s, LastOf(page))
  BY <1>4 DEF LastOf
<1>6. ASSUME NEW r \in S, NEW s \in page, Precedes(r, s) PROVE r \in page
  <2>1. Before(r) \subseteq Before(s) /\ s \in S
    BY <1>2, <1>6 DEF InALine
  <2> HIDE DEF Before
  <2>2. Cardinality(Before(r)) <= Cardinality(Before(s)) /\ Cardinality(Before(s)) < Limit
    BY <1>1, <1>2, <2>1, FS_Subset
  <2> QED  BY <1>1, <1>2, <2>1, <2>2
<1>7. ASSUME NEW r \in S PROVE r \notin page <=> Precedes(LastOf(page), r)
  <2>1. LastOf(page) \in S
    BY <1>2, <1>5
  <2>2. r \in page => r = LastOf(page) \/ Precedes(r, LastOf(page))
    BY <1>5
  <2>3. r \in page => ~Precedes(LastOf(page), r)
    BY <2>1, <2>2 DEF InALine
  <2>4. r \notin page => Precedes(LastOf(page), r)
    BY <1>5, <1>6, <2>1 DEF InALine
  <2> QED  BY <2>3, <2>4
<1> QED  BY <1>5, <1>7 DEF page

LEMMA ShortPagesAreWhole ==
  ASSUME NEW S, IsFiniteSet(S), InALine(S), Cardinality(S) <= Limit, Limit \in Nat
  PROVE  FirstOf(S) = S
<1>1. ASSUME NEW r \in S PROVE Cardinality({s \in S : Precedes(s, r)}) < Limit
  <2> DEFINE before == {s \in S : Precedes(s, r)}
  <2>1. before \subseteq S /\ r \notin before
    BY DEF InALine
  <2> HIDE DEF before
  <2>2. Cardinality(before) <= Cardinality(S) /\ Cardinality(before) # Cardinality(S)
        /\ Cardinality(before) \in Nat /\ Cardinality(S) \in Nat
    <3>1. IsFiniteSet(before) /\ before # S
      BY <2>1, FS_Subset
    <3> QED  BY <2>1, <3>1, FS_Subset, FS_CardinalityType
  <2>3. Cardinality(before) < Limit
    BY <2>2
  <2> QED  BY <2>3 DEF before
<1> QED  BY <1>1 DEF FirstOf

LEMMA PagingInitially == PagingInit => PgInv
<1> SUFFICES ASSUME PagingInit PROVE PgInv
  OBVIOUS
<1>1. MaxRow \in Nat /\ MaxValue \in Nat /\ MaxChurn \in Nat
  BY PagingAssumption
<1>2. PICK l \in Listings :
        /\ table \in [Rows -> {Gone} \cup (IF l.by = "column" THEN {Blank} ELSE {}) \cup 1..MaxValue]
        /\ walk = [by |-> l.by, dir |-> l.dir, probe |-> l.probe, at |-> "on", cursor |-> <<>>]
  BY DEF PagingInit
<1>3. l.by \in {"column", "id", "created"} /\ l.dir \in {"asc", "desc"} /\ l.probe \in BOOLEAN
  <2>1. CASE l \in [by : {"column"}, dir : {"asc", "desc"}, probe : BOOLEAN]
    BY <2>1
  <2>2. CASE l = [by |-> "id", dir |-> "asc", probe |-> TRUE]
    <3>1. l.by = "id" /\ l.dir = "asc"
      BY <2>2
    <3>2. l.probe = TRUE
      BY <2>2
    <3> QED  BY <3>1, <3>2
  <2>3. CASE l = [by |-> "created", dir |-> "desc", probe |-> FALSE]
    <3>1. l.by = "created" /\ l.dir = "desc"
      BY <2>3
    <3>2. l.probe = FALSE
      BY <2>3
    <3> QED  BY <3>1, <3>2
  <2> QED  BY <2>1, <2>2, <2>3 DEF Listings
<1>4. table \in [Rows -> Gone..MaxValue]
  <2>1. {Gone} \cup (IF l.by = "column" THEN {Blank} ELSE {}) \cup 1..MaxValue \subseteq Gone..MaxValue
    BY <1>1 DEF Gone, Blank
  <2> QED  BY <1>2, <2>1
<1>5. walk \in WalkType /\ walk.at = "on" /\ walk.cursor = <<>>
  BY <1>2, <1>3 DEF WalkType
<1>6. TableTypes
  BY <1>1, <1>4, <1>5 DEF PagingInit, TableTypes
<1>7. OncePast
  <2>1. \A r \in steady : listed[r] = 0 /\ After(r, walk.cursor)
    BY <1>5 DEF PagingInit, There, After
  <2> QED  BY <1>5, <2>1 DEF OncePast
<1> QED  BY <1>6, <1>7 DEF PgInv

(* A page is listed, and the cursor moves to its last row or the walk ends.*)
LEMMA PagesMove ==
  ASSUME PgInv, NextPage
  PROVE  PgInv'
<1> USE PagingShapes
<1> DEFINE page == FirstOf(Left)
           last == LastOf(page)
<1>1. walk.at = "on" /\ walk \in WalkType /\ UNCHANGED <<table, steady, churn>>
  BY DEF NextPage, TableTypes
<1>2. listed' = [r \in Rows |-> IF r \in page /\ listed[r] < 2 THEN listed[r] + 1 ELSE listed[r]]
      /\ walk' = IF More(Left) THEN [walk EXCEPT !.cursor = Keys(last)] ELSE [walk EXCEPT !.at = "ended"]
  BY DEF NextPage
<1>3. Left \subseteq There /\ IsFiniteSet(Left) /\ InALine(Left) /\ page \subseteq Left
  <2>1. Left \subseteq There /\ page \subseteq Left
    BY DEF Left, FirstOf
  <2> QED  BY <2>1, RowsInALine, FS_Subset DEF InALine
<1>4. \A r \in steady : /\ r \in There /\ r \in Rows /\ listed[r] \in 0..2
                        /\ listed[r] = IF r \in Left THEN 0 ELSE 1
  BY <1>1 DEF OncePast, Left, TableTypes
<1> HIDE DEF page, last
<1>5. listed' \in [Rows -> 0..2]
  <2>1. \A r \in Rows : (IF r \in page /\ listed[r] < 2 THEN listed[r] + 1 ELSE listed[r]) \in 0..2
    BY DEF TableTypes
  <2> QED  BY <1>2, <2>1
<1>6. \A r \in steady : listed'[r] = IF r \in Left /\ r \notin page THEN 0 ELSE 1
  BY <1>2, <1>3, <1>4
<1>7. CASE More(Left)
  <2>0. Left # {}
    <3>1. SUFFICES ASSUME Left = {} PROVE FALSE
      OBVIOUS
    <3>2. Cardinality(Left) = 0
      BY <3>1, FS_EmptySet
    <3> QED  BY <1>7, <3>2 DEF More
  <2>1. last \in page /\ \A r \in Left : r \notin page <=> Precedes(last, r)
    BY <1>3, <2>0, PagesAreCut DEF page, last
  <2>2. last \in There /\ Keys(last) \in CursorType
    BY <1>3, <2>1, KeysAreTriples
  <2>3. PICK k \in CursorType : k = Keys(last)
    BY <2>2
  <2>4. walk' = [walk EXCEPT !.cursor = k]
    BY <1>2, <1>7, <2>3
  <2>5. walk' \in WalkType /\ walk'.at = "on" /\ walk'.cursor = k /\ walk'.by = walk.by /\ walk'.dir = walk.dir
    BY <1>1, <2>4 DEF WalkType
  <2>6. \A r \in There : Keys(r)' = Keys(r)
    BY <1>1, <2>5 DEF Keys
  <2>7. k # <<>>
    <3>1. k \in Seq(Int) /\ Len(k) = 3
      <4>1. PICK b \in 0..1, n \in 0..MaxValue, r \in Rows : k = <<b, n, r>>
        BY <2>3 DEF CursorType
      <4>2. b \in Int /\ n \in Int /\ r \in Int
        OBVIOUS
      <4> QED  BY <4>1, <4>2
    <3> QED  BY <3>1
  <2>8. ASSUME NEW r \in There PROVE After(r, walk.cursor)' <=> Precedes(last, r)
    <3>1. After(r, walk.cursor)' <=> Onward(Keys(r), k, 3)'
      <4>1. After(r, walk.cursor)' <=> walk'.cursor = <<>> \/ Onward(Keys(r), walk.cursor, 3)'
        BY DEF After
      <4> QED  BY <2>5, <2>6, <2>7, <4>1 DEF Onward, Descends
    <3>2. Onward(Keys(r), k, 3)' <=> Onward(Keys(r), k, 3)
      BY <2>5, <2>6 DEF Onward, Descends
    <3>3. Precedes(last, r) <=> Onward(Keys(r), k, 3)
      BY <2>3 DEF Precedes
    <3> QED  BY <3>1, <3>2, <3>3
  <2>9. ASSUME NEW r \in There, r \notin Left PROVE ~Precedes(last, r)
    <3>1. walk.cursor # <<>> /\ ~Onward(Keys(r), walk.cursor, 3) /\ Onward(Keys(last), walk.cursor, 3)
      <4>1. ~After(r, walk.cursor)
        BY <2>9 DEF Left
      <4>2. After(last, walk.cursor)
        BY <1>3, <2>1 DEF Left
      <4> QED  BY <4>1, <4>2 DEF After
    <3>2. walk.cursor \in Triples /\ Keys(last) \in Triples /\ Keys(r) \in Triples
      <4>1. walk.cursor \in CursorType
        BY <1>1, <3>1 DEF WalkType
      <4>2. CursorType \subseteq Triples
        <5>1. 0..1 \subseteq Int /\ 0..MaxValue \subseteq Int /\ Rows \subseteq Int
          OBVIOUS
        <5> QED  BY <5>1 DEF CursorType, Triples
      <4> QED  BY <2>2, <4>1, <4>2, KeysAreTriples
    <3>3. Precedes(last, r) <=> Ahead(Keys(r), Keys(last))
      BY OnwardIsAhead DEF Precedes
    <3>4. ~Ahead(Keys(r), walk.cursor) /\ Ahead(Keys(last), walk.cursor)
      BY <3>1, OnwardIsAhead
    <3>5. Ahead(Keys(r), Keys(last)) /\ Ahead(Keys(last), walk.cursor) => Ahead(Keys(r), walk.cursor)
      BY <3>2, AheadOrders
    <3> QED  BY <3>3, <3>4, <3>5
  <2>10. \A r \in steady : listed'[r] = IF After(r, walk.cursor)' THEN 0 ELSE 1
    BY <1>4, <1>6, <2>1, <2>8, <2>9
  <2>11. OncePast'
    <3>1. \A r \in steady' : listed'[r] = IF After(r, walk.cursor)' THEN 0 ELSE 1
      BY <1>1, <2>10
    <3>2. \A r \in steady' : listed'[r] <= 1
      BY <3>1
    <3> QED  BY <2>5, <3>1, <3>2 DEF OncePast
  <2>12. TableTypes'
    BY <1>1, <1>5, <2>5 DEF TableTypes, There
  <2> QED  BY <2>11, <2>12 DEF PgInv
<1>8. CASE ~More(Left)
  <2>1. walk' = [walk EXCEPT !.at = "ended"]
    BY <1>2, <1>8
  <2>2. walk' \in WalkType /\ walk'.at = "ended"
    BY <1>1, <2>1 DEF WalkType
  <2>3. Cardinality(Left) <= Limit
    <3>1. Cardinality(Left) \in Nat
      BY <1>3, FS_CardinalityType
    <3> QED  BY <1>8, <3>1 DEF More
  <2>4. page = Left
    BY <1>3, <2>3, ShortPagesAreWhole DEF page
  <2>5. OncePast'
    <3>1. \A r \in steady' : listed'[r] = 1
      BY <1>1, <1>6, <2>4
    <3> QED  BY <2>2, <3>1 DEF OncePast
  <2>6. TableTypes'
    BY <1>1, <1>5, <2>2 DEF TableTypes, There
  <2> QED  BY <2>5, <2>6 DEF PgInv
<1> QED  BY <1>7, <1>8

LEMMA CursorsAreRefused ==
  ASSUME PgInv, UnknownCursor
  PROVE  PgInv'
<1> USE PagingShapes
<1>1. walk' = [walk EXCEPT !.at = "refused"] /\ UNCHANGED <<table, listed, steady, churn>>
  BY DEF UnknownCursor
<1>2. walk' \in WalkType /\ walk'.at = "refused"
  BY <1>1 DEF TableTypes, WalkType
<1>3. TableTypes'
  BY <1>1, <1>2 DEF TableTypes, There
<1>4. OncePast'
  BY <1>1, <1>2 DEF OncePast
<1> QED  BY <1>3, <1>4 DEF PgInv

LEMMA ChangesKeepPlaces ==
  ASSUME PgInv, NEW r \in Rows, NEW v \in Gone..MaxValue, Change(r, v)
  PROVE  PgInv'
<1> USE PagingShapes
<1>1. walk' = walk /\ listed' = listed /\ table' = [table EXCEPT ![r] = v]
  BY DEF Change
<1>2. table' \in [Rows -> Gone..MaxValue] /\ table'[r] = v
      /\ \A s \in Rows \ {r} : table'[s] = table[s]
  BY <1>1 DEF TableTypes
<1>3. churn' \in 0..MaxChurn
  BY DEF Change, TableTypes
<1>4. steady' \subseteq steady /\ (r \in steady' => walk.by = "id" /\ v # Gone)
  BY DEF Change
<1>5. steady' \in SUBSET There'
  <2>1. ASSUME NEW s \in steady' PROVE s \in Rows /\ table'[s] # Gone
    <3>1. s \in Rows /\ table[s] # Gone
      BY <1>4, <2>1 DEF TableTypes, There
    <3> QED  BY <1>2, <1>4, <2>1, <3>1
  <2> QED  BY <2>1 DEF There
<1>6. ASSUME NEW s \in steady' PROVE After(s, walk.cursor)' <=> After(s, walk.cursor)
  <2>1. s \in Rows
    BY <1>4, <1>6 DEF TableTypes, There
  <2>2. Keys(s)' = Keys(s)
    BY <1>1, <1>2, <1>4, <1>6, <2>1 DEF Keys
  <2> QED  BY <1>1, <2>2 DEF After, Onward, Descends
<1>7. TableTypes'
  BY <1>1, <1>2, <1>3, <1>5 DEF TableTypes
<1>8. OncePast'
  BY <1>1, <1>4, <1>6 DEF OncePast
<1> QED  BY <1>7, <1>8 DEF PgInv

LEMMA WalksKeepPlaces == PgInv /\ [PagingNext]_pagingVars => PgInv'
<1> SUFFICES ASSUME PgInv, [PagingNext]_pagingVars PROVE PgInv'
  OBVIOUS
<1>1. CASE UNCHANGED pagingVars
  BY <1>1 DEF pagingVars, PgInv, TableTypes, There, OncePast, After, Onward, Descends, Keys
<1> QED  BY <1>1, PagesMove, CursorsAreRefused, ChangesKeepPlaces DEF PagingNext

LEMMA WalksAreCounted == PgInv => PagingInv
<1> SUFFICES ASSUME PgInv PROVE PagingInv
  OBVIOUS
<1> USE PagingShapes
<1>1. PagingTypeOK
  <2>1. walk.at \in {"on", "ended", "refused"} /\ walk.cursor \in {<<>>} \cup CursorType
    BY DEF TableTypes, WalkType
  <2>2. walk.cursor = <<>> \/ walk.cursor \in (0..1) \X (0..MaxValue) \X Rows
    BY <2>1 DEF CursorType
  <2> QED  BY <2>1, <2>2 DEF TableTypes, PagingTypeOK
<1>2. WalksAreWhole
  BY DEF OncePast, WalksAreWhole
<1> QED  BY <1>1, <1>2 DEF PagingInv

(* PagingInv: a row that keeps its place while a listing is walked is on   *)
(* exactly one page of it, wherever a page is cut among equal values or    *)
(* blanks and whatever comes, goes and moves meanwhile (ordering.ts,       *)
(* keyset cursors), for any table and any size of a page.                  *)
THEOREM ListingsAreWhole == PagingSpec => []PagingInv
<1> QED  BY PagingInitially, WalksKeepPlaces, WalksAreCounted, PTL DEF PagingSpec

(* ConsoleInv: the three of the console together, as the routes of one     *)
(* process serve them (queues.ts, ordering.ts, errorFeed.ts).              *)
THEOREM ConsoleIsTrue == ConsoleSpec => []ConsoleInv
<1>1. DeskInv /\ PagingInv /\ FeedInv => ConsoleInv
  BY DEF ConsoleInv
<1> QED  BY <1>1, OrdersAreKept, ListingsAreWhole, HiddenFailuresWereRead, PTL DEF ConsoleSpec
=============================================================================
