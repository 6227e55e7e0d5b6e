------------------------------ MODULE MdClient ------------------------------
(***************************************************************************)
(* The MangaDex client of one process (src/core/md/client.ts): the gate    *)
(* every request leaves by, the pace and the pauses MangaDex dictates, the *)
(* retries, and the shared authentication.  One action per await.          *)
(*                                                                         *)
(* Time is counted down: the gate and every sleep hold what is left of     *)
(* them.  A timer may fire late and an answer may take any time.           *)
(***************************************************************************)
EXTENDS Integers, Sequences

CONSTANTS
  Callers,     \* concurrent requests; a caller makes one after the other
  Floor,       \* mdRatelimitMs
  Pace,        \* the spacing the headers ask for while a budget runs down
  Pause,       \* what a 429 or a spent budget asks everyone to wait
  Backoff,     \* backoffMs
  Tries,       \* uploadRetry
  MaxLapses    \* bounds the tokens MangaDex revokes or that come to expire

ASSUME MdClientAssumption ==
  /\ {Floor, Pace, Pause, Backoff, Tries} \subseteq Nat \ {0} /\ MaxLapses \in Nat

VARIABLES
  gate,     \* what is left until nextRequestAt, 0 when it has passed
  paced,    \* pacedSpacingMs
  line,     \* the callers waiting for the gate; the head's turn it is
  caller,   \* caller -> where its request is
  token,    \* accessToken: "good", "stale" (refused, but looks usable), "spent"
  refresh,  \* refreshToken: "good", "stale", "spent"
  lapses,
  since,    \* observer: time since a request last left, up to Floor
  pause     \* observer: what is left of the longest pause MangaDex asked for

mdVars == <<gate, paced, line, caller, token, refresh, lapses, since, pause>>

(* what: the request proper, or the grant a caller makes on behalf of all. *)
NoRequest == [at |-> "idle", what |-> "call", attempt |-> 0, forced |-> FALSE, bearer |-> "spent", left |-> 0]

MdInit ==
  /\ gate = 0 /\ paced = 0 /\ line = <<>>
  /\ caller = [c \in Callers |-> NoRequest]
  /\ token \in {"good", "stale", "spent"} /\ refresh \in {"good", "spent"}
  /\ lapses = 0 /\ since = Floor /\ pause = 0

Greater(m, n) == IF m > n THEN m ELSE n

(* The flight of authFlight is the caller that makes its grants.           *)
Flight(c) == caller[c].what # "call"

(* acquireSlot: a request joins the line with the headers it has.          *)
Enter(c, what, bearer) ==
  /\ line' = Append(line, c)
  /\ caller' = [caller EXCEPT ![c].at = "line", ![c].what = what, ![c].bearer = bearer]

StartFlight(c) == Enter(c, IF refresh # "spent" THEN "refresh" ELSE "password", "spent")

Request(c) ==
  /\ caller[c].at = "idle"
  /\ caller' = [caller EXCEPT ![c] = [NoRequest EXCEPT !.at = "auth", !.attempt = 1]]
  /\ UNCHANGED <<gate, paced, line, token, refresh, lapses, since, pause>>

(* Mutant: a caller does not look for a flight that is under way.          *)
EnsureAuthAlone(c) ==
  /\ caller[c].at = "auth"
  /\ IF ~caller[c].forced /\ token # "spent" THEN Enter(c, "call", token)
     ELSE StartFlight(c)
  /\ UNCHANGED <<gate, paced, token, refresh, lapses, since, pause>>

(* ensureAuth, authenticate: who finds the token wanting joins the flight  *)
(* or starts one.  A refresh token that has expired is not tried.          *)
EnsureAuth(c) ==
  /\ caller[c].at = "auth"
  /\ IF ~caller[c].forced /\ token # "spent" THEN Enter(c, "call", token)
     ELSE IF \E f \in Callers : Flight(f)
     THEN caller' = [caller EXCEPT ![c].at = "join"] /\ UNCHANGED line
     ELSE StartFlight(c)
  /\ UNCHANGED <<gate, paced, token, refresh, lapses, since, pause>>

(* After a flight a request goes on with the token it brought.             *)
Resume(c) ==
  /\ caller[c].at = "resume" /\ Enter(c, "call", caller[c].bearer)
  /\ UNCHANGED <<gate, paced, token, refresh, lapses, since, pause>>

(* The head of the line reads nextRequestAt once, and sleeps.              *)
Wait(c) ==
  /\ line # <<>> /\ c = Head(line) /\ caller[c].at = "line" /\ gate > 0
  /\ caller' = [caller EXCEPT ![c].at = "sleep", ![c].left = gate]
  /\ UNCHANGED <<gate, paced, line, token, refresh, lapses, since, pause>>

(* Mutant: nobody waits for the slot before his.                           *)
MyTurnAtOnce(c) == TRUE

MyTurn(c) == line # <<>> /\ c = Head(line)

(* It sends, and gives way to the next.                                    *)
Send(c) ==
  /\ MyTurn(c)
  /\ \/ caller[c].at = "line" /\ gate = 0
     \/ caller[c].at = "sleep" /\ caller[c].left = 0
  /\ gate' = Greater(Floor, paced)
  /\ line' = Tail(line)
  /\ caller' = [caller EXCEPT ![c].at = "air"]
  /\ since' = 0
  /\ UNCHANGED <<paced, token, refresh, lapses, pause>>

(* paceFromHeaders, delayGate: what the headers of an answer do.           *)
Headers == {"silent", "roomy", "tight", "spent"}
Heard(headers, limited) ==
  LET waits == headers = "spent" \/ limited IN
  /\ paced' = CASE headers = "silent" -> paced [] headers = "tight" -> Pace [] OTHER -> 0
  /\ gate' = IF waits THEN Greater(gate, Pause) ELSE gate
  /\ pause' = IF waits THEN Pause ELSE pause

(* Mutant: a caller that was told to wait does not count the attempt.      *)
AgainForEver(q, backoff) ==
  [NoRequest EXCEPT !.at = IF backoff THEN "back" ELSE "auth", !.left = IF backoff THEN Backoff ELSE 0,
                    !.attempt = q.attempt]

(* The next attempt, if there is one; the request throws otherwise.        *)
Again(q, backoff) ==
  IF q.attempt = Tries THEN NoRequest
  ELSE [NoRequest EXCEPT !.at = IF backoff THEN "back" ELSE "auth", !.left = IF backoff THEN Backoff ELSE 0,
                         !.attempt = q.attempt + 1]

(* The request is over: a result, or a 4xx that no retry will change.      *)
Answered(c, headers) ==
  /\ caller[c].at = "air" /\ ~Flight(c) /\ caller[c].bearer = "good"
  /\ Heard(headers, FALSE)
  /\ caller' = [caller EXCEPT ![c] = NoRequest]
  /\ UNCHANGED <<line, token, refresh, lapses, since>>

(* 401: authenticate, whatever the token looks like, and try again.        *)
Unauthorised(c, headers) ==
  /\ caller[c].at = "air" /\ ~Flight(c) /\ caller[c].bearer # "good"
  /\ Heard(headers, FALSE)
  /\ caller' = [caller EXCEPT ![c].at = "auth", ![c].forced = TRUE]
  /\ UNCHANGED <<line, token, refresh, lapses, since>>

Limited(c, headers) ==
  /\ caller[c].at = "air" /\ ~Flight(c)
  /\ Heard(headers, TRUE)
  /\ caller' = [caller EXCEPT ![c] = Again(@, FALSE)]
  /\ UNCHANGED <<line, token, refresh, lapses, since>>

(* A 5xx, or no answer within REQUEST_TIMEOUT_MS.                          *)
Broken(c) ==
  /\ caller[c].at = "air" /\ ~Flight(c)
  /\ caller' = [caller EXCEPT ![c] = Again(@, TRUE)]
  /\ UNCHANGED <<gate, paced, line, token, refresh, lapses, since, pause>>

Awake(c) ==
  /\ caller[c].at = "back" /\ caller[c].left = 0
  /\ caller' = [caller EXCEPT ![c].at = "auth"]
  /\ UNCHANGED <<gate, paced, line, token, refresh, lapses, since, pause>>

(* Mutant: who joined the flight is not woken by it.                       *)
LandedAlone(c) == [caller EXCEPT ![c] =
  IF @.forced THEN Again(@, FALSE) ELSE [@ EXCEPT !.at = "resume", !.what = "call", !.bearer = "good"]]

(* The flight lands: who forced it starts its next attempt, the others go  *)
(* on with the one they are in.  All of them wake in one turn.             *)
Landed(c) == [r \in Callers |->
  IF r = c \/ caller[r].at = "join"
  THEN IF caller[r].forced THEN Again(caller[r], FALSE) ELSE [caller[r] EXCEPT !.at = "resume", !.what = "call", !.bearer = "good"]
  ELSE caller[r]]

Granted(c, headers) ==
  /\ caller[c].at = "air" /\ Flight(c)
  /\ caller[c].what = "refresh" => refresh = "good"
  /\ Heard(headers, FALSE)
  /\ token' = "good" /\ refresh' = "good"
  /\ caller' = Landed(c)
  /\ UNCHANGED <<line, lapses, since>>

(* A grant is one attempt.  The refresh token gives way to the password;   *)
(* the password was the last resort, and everybody's request throws.       *)
Denied(c, headers, limited) ==
  /\ caller[c].at = "air" /\ Flight(c)
  /\ Heard(headers, limited)
  /\ IF caller[c].what = "refresh" THEN Enter(c, "password", "spent")
     ELSE /\ caller' = [r \in Callers |-> IF r = c \/ caller[r].at = "join" THEN NoRequest ELSE caller[r]]
          /\ UNCHANGED line
  /\ UNCHANGED <<token, refresh, lapses, since>>

(* MangaDex drops the session, or the access token comes to its end.       *)
Lapse(to) ==
  /\ lapses < MaxLapses /\ lapses' = lapses + 1
  /\ token = "good" /\ token' = to
  /\ \/ /\ to = "stale" /\ refresh' = "stale"
        /\ caller' = [c \in Callers |-> [caller[c] EXCEPT !.bearer = IF @ = "good" THEN "stale" ELSE @]]
     \/ to = "spent" /\ UNCHANGED <<refresh, caller>>
  /\ UNCHANGED <<gate, paced, line, since, pause>>

Less(n) == IF n > 0 THEN n - 1 ELSE 0

TimeGoesBy ==
  /\ gate' = Less(gate) /\ pause' = Less(pause)
  /\ since' = IF since < Floor THEN since + 1 ELSE since
  /\ caller' = [c \in Callers |-> [caller[c] EXCEPT !.left = Less(@)]]
  /\ UNCHANGED <<paced, line, token, refresh, lapses>>

CallerStep(c) ==
  \/ EnsureAuth(c) \/ Resume(c) \/ Wait(c) \/ Send(c) \/ Awake(c) \/ Broken(c)
  \/ \E headers \in Headers :
       \/ Answered(c, headers) \/ Unauthorised(c, headers) \/ Limited(c, headers) \/ Granted(c, headers)
       \/ \E limited \in BOOLEAN : Denied(c, headers, limited)

MdNext ==
  \/ \E c \in Callers : Request(c) \/ CallerStep(c)
  \/ \E to \in {"stale", "spent"} : Lapse(to)
  \/ TimeGoesBy

(* A request that is under way goes on; time passes.                       *)
MdSpec ==
  /\ MdInit /\ [][MdNext]_mdVars
  /\ WF_mdVars(TimeGoesBy) /\ \A c \in Callers : WF_mdVars(CallerStep(c))
-----------------------------------------------------------------------------
(* Every variable stays in its type; who is in the line waits there once,  *)
(* and nobody waits for a flight that is over.                             *)
MdTypeOK ==
  /\ gate \in 0..Greater(Pause, Greater(Floor, Pace)) /\ paced \in {0, Pace}
  /\ token \in {"good", "stale", "spent"} /\ refresh \in {"good", "stale", "spent"}
  /\ \A c \in Callers :
       /\ caller[c].at \in {"idle", "auth", "join", "resume", "line", "sleep", "air", "back"}
       /\ caller[c].what \in {"call", "refresh", "password"} /\ caller[c].attempt \in 0..Tries
       /\ caller[c].at = "join" => \E f \in Callers : Flight(f)
       /\ caller[c].at \in {"line", "sleep"} <=> \E i \in DOMAIN line : line[i] = c
  /\ \A i, j \in DOMAIN line : line[i] = line[j] => i = j

(* Two requests never leave within one interval of each other, whatever    *)
(* callers wake together and whatever the headers said in between.         *)
RequestsAreSpaced == [][\A c \in Callers : caller[c].at # "air" /\ caller'[c].at = "air" => since = Floor]_mdVars

(* A burst of callers that find the token wanting makes one grant between  *)
(* them, as ensureAuth says.                                               *)
OneFlight == \A c, r \in Callers : Flight(c) /\ Flight(r) => c = r

(* The types of the client, and one grant at a time.                       *)
MdInv == MdTypeOK /\ OneFlight

(* Every request ends, with a result or with an error: nobody is starved   *)
(* in the line by retries, pauses or grants.                               *)
EveryRequestEnds == \A c \in Callers : []<>(caller[c].at = "idle")

(* A pause MangaDex asked for holds everybody back, and not the caller     *)
(* alone that heard of it, as the head of client.ts and delayGate say.     *)
PauseHolds == [][\A c \in Callers : caller[c].at # "air" /\ caller'[c].at = "air" => pause = 0]_mdVars
=============================================================================
