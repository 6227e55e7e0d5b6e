------------------------------ MODULE Accounts ------------------------------
(***************************************************************************)
(* Operator accounts and the links mailed to them                          *)
(* (src/core/store/adminUsers.ts and loginTokens.ts, the routes of         *)
(* users.ts, magicLink.ts and the owner's start-up repair).  Every request *)
(* is a few statements without a transaction: one that takes an owner away *)
(* counts the others first, one that mails a link retires the earlier ones *)
(* first, and one that redeems a link claims it first.                     *)
(***************************************************************************)
EXTENDS Naturals, FiniteSets

CONSTANTS
  People, Owner,         \* accounts, and the configured owner's
  Admins,                \* requests that are handled at one time
  MaxLinks, MaxStarts    \* bounds: links mailed, repairs by a start

ASSUME AccountsAssumption == Owner \in People /\ {MaxLinks, MaxStarts} \subseteq Nat

VARIABLES
  role,      \* admin_users: person -> its role, "none" without an account
  approved,  \* ... and who is approved
  link,      \* login_tokens, by number: [of, state]
  inquiry,   \* request -> [at, of, link, stale]; stale: since it looked, an
             \* owner came or went
  opened,    \* observer: link -> sessions it opened
  raced,     \* observer: an owner was taken away on a stale count
  crossed,   \* observer: people two of whose mails overlapped
  starts

accountVars == <<role, approved, link, inquiry, opened, raced, crossed, starts>>

Links == 1..MaxLinks
Accounts == {p \in People : role[p] # "none"}
Owners == {p \in People : role[p] = "OWNER"}
NoInquiry == [at |-> "idle", of |-> Owner, link |-> 0, stale |-> FALSE]

AccountsInit ==
  /\ role = [p \in People |-> IF p = Owner THEN "OWNER" ELSE "none"] /\ approved = {Owner}
  /\ link = [n \in Links |-> [of |-> Owner, state |-> "free"]]
  /\ inquiry = [q \in Admins |-> NoInquiry]
  /\ opened = [n \in Links |-> 0] /\ raced = FALSE /\ crossed = {} /\ starts = 0

Asks(q, at, p, n) == inquiry[q].at = "idle"
  /\ inquiry' = [inquiry EXCEPT ![q] = [at |-> at, of |-> p, link |-> n, stale |-> FALSE]]
Leaves(q) == inquiry' = [inquiry EXCEPT ![q] = NoInquiry]
-----------------------------------------------------------------------------
(* Accounts.  Signup, invitation, approval and promotion ask nothing.      *)
SignUp(p) ==
  /\ p \notin Accounts /\ role' = [role EXCEPT ![p] = "ADMIN"]
  /\ UNCHANGED <<approved, link, inquiry, opened, raced, crossed, starts>>

Invite(p, as) ==
  /\ p \notin Accounts /\ role' = [role EXCEPT ![p] = as] /\ approved' = approved \cup {p}
  /\ UNCHANGED <<link, inquiry, opened, raced, crossed, starts>>

Approve(p) ==
  /\ p \in Accounts \ approved /\ approved' = approved \cup {p}
  /\ UNCHANGED <<role, link, inquiry, opened, raced, crossed, starts>>

(* What others have read and counted is stale once an owner comes or goes; *)
(* with an account its requests are over (they fail, or find nothing).     *)
Outdated(open, gone) == [k \in Admins |->
  IF open[k].of \in gone THEN NoInquiry
  ELSE [open[k] EXCEPT !.stale = open[k].at \in {"demoting", "removing"}]]

Promote(p) ==
  /\ p \in Accounts \ Owners
  /\ role' = [role EXCEPT ![p] = "OWNER"] /\ inquiry' = Outdated(inquiry, {})
  /\ UNCHANGED <<approved, link, opened, raced, crossed, starts>>

(* Mutant: the count of the other owners includes the one asked about.     *)
CountOwners(q, p, at) ==
  /\ p \in Accounts
  /\ p \in Owners => Owners # {}
  /\ Asks(q, at, p, 0)
  /\ UNCHANGED <<role, approved, link, opened, raced, crossed, starts>>

(* setRole to a lesser role, and remove: the row is read and the other     *)
(* owners are counted, approved or not; the last one is refused.           *)
CountOthers(q, p, at) ==
  /\ p \in Accounts
  /\ p \in Owners => Owners \ {p} # {}
  /\ Asks(q, at, p, 0)
  /\ UNCHANGED <<role, approved, link, opened, raced, crossed, starts>>

TakeAway(q) ==
  LET p == inquiry[q].of
      removed == inquiry[q].at = "removing"
      left == [inquiry EXCEPT ![q] = NoInquiry]
      gone == IF removed THEN {p} ELSE {}
  IN /\ inquiry[q].at \in {"demoting", "removing"}
     /\ role' = [role EXCEPT ![p] = IF removed THEN "none" ELSE "ADMIN"]
     /\ approved' = approved \ gone
     /\ link' = [n \in Links |-> IF link[n].of \in gone /\ link[n].state # "free"
                                 THEN [link[n] EXCEPT !.state = "revoked"] ELSE link[n]]
     /\ raced' = (raced \/ (p \in Owners /\ inquiry[q].stale))
     /\ inquiry' = IF p \in Owners \cup gone THEN Outdated(left, gone) ELSE left
     /\ UNCHANGED <<opened, crossed, starts>>

(* ensureOwner, at each start and at a login with the admin token.         *)
EnsureOwner ==
  /\ starts < MaxStarts /\ starts' = starts + 1
  /\ role' = [role EXCEPT ![Owner] = "OWNER"] /\ approved' = approved \cup {Owner}
  /\ inquiry' = Outdated(inquiry, {}) /\ raced' = FALSE
  /\ UNCHANGED <<link, opened, crossed>>
-----------------------------------------------------------------------------
(* Links.  revokeOutstanding is one statement.                             *)
Outstanding(p) == {n \in Links : link[n].of = p /\ link[n].state = "outstanding"}
Retired(p, except) == [n \in Links |-> IF n \in Outstanding(p) \ except
                                       THEN [link[n] EXCEPT !.state = "revoked"] ELSE link[n]]

Mailing == {"issuing", "mailing"}
BeginSend(q, p) ==
  /\ p \in Accounts \cap approved /\ Asks(q, "issuing", p, 0)
  /\ link' = Retired(p, {})
  /\ crossed' = IF \E k \in Admins : inquiry[k].at \in Mailing /\ inquiry[k].of = p
                THEN crossed \cup {p} ELSE crossed \ {p}
  /\ UNCHANGED <<role, approved, opened, raced, starts>>

CreateLink(q) ==
  /\ inquiry[q].at = "issuing"
  /\ \E n \in Links :
       /\ \A m \in Links : link[m].state = "free" <=> m >= n
       /\ link' = [link EXCEPT ![n] = [of |-> inquiry[q].of, state |-> "outstanding"]]
       /\ inquiry' = [inquiry EXCEPT ![q].at = "mailing"]
  /\ UNCHANGED <<role, approved, opened, raced, crossed, starts>>

(* A mail that fails takes every outstanding link of the account along.    *)
EndSend(q) ==
  /\ inquiry[q].at = "mailing" /\ Leaves(q)
  /\ link' \in {link, Retired(inquiry[q].of, {})}
  /\ UNCHANGED <<role, approved, opened, raced, crossed, starts>>

(* consume: one statement claims the link, for one of two clicks.          *)
ClaimLink(q, n) ==
  /\ link[n].state = "outstanding"
  /\ Asks(q, "redeeming", link[n].of, n)
  /\ link' = [link EXCEPT ![n].state = "consumed"]
  /\ UNCHANGED <<role, approved, opened, raced, crossed, starts>>

(* Then the account's other links are retired, and a session is opened.    *)
EndRedeem(q) ==
  /\ inquiry[q].at = "redeeming" /\ Leaves(q)
  /\ link' = Retired(inquiry[q].of, {inquiry[q].link})
  /\ opened' = [opened EXCEPT ![inquiry[q].link] = @ + 1]
  /\ UNCHANGED <<role, approved, raced, crossed, starts>>

(* A new password retires the links, in a statement of its own.            *)
RetireLinks(p) ==
  /\ p \in Accounts /\ link' = Retired(p, {})
  /\ UNCHANGED <<role, approved, inquiry, opened, raced, crossed, starts>>

LinkExpires(n) ==
  /\ link[n].state = "outstanding" /\ link' = [link EXCEPT ![n].state = "revoked"]
  /\ UNCHANGED <<role, approved, inquiry, opened, raced, crossed, starts>>

AccountsNext ==
  \/ \E p \in People :
       \/ SignUp(p) \/ Approve(p) \/ Promote(p) \/ RetireLinks(p)
       \/ \E as \in {"ADMIN", "OWNER"} : Invite(p, as)
       \/ \E q \in Admins : BeginSend(q, p) \/ \E at \in {"demoting", "removing"} : CountOthers(q, p, at)
  \/ \E q \in Admins :
       \/ TakeAway(q) \/ CreateLink(q) \/ EndSend(q) \/ EndRedeem(q)
       \/ \E n \in Links : ClaimLink(q, n)
  \/ EnsureOwner \/ \E n \in Links : LinkExpires(n)

AccountsSpec == AccountsInit /\ [][AccountsNext]_accountVars
-----------------------------------------------------------------------------
AccountsTypeOK ==
  /\ role \in [People -> {"none", "ADMIN", "OWNER"}] /\ approved \subseteq Accounts
  /\ link \in [Links -> [of : People, state : {"free", "outstanding", "consumed", "revoked"}]]
  /\ inquiry \in [Admins -> [at : {"idle", "demoting", "removing", "issuing", "mailing", "redeeming"},
                             of : People, link : {0} \cup Links, stale : BOOLEAN]]
  /\ opened \in [Links -> Nat] /\ raced \in BOOLEAN /\ crossed \subseteq People
  /\ starts \in 0..MaxStarts

(* Demotions and removals leave an owner standing (setRole, remove), until *)
(* two of them overlap: then each may have counted the other's.            *)
OwnersStand == Owners # {} \/ raced

(* A link opens one session, however often and however fast it is clicked. *)
LinksWorkOnce == \A n \in Links : opened[n] <= 1

(* A mail takes the links of the earlier ones out of use: an account has   *)
(* one way in by mail, unless two of its mails are sent at the same time.  *)
OneLinkAtATime == \A p \in People : Cardinality(Outstanding(p)) <= 1 \/ p \in crossed

AccountsInv == AccountsTypeOK /\ OwnersStand /\ LinksWorkOnce /\ OneLinkAtATime
=============================================================================
