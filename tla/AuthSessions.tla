----------------------------- MODULE AuthSessions -----------------------------
(***************************************************************************)
(* Accounts, refresh tokens and the links that are mailed: the handlers of *)
(* authController.ts and emailVerificationController.ts, and the saves of  *)
(* userController.ts, over the collections they share.  Every await of a   *)
(* handler ends a step; requests interleave between steps.                 *)
(*                                                                         *)
(* A password is the number of times it was set.  A login is served in one *)
(* piece, also when it waits for a second factor (module TwoFactor).       *)
(* Refresh tokens rotate: without ROTATE_REFRESH_TOKENS a refresh writes   *)
(* nothing.  Access tokens are not stored anywhere.  What has expired is   *)
(* gone.  Accounts are never deleted.                                      *)
(*                                                                         *)
(* save() of a user sends what was assigned and the default of what the    *)
(* copy had not: emailVerified, in accounts older than that field.         *)
(***************************************************************************)
EXTENDS Naturals, FiniteSets

CONSTANTS
  Users,
  NoAccount,     (* Nobody has registered this user.                       *)
  Slots,         (* Requests served at the same time.                      *)
  MaxRequests    (* Bound: requests.                                       *)

Kinds == {"verify", "reset"}

Account == [password : Nat, verified : {"missing", "no", "yes"}, grace : BOOLEAN]

(* A refresh token, from its login on: root numbers the login, pass is the *)
(* password it gave, birth the number of times that all tokens of the user *)
(* had been deleted by then.  late: a deletion of all tokens did not see   *)
(* it, or one it comes from.  forked: so does a token of another refresh.  *)
Token == [id : Nat, user : Users, root : Nat, pass : Nat, birth : Nat,
          late : BOOLEAN, forked : BOOLEAN]

Link == [id : Nat, user : Users, kind : Kinds, used : Nat]

ASSUME AuthAssumption ==
  /\ NoAccount \notin Account
  /\ IsFiniteSet(Slots)
  /\ MaxRequests \in Nat

VARIABLES
  accounts,
  tokens,        (* Refresh tokens that are stored.                        *)
  links,         (* Verification and reset links that are stored.          *)
  requests,      (* What each slot serves.                                 *)
  revocations,   (* How often all tokens of a user were deleted.           *)
  reset,         (* The newest password that a completed reset has set.    *)
  served         (* Requests so far.                                       *)

vars == <<accounts, tokens, links, requests, revocations, reset, served>>

Idle == [op |-> "idle"]

Become(r, request) == requests' = [requests EXCEPT ![r] = request]

Arrive(r) == requests[r] = Idle /\ served < MaxRequests /\ served' = served + 1

Begin(r, request) == Arrive(r) /\ Become(r, request)

Continue(r, request) == Become(r, request) /\ UNCHANGED served

Proceed(r, op) == Continue(r, [requests[r] EXCEPT !.op = op])

End(r) == Continue(r, Idle)

\* The sessions that logins and refreshes are about to store.
Storing == {r \in Slots : requests[r].op \in {"greet", "link", "rotate", "store"}}

Revoked == UNCHANGED <<revocations, reset>>

-----------------------------------------------------------------------------
NewToken(u, pass) ==
  [id |-> served, user |-> u, root |-> served, pass |-> pass, birth |-> revocations[u],
   late |-> FALSE, forked |-> FALSE]

\* Username and email are unique: a second registration is refused.
Register(r, u) ==
  /\ accounts[u] = NoAccount
  /\ accounts' = [accounts EXCEPT ![u] = [password |-> 0, verified |-> "no", grace |-> TRUE]]
  /\ Begin(r, [op |-> "store", token |-> NewToken(u, 0), new |-> TRUE])
  /\ UNCHANGED <<tokens, links>> /\ Revoked

\* The password of the copy is right.  Who was never asked to verify is asked now.
Login(r, u) ==
  /\ accounts[u] # NoAccount
  /\ LET copy == accounts[u]  token == NewToken(u, copy.password) IN
       Begin(r, IF copy.verified = "yes" \/ copy.grace
                  THEN [op |-> "store", token |-> token, new |-> FALSE]
                  ELSE [op |-> "greet", token |-> token, copy |-> copy])
  /\ UNCHANGED <<accounts, tokens, links>> /\ Revoked

\* Faulty: the whole copy is saved.
FaultySaved(account, copy) == [account EXCEPT !.verified = copy.verified]

Saved(account, copy) ==
  [account EXCEPT !.verified = IF copy.verified = "missing" THEN "no" ELSE @]

Greet(r) ==
  /\ requests[r].op = "greet"
  /\ LET token == requests[r].token IN
       /\ accounts' = [accounts EXCEPT ![token.user] =
                         [Saved(@, requests[r].copy) EXCEPT !.grace = TRUE]]
       /\ Continue(r, [op |-> "link", token |-> token])
  /\ UNCHANGED <<tokens, links>> /\ Revoked

NewLink(id, u, kind) == [id |-> id, user |-> u, kind |-> kind, used |-> 0]

\* The link of a login is stored or not, and then the token.
GreetingLink(r) ==
  /\ requests[r].op = "link"
  /\ LET token == requests[r].token IN
       /\ \/ links' = links \cup {NewLink(token.id, token.user, "verify")}
          \/ links' = links
       /\ Continue(r, [op |-> "store", token |-> token, new |-> FALSE])
  /\ UNCHANGED <<accounts, tokens>> /\ Revoked

StoreToken(r) ==
  /\ requests[r].op = "store"
  /\ LET token == requests[r].token IN
       /\ tokens' = tokens \cup {token}
       /\ Continue(r, IF requests[r].new
                        THEN [op |-> "mail", id |-> token.id, user |-> token.user, kind |-> "verify"]
                        ELSE Idle)
  /\ UNCHANGED <<accounts, links>> /\ Revoked

-----------------------------------------------------------------------------
\* Those who have found the same token and not deleted it yet.
Holding(token) ==
  {r \in Slots : requests[r].op = "rotate" /\ requests[r].old = token.id}

\* Faulty: a token is good until it expires; the old one is left.
FaultyRotate(r) ==
  /\ requests[r].op = "rotate"
  /\ Continue(r, [op |-> "store", token |-> requests[r].token, new |-> FALSE])
  /\ UNCHANGED <<accounts, tokens, links>> /\ Revoked

\* Others may find the token before it is deleted.
Refresh(r, token) ==
  /\ Arrive(r)
  /\ LET others == Holding(token)
         forked == token.forked \/ others # {}
     IN requests' = [s \in Slots |->
          IF s = r THEN [op |-> "rotate", old |-> token.id,
                         token |-> [token EXCEPT !.id = served, !.forked = forked]]
          ELSE IF s \in others THEN [requests[s] EXCEPT !.token = [@ EXCEPT !.forked = TRUE]]
          ELSE requests[s]]
  /\ UNCHANGED <<accounts, tokens, links>> /\ Revoked

Rotate(r) ==
  /\ requests[r].op = "rotate"
  /\ tokens' = {token \in tokens : token.id # requests[r].old}
  /\ Continue(r, [op |-> "store", token |-> requests[r].token, new |-> FALSE])
  /\ UNCHANGED <<accounts, links>> /\ Revoked

\* A logout with the token, or its time is over.
Logout(token) ==
  /\ tokens' = tokens \ {token}
  /\ UNCHANGED <<accounts, links, requests, served>> /\ Revoked

\* Faulty: one is deleted.
FaultyOwn(u) == IF \E token \in tokens : token.user = u
                  THEN {CHOOSE token \in tokens : token.user = u} ELSE {}

Own(u) == {token \in tokens : token.user = u}

\* All tokens of u go; those about to be stored are too late to be seen.
\* next is what the slots serve then.
RevokeAll(u, next) ==
  /\ tokens' = tokens \ Own(u)
  /\ revocations' = [revocations EXCEPT ![u] = @ + 1]
  /\ requests' = [s \in Slots |->
       IF s \in Storing /\ requests[s].token.user = u
         THEN [requests[s] EXCEPT !.token = [@ EXCEPT !.late = TRUE]] ELSE next[s]]

LogoutAll(u) ==
  /\ served < MaxRequests /\ served' = served + 1
  /\ accounts[u] # NoAccount
  /\ RevokeAll(u, requests)
  /\ UNCHANGED <<accounts, links, reset>>

-----------------------------------------------------------------------------
\* Faulty: an address that nobody has registered gets its link.
FaultyAsk(r, u, kind) ==
  /\ Begin(r, [op |-> "drop", id |-> served, user |-> u, kind |-> kind])
  /\ UNCHANGED <<accounts, tokens, links>> /\ Revoked

\* resendVerification and forgotPassword: unused links go, a new one is mailed.
Ask(r, u, kind) ==
  /\ accounts[u] # NoAccount /\ (kind = "verify" => accounts[u].verified # "yes")
  /\ Begin(r, [op |-> "drop", id |-> served, user |-> u, kind |-> kind])
  /\ UNCHANGED <<accounts, tokens, links>> /\ Revoked

\* Faulty: used links go.
FaultyDropped(request) ==
  {link \in links : link.user = request.user /\ link.kind = request.kind /\ link.used > 0}

Dropped(request) ==
  {link \in links : link.user = request.user /\ link.kind = request.kind /\ link.used = 0}

DropLinks(r) ==
  /\ requests[r].op = "drop"
  /\ links' = links \ Dropped(requests[r])
  /\ Proceed(r, "mail")
  /\ UNCHANGED <<accounts, tokens>> /\ Revoked

MailLink(r) ==
  /\ requests[r].op = "mail"
  /\ links' = links \cup {NewLink(requests[r].id, requests[r].user, requests[r].kind)}
  /\ End(r)
  /\ UNCHANGED <<accounts, tokens>> /\ Revoked

\* verifyEmail and resetPassword find their link unused.
UseLink(r, link) ==
  /\ link.used = 0
  /\ Begin(r, [op |-> "mark", link |-> link])
  /\ UNCHANGED <<accounts, tokens, links>> /\ Revoked

\* ... and mark it, if it is still stored, whoever has marked it since.
MarkLink(r) ==
  /\ requests[r].op = "mark"
  /\ \E link \in links :
       /\ link.id = requests[r].link.id /\ link.kind = requests[r].link.kind
       /\ links' = (links \ {link}) \cup {[link EXCEPT !.used = @ + 1]}
  /\ Proceed(r, IF requests[r].link.kind = "verify" THEN "verify" ELSE "account")
  /\ UNCHANGED <<accounts, tokens>> /\ Revoked

Verify(r) ==
  /\ requests[r].op = "verify"
  /\ accounts' = [accounts EXCEPT ![requests[r].link.user].verified = "yes"]
  /\ End(r)
  /\ UNCHANGED <<tokens, links>> /\ Revoked

-----------------------------------------------------------------------------
ReadAccount(r) ==
  /\ requests[r].op = "account"
  /\ LET u == requests[r].link.user IN
       Continue(r, [op |-> "password", user |-> u, copy |-> accounts[u]])
  /\ UNCHANGED <<accounts, tokens, links>> /\ Revoked

\* A user is read to be saved again: name, address, admin rights or a password.
EditAccount(r, u, op) ==
  /\ accounts[u] # NoAccount
  /\ Begin(r, [op |-> op, user |-> u, copy |-> accounts[u]])
  /\ UNCHANGED <<accounts, tokens, links>> /\ Revoked

\* A new password, or none.  Only a reset goes on: to delete the tokens.
SaveAccount(r) ==
  /\ requests[r].op \in {"profile", "new password", "password"}
  /\ LET u == requests[r].user
         account == Saved(accounts[u], requests[r].copy)
         new == [account EXCEPT !.password = @ + 1]
     IN CASE requests[r].op = "profile" ->
               accounts' = [accounts EXCEPT ![u] = account] /\ End(r)
          [] requests[r].op = "new password" ->
               accounts' = [accounts EXCEPT ![u] = new] /\ End(r)
          [] OTHER ->
               /\ accounts' = [accounts EXCEPT ![u] = new]
               /\ Continue(r, [op |-> "revoke", user |-> u, pass |-> new.password])
  /\ UNCHANGED <<tokens, links>> /\ Revoked

EndSessions(r) ==
  /\ requests[r].op = "revoke"
  /\ LET u == requests[r].user  pass == requests[r].pass IN
       /\ RevokeAll(u, [requests EXCEPT ![r] = Idle])
       /\ reset' = [reset EXCEPT ![u] = IF pass > @ THEN pass ELSE @]
  /\ UNCHANGED <<accounts, links, served>>

\* The link is gone, or the database fails: the rest is not done.
Abandon(r) ==
  /\ requests[r] # Idle
  /\ End(r)
  /\ UNCHANGED <<accounts, tokens, links>> /\ Revoked

\* A link that is too old is deleted.
ExpireLink(link) ==
  /\ links' = links \ {link}
  /\ UNCHANGED <<accounts, tokens, requests, served>> /\ Revoked

-----------------------------------------------------------------------------
\* An account that is older than the verification of addresses.
LegacyAccount == [password |-> 0, verified |-> "missing", grace |-> FALSE]

Init ==
  /\ accounts \in [Users -> {NoAccount, LegacyAccount}]
  /\ tokens = {} /\ links = {}
  /\ requests = [r \in Slots |-> Idle]
  /\ revocations = [u \in Users |-> 0]
  /\ reset = [u \in Users |-> 0]
  /\ served = 0

Enter(r) ==
  \/ \E u \in Users : Register(r, u) \/ Login(r, u)
  \/ Greet(r) \/ GreetingLink(r) \/ StoreToken(r)
  \/ \E token \in tokens : Refresh(r, token)
  \/ Rotate(r)

Recover(r) ==
  \/ \E u \in Users, kind \in Kinds : Ask(r, u, kind)
  \/ DropLinks(r) \/ MailLink(r)
  \/ \E link \in links : UseLink(r, link)
  \/ MarkLink(r) \/ Verify(r) \/ ReadAccount(r)
  \/ \E u \in Users, op \in {"profile", "new password"} : EditAccount(r, u, op)
  \/ SaveAccount(r) \/ EndSessions(r)

Next ==
  \/ \E r \in Slots : Enter(r) \/ Recover(r) \/ Abandon(r)
  \/ \E u \in Users : LogoutAll(u)
  \/ \E token \in tokens : Logout(token)
  \/ \E link \in links : ExpireLink(link)

Spec == Init /\ [][Next]_vars

-----------------------------------------------------------------------------
Request ==
  {Idle}
  \cup [op : {"greet"}, token : Token, copy : Account]
  \cup [op : {"link"}, token : Token]
  \cup [op : {"store"}, token : Token, new : BOOLEAN]
  \cup [op : {"rotate"}, old : Nat, token : Token]
  \cup [op : {"drop", "mail"}, id : Nat, user : Users, kind : Kinds]
  \cup [op : {"mark", "verify", "account"}, link : Link]
  \cup [op : {"profile", "new password", "password"}, user : Users, copy : Account]
  \cup [op : {"revoke"}, user : Users, pass : Nat]

\* Everything keeps its shape; tokens and links belong to accounts that exist.
AuthTypeOK ==
  /\ accounts \in [Users -> Account \cup {NoAccount}]
  /\ tokens \subseteq Token /\ links \subseteq Link
  /\ requests \in [Slots -> Request]
  /\ revocations \in [Users -> Nat] /\ reset \in [Users -> Nat]
  /\ served \in 0 .. MaxRequests
  /\ \A token \in tokens : accounts[token.user] # NoAccount
  /\ \A link \in links : accounts[link.user] # NoAccount

\* A logout from all devices and a completed password reset end every session
\* of the user: a token that is stored afterwards comes from a login after the
\* last of them, with the password that the last reset set or a newer one, but
\* for what a login or a refresh under way at the deletion stored later and what
\* became of that.  And a login has one refresh token at a time, but for those
\* that two refreshes made of one.
OldSessionsEnd ==
  /\ \A token \in tokens : ~token.late =>
       /\ token.birth = revocations[token.user]
       /\ token.pass >= reset[token.user]
  /\ \A one, other \in tokens :
       one # other /\ one.root = other.root => one.forked /\ other.forked

\* However often links are asked for, a user has no more unused ones of a kind
\* than requests are served at a time (the first logins to an old account add as
\* many to verify its address), and no link is accepted more often than that.
LinksAreBounded ==
  /\ \A u \in Users, kind \in Kinds :
       Cardinality({link \in links : link.user = u /\ link.kind = kind /\ link.used = 0})
         <= (IF kind = "verify" THEN 2 ELSE 1) * Cardinality(Slots)
  /\ \A link \in links : link.used <= Cardinality(Slots)

\* A verified address stays verified, but for a save of a copy of an account
\* that had no such field when it was read.
VerifiedStays ==
  [][ \A u \in Users :
        accounts[u] # NoAccount /\ accounts[u].verified = "yes" /\ accounts'[u].verified # "yes"
          => \E r \in Slots :
               /\ requests'[r] # requests[r]
               /\ requests[r].op \in {"greet", "profile", "new password", "password"}
               /\ requests[r].copy.verified = "missing" ]_vars
=============================================================================
