------------------------------ MODULE TwoFactor ------------------------------
(***************************************************************************)
(* The second factor of one account: twoFactorController.ts over the user  *)
(* document, the two-factor sessions that login hands out and the WebAuthn *)
(* challenges.  A handler loads the user, works on its copy and saves what *)
(* it changed; requests interleave between the two.                        *)
(*                                                                         *)
(* What a save sends is Mongoose's: the fields that differ from the copy,  *)
(* and totp.verified when the copy had none.  A list that was assigned or  *)
(* spliced is written whole, only to the version that was read, and moves  *)
(* the version on; a push only moves it on; setting an element's field     *)
(* only checks it.  A check that fails ends the request.                   *)
(*                                                                         *)
(* Secrets and backup codes are numbered after the request that made them; *)
(* 0 is no secret.  A passkey is numbered after the challenge that it      *)
(* answers: the same response sent again brings the same credential.  A    *)
(* code or signature is right or the request ends.  Of a public key only   *)
(* matters whether it is stored; transports and nicknames are left out.    *)
(* The account has every field when it starts, as register creates it.     *)
(***************************************************************************)
EXTENDS Naturals, Sequences

CONSTANTS
  Slots,         (* Requests served at the same time.                      *)
  Codes,         (* The codes of one set of backup codes: ten in the code. *)
  MaxCount,      (* Bound: the sign count of a passkey.                    *)
  MaxRequests    (* Bound: requests.                                       *)

ASSUME TwoFactorAssumption == MaxCount \in Nat /\ MaxRequests \in Nat

BackupCode == Nat \X Codes

Passkey == [id : Nat, count : 0 .. MaxCount, key : BOOLEAN]

Account == [version : Nat, flag : BOOLEAN, secret : Nat, verified : {"missing", "no", "yes"},
            codes : SUBSET BackupCode, passkeys : Seq(Passkey)]

\* Numbers of sessions and challenges are those of the requests that made them.
Session == [id : Nat, used : BOOLEAN]

VARIABLES
  account,
  sessions,      (* Two-factor sessions that are stored.                   *)
  challenges,    (* WebAuthn challenges that are stored.                   *)
  requests,      (* What each slot serves.                                 *)
  accepted,      (* Every login and registration that was accepted, in     *)
                 (* order: by which slot, for which session or challenge,  *)
                 (* with which codes.                                      *)
  served         (* Requests so far.                                       *)

vars == <<account, sessions, challenges, requests, accepted, served>>

Idle == [op |-> "idle"]

Become(r, request) == requests' = [requests EXCEPT ![r] = request]

\* The new request's number is served'.
Begin(r, request) ==
  /\ requests[r] = Idle
  /\ served < MaxRequests /\ served' = served + 1
  /\ Become(r, request)

Continue(r, request) == Become(r, request) /\ UNCHANGED served

End(r) == Continue(r, Idle)

-----------------------------------------------------------------------------
Unversioned == {"setup", "disable", "profile"}
Versioned == {"verify", "regenerate"}

\* A handler that changes the user starts with a copy of it.  Who has no secret
\* has nothing to verify or disable.
ReadAccount(r, op) ==
  /\ op \in {"verify", "disable", "regenerate"} => account.secret # 0
  /\ Begin(r, [op |-> op, id |-> served + 1, copy |-> account])
  /\ UNCHANGED <<account, sessions, challenges, accepted>>

\* What any save sends beside what it is about.
Defaulted(copy) ==
  [account EXCEPT !.verified = IF copy.verified = "missing" THEN "no" ELSE @]

\* A list is written whole where nobody has moved the version on.
Current(copy) == copy.version = account.version

SaveSetup(r) ==
  /\ requests[r].op = "setup"
  /\ account' = [account EXCEPT !.secret = requests[r].id, !.verified = "no"]
  /\ End(r)
  /\ UNCHANGED <<sessions, challenges, accepted>>

NewCodes(id) == {id} \X Codes

SaveVerified(r) ==
  /\ requests[r].op = "verify" /\ Current(requests[r].copy)
  /\ LET copy == requests[r].copy IN
       account' = [account EXCEPT
         !.verified = IF copy.verified = "yes" THEN @ ELSE "yes",
         !.flag = IF copy.flag THEN @ ELSE TRUE,
         !.codes = NewCodes(requests[r].id), !.version = @ + 1]
  /\ End(r)
  /\ UNCHANGED <<sessions, challenges, accepted>>

SaveCodes(r) ==
  /\ requests[r].op = "regenerate" /\ Current(requests[r].copy)
  /\ account' = [account EXCEPT !.codes = NewCodes(requests[r].id), !.version = @ + 1]
  /\ End(r)
  /\ UNCHANGED <<sessions, challenges, accepted>>

\* Faulty: passkeys are forgotten.
FaultyStaysOn(copy) == FALSE

\* With passkeys the second factor stays on.
StaysOn(copy) == copy.passkeys # <<>>

SaveDisabled(r) ==
  /\ requests[r].op = "disable"
  /\ LET copy == requests[r].copy IN
       account' = [account EXCEPT
         !.secret = 0, !.verified = "missing", !.codes = {},
         !.flag = IF copy.flag = StaysOn(copy) THEN @ ELSE StaysOn(copy)]
  /\ End(r)
  /\ UNCHANGED <<sessions, challenges, accepted>>

\* Name, address, password: the save of another controller.
SaveProfile(r) ==
  /\ requests[r].op = "profile"
  /\ account' = Defaulted(requests[r].copy)
  /\ End(r)
  /\ UNCHANGED <<sessions, challenges, accepted>>

-----------------------------------------------------------------------------
\* A login with the password, to an account whose flag is on.
AskSecondFactor(r) ==
  /\ account.flag
  /\ Begin(r, [op |-> "open", id |-> served + 1])
  /\ UNCHANGED <<account, sessions, challenges, accepted>>

OpenSession(r) ==
  /\ requests[r].op = "open"
  /\ sessions' = sessions \cup {[id |-> requests[r].id, used |-> FALSE]}
  /\ End(r)
  /\ UNCHANGED <<account, challenges, accepted>>

\* Faulty: a session is good until it expires.
FaultyFindSession(r, session) ==
  /\ Begin(r, [op |-> "mark", of |-> session.id])
  /\ UNCHANGED <<account, sessions, challenges, accepted>>

FindSession(r, session) ==
  /\ ~session.used
  /\ Begin(r, [op |-> "mark", of |-> session.id])
  /\ UNCHANGED <<account, sessions, challenges, accepted>>

\* The session is used up before the code is looked at.
MarkSession(r) ==
  /\ requests[r].op = "mark"
  /\ \E session \in sessions : session.id = requests[r].of
  /\ sessions' = {IF session.id = requests[r].of THEN [session EXCEPT !.used = TRUE] ELSE session :
                    session \in sessions}
  /\ Continue(r, [op |-> "check", of |-> requests[r].of])
  /\ UNCHANGED <<account, challenges, accepted>>

\* The code fits the secret, which need not be verified.
CheckTOTP(r) ==
  /\ requests[r].op = "check" /\ account.secret # 0
  /\ Continue(r, [op |-> "accept", of |-> requests[r].of, with |-> {}])
  /\ UNCHANGED <<account, sessions, challenges, accepted>>

CheckBackup(r, code) ==
  /\ requests[r].op = "check"
  /\ Continue(r, [op |-> "spend", of |-> requests[r].of, code |-> code, copy |-> account])
  /\ UNCHANGED <<account, sessions, challenges, accepted>>

\* Faulty: the code is removed by a write that checks no version.
FaultySpendCode(r) ==
  /\ requests[r].op = "spend"
  /\ account' = [Defaulted(requests[r].copy) EXCEPT
                   !.codes = requests[r].copy.codes \ {requests[r].code}, !.version = @ + 1]
  /\ Continue(r, [op |-> "accept", of |-> requests[r].of, with |-> {requests[r].code}])
  /\ UNCHANGED <<sessions, challenges, accepted>>

SpendCode(r) ==
  /\ requests[r].op = "spend" /\ Current(requests[r].copy)
  /\ account' = [Defaulted(requests[r].copy) EXCEPT
                   !.codes = requests[r].copy.codes \ {requests[r].code}, !.version = @ + 1]
  /\ Continue(r, [op |-> "accept", of |-> requests[r].of, with |-> {requests[r].code}])
  /\ UNCHANGED <<sessions, challenges, accepted>>

\* The refresh token is stored: the login is complete.
Accept(r) ==
  /\ requests[r].op = "accept"
  /\ accepted' = Append(accepted, [slot |-> r, of |-> requests[r].of, with |-> requests[r].with])
  /\ End(r)
  /\ UNCHANGED <<account, sessions, challenges>>

-----------------------------------------------------------------------------
\* Options to register a passkey or to log in with one.
NewChallenge ==
  /\ served < MaxRequests /\ served' = served + 1
  /\ challenges' = challenges \cup {served + 1}
  /\ UNCHANGED <<account, sessions, requests, accepted>>

\* Neither the type nor the user of a challenge is compared.
FindChallenge(r, challenge, op) ==
  /\ Begin(r, [op |-> op, of |-> challenge])
  /\ UNCHANGED <<account, sessions, challenges, accepted>>

ReadToRegister(r) ==
  /\ requests[r].op = "registration"
  /\ Continue(r, [op |-> "register", of |-> requests[r].of, copy |-> account])
  /\ UNCHANGED <<account, sessions, challenges, accepted>>

NewPasskey(challenge) == [id |-> challenge, count |-> 0, key |-> TRUE]

\* Pushed without a look at what is stored: a response that is sent twice at a
\* time is stored twice.
SavePasskey(r) ==
  /\ requests[r].op = "register"
  /\ LET copy == requests[r].copy IN
       account' = [Defaulted(copy) EXCEPT
         !.passkeys = Append(@, NewPasskey(requests[r].of)),
         !.flag = IF copy.flag THEN @ ELSE TRUE, !.version = @ + 1]
  /\ Continue(r, [op |-> "registered", of |-> requests[r].of])
  /\ UNCHANGED <<sessions, challenges, accepted>>

\* Passkeys are found by their id: the first one that has it.
IsFound(passkeys, i) == \A j \in 1 .. i - 1 : passkeys[j].id # passkeys[i].id

\* The authenticator has counted on, or does not count.
Counts(passkey) == {n \in 0 .. MaxCount : n > passkey.count \/ (n = 0 /\ passkey.count = 0)}

\* Without its public key a passkey verifies nothing.
CheckPasskey(r, i, count) ==
  /\ requests[r].op = "login"
  /\ IsFound(account.passkeys, i) /\ account.passkeys[i].key
  /\ count \in Counts(account.passkeys[i])
  /\ Continue(r, [op |-> "count", of |-> requests[r].of, at |-> i, count |-> count,
                  copy |-> account])
  /\ UNCHANGED <<account, sessions, challenges, accepted>>

\* Faulty: what the authenticator counted is added to what is stored.
FaultyCounted(passkeys, i, count) ==
  [passkeys EXCEPT ![i] = [@ EXCEPT !.count = @ + count]]

Counted(passkeys, i, count) == [passkeys EXCEPT ![i] = [@ EXCEPT !.count = count]]

\* A count that has not changed is not sent; else the element is set by its place.
SaveCount(r) ==
  /\ requests[r].op = "count"
  /\ LET copy == requests[r].copy  i == requests[r].at  count == requests[r].count IN
       IF count = copy.passkeys[i].count
         THEN account' = Defaulted(copy)
         ELSE /\ Current(copy)
              /\ account' = [Defaulted(copy) EXCEPT !.passkeys = Counted(@, i, count)]
  /\ Continue(r, [op |-> "counted", of |-> requests[r].of])
  /\ UNCHANGED <<sessions, challenges, accepted>>

\* The registration is complete; a login still stores its refresh token.
DropChallenge(r) ==
  /\ requests[r].op \in {"registered", "counted"}
  /\ challenges' = challenges \ {requests[r].of}
  /\ \/ /\ requests[r].op = "registered"
        /\ accepted' = Append(accepted, [slot |-> r, of |-> requests[r].of, with |-> {}])
        /\ End(r)
     \/ /\ requests[r].op = "counted"
        /\ Continue(r, [op |-> "accept", of |-> requests[r].of, with |-> {}])
        /\ UNCHANGED accepted
  /\ UNCHANGED <<account, sessions>>

FindPasskey(r, i) ==
  /\ IsFound(account.passkeys, i)
  /\ Begin(r, [op |-> "delete", at |-> i, copy |-> account])
  /\ UNCHANGED <<account, sessions, challenges, accepted>>

\* The list was loaded without the public keys, which are not selected by
\* default, and is written back whole: those that remain lose theirs.
Remaining(passkeys, i) ==
  [j \in 1 .. Len(passkeys) - 1 |->
     [passkeys[IF j < i THEN j ELSE j + 1] EXCEPT !.key = FALSE]]

\* The flag stays as it is: user.totp is a nested path and never falsy.
DeletePasskey(r) ==
  /\ requests[r].op = "delete" /\ Current(requests[r].copy)
  /\ account' = [Defaulted(requests[r].copy) EXCEPT
                   !.passkeys = Remaining(requests[r].copy.passkeys, requests[r].at),
                   !.version = @ + 1]
  /\ End(r)
  /\ UNCHANGED <<sessions, challenges, accepted>>

-----------------------------------------------------------------------------
\* The version has moved on, the code is wrong, what is needed is gone, or the
\* database fails.
Abandon(r) ==
  /\ requests[r] # Idle
  /\ End(r)
  /\ UNCHANGED <<account, sessions, challenges, accepted>>

Expire ==
  \/ /\ \E session \in sessions : sessions' = sessions \ {session}
     /\ UNCHANGED <<account, challenges, requests, accepted, served>>
  \/ /\ \E challenge \in challenges : challenges' = challenges \ {challenge}
     /\ UNCHANGED <<account, sessions, requests, accepted, served>>

NewAccount ==
  [version |-> 0, flag |-> FALSE, secret |-> 0, verified |-> "no", codes |-> {}, passkeys |-> <<>>]

Init ==
  /\ account = NewAccount
  /\ sessions = {} /\ challenges = {} /\ accepted = <<>>
  /\ requests = [r \in Slots |-> Idle]
  /\ served = 0

Manage(r) ==
  \/ \E op \in Unversioned \cup Versioned : ReadAccount(r, op)
  \/ SaveSetup(r) \/ SaveVerified(r) \/ SaveCodes(r) \/ SaveDisabled(r) \/ SaveProfile(r)

LogIn(r) ==
  \/ AskSecondFactor(r) \/ OpenSession(r)
  \/ \E session \in sessions : FindSession(r, session)
  \/ MarkSession(r) \/ CheckTOTP(r)
  \/ \E code \in account.codes : CheckBackup(r, code)
  \/ SpendCode(r) \/ Accept(r)

UsePasskey(r) ==
  \/ \E challenge \in challenges, op \in {"registration", "login"} : FindChallenge(r, challenge, op)
  \/ ReadToRegister(r) \/ SavePasskey(r)
  \/ \E i \in DOMAIN account.passkeys, count \in 0 .. MaxCount : CheckPasskey(r, i, count)
  \/ SaveCount(r) \/ DropChallenge(r)
  \/ \E i \in DOMAIN account.passkeys : FindPasskey(r, i)
  \/ DeletePasskey(r)

Next ==
  \/ \E r \in Slots : Manage(r) \/ LogIn(r) \/ UsePasskey(r) \/ Abandon(r)
  \/ NewChallenge
  \/ Expire

Spec == Init /\ [][Next]_vars

-----------------------------------------------------------------------------
Request ==
  {Idle}
  \cup [op : Unversioned \cup Versioned, id : Nat, copy : Account]
  \cup [op : {"open"}, id : Nat]
  \cup [op : {"mark", "check", "registration", "login", "registered", "counted"},
        of : Nat]
  \cup [op : {"spend"}, of : Nat, code : BackupCode, copy : Account]
  \cup [op : {"accept"}, of : Nat, with : SUBSET BackupCode]
  \cup [op : {"register"}, of : Nat, copy : Account]
  \cup [op : {"count"}, of : Nat, at : Nat, count : 0 .. MaxCount, copy : Account]
  \cup [op : {"delete"}, at : Nat, copy : Account]

\* The account, what is handed out and what requests keep have their shape,
\* whatever the order of the saves: a passkey set or removed by its place in a
\* copy leaves a list of passkeys, and sign counts in range.
TwoFactorTypeOK ==
  /\ account \in Account
  /\ sessions \subseteq Session /\ challenges \subseteq Nat
  /\ requests \in [Slots -> Request]
  /\ accepted \in Seq([slot : Slots, of : Nat, with : SUBSET BackupCode])
  /\ served \in 0 .. MaxRequests

\* A backup code logs in once, however many requests present it at a time and
\* whatever else is saved in between; and a two-factor session or a passkey's
\* challenge that has logged in, or registered, is spent: only a request that
\* was served beside the first one can log in or register with it as well.
LoginsAreSpent ==
  \A i, j \in DOMAIN accepted : i # j =>
    /\ accepted[i].with \cap accepted[j].with = {}
    /\ accepted[i].of = accepted[j].of => accepted[i].slot # accepted[j].slot

\* A confirmed secret or a passkey with its public key.  Backup codes stand in
\* for a factor and are none.
HasFactor ==
  \/ account.secret # 0 /\ account.verified = "yes"
  \/ \E i \in DOMAIN account.passkeys : account.passkeys[i].key

\* The flag is off, although there is a factor that login should ask for.
Exposed == ~account.flag /\ HasFactor

\* The flag is on, and login asks for a factor that there is not.
Unbacked == account.flag /\ ~HasFactor

Forgotten == account.secret # 0 /\ account'.secret = account.secret
             /\ account.verified = "yes" /\ account'.verified # "yes"

\* Of a passkey that can still log in.
CountedBack ==
  \E i \in DOMAIN account.passkeys \cap DOMAIN account'.passkeys :
    /\ account'.passkeys[i].id = account.passkeys[i].id /\ account'.passkeys[i].key
    /\ account'.passkeys[i].count < account.passkeys[i].count

Outdated(request) ==
  /\ request.op \in Unversioned \cup Versioned \cup {"register", "count", "delete"}
  /\ request.copy # account

\* A new secret that is not confirmed yet; the deletion of a passkey, which takes
\* the public keys of all others; a secret disabled beside passkeys without one.
Unbacks(request) ==
  \/ request.op \in {"setup", "delete"}
  \/ request.op = "disable" /\ request.copy.passkeys # <<>>

\* The flag tells whether there is a factor, and only the save of a copy that is
\* no longer the account turns it off beside one, takes a verification back or
\* a sign count down.  The flag stays on without a factor, and the owner has
\* nothing but backup codes, only after such a save or one of the three that
\* Unbacks names; deleting any passkey is one, not only the last.
FactorsAreExplained ==
  [][ (Exposed' /\ ~Exposed) \/ (Unbacked' /\ ~Unbacked) \/ Forgotten \/ CountedBack
      => \E r \in Slots :
           /\ requests'[r] # requests[r]
           /\ Outdated(requests[r]) \/ (Unbacked' /\ Unbacks(requests[r])) ]_vars
=============================================================================
