-------------------------- MODULE AuthSessions_proofs --------------------------
(***************************************************************************)
(* Proofs about AuthSessions, for every number of users and requests, and  *)
(* about its links for every finite number of slots.                       *)
(***************************************************************************)
EXTENDS AuthSessions, FiniteSetTheorems, TLAPS

-----------------------------------------------------------------------------
(***************************************************************************)
(* Shapes, and that every request is about an account that exists.         *)
(***************************************************************************)
StoringOps == {"greet", "link", "rotate", "store"}

Owner(request) ==
  IF request.op \in StoringOps THEN request.token.user
  ELSE IF request.op \in {"mark", "verify", "account"} THEN request.link.user
  ELSE request.user

Owned == \A r \in Slots : requests[r] # Idle => accounts[Owner(requests[r])] # NoAccount

TypeInv == AuthTypeOK /\ Owned

LEMMA Parts ==
  ASSUME NEW request \in Request
  PROVE  /\ request.op \in StoringOps => request.token \in Token
         /\ request.op = "greet" => request \in [op : {"greet"}, token : Token, copy : Account]
         /\ request.op = "link" => request \in [op : {"link"}, token : Token]
         /\ request.op = "store" => request \in [op : {"store"}, token : Token, new : BOOLEAN]
         /\ request.op = "rotate" => request \in [op : {"rotate"}, old : Nat, token : Token]
         /\ request.op \in {"drop", "mail"} =>
              request \in [op : {"drop", "mail"}, id : Nat, user : Users, kind : Kinds]
         /\ request.op \in {"mark", "verify", "account"} =>
              request \in [op : {"mark", "verify", "account"}, link : Link]
         /\ request.op \in {"profile", "new password", "password"} =>
              request.user \in Users /\ request.copy \in Account
         /\ request.op = "revoke" => request.user \in Users /\ request.pass \in Nat
         /\ request # Idle => request.op # "idle" /\ Owner(request) \in Users
<1>1. CASE request = Idle
  BY <1>1 DEF Idle, StoringOps
<1>2. CASE request \in [op : {"greet"}, token : Token, copy : Account]
  BY <1>2 DEF Idle, StoringOps, Owner, Token
<1>3. CASE request \in [op : {"link"}, token : Token]
  BY <1>3 DEF Idle, StoringOps, Owner, Token
<1>4. CASE request \in [op : {"store"}, token : Token, new : BOOLEAN]
  BY <1>4 DEF Idle, StoringOps, Owner, Token
<1>5. CASE request \in [op : {"rotate"}, old : Nat, token : Token]
  BY <1>5 DEF Idle, StoringOps, Owner, Token
<1>6. CASE request \in [op : {"drop", "mail"}, id : Nat, user : Users, kind : Kinds]
  BY <1>6 DEF Idle, StoringOps, Owner
<1>7. CASE request \in [op : {"mark", "verify", "account"}, link : Link]
  BY <1>7 DEF Idle, StoringOps, Owner, Link
<1>8. CASE request \in [op : {"profile", "new password", "password"}, user : Users,
                        copy : Account]
  BY <1>8 DEF Idle, StoringOps, Owner
<1>9. CASE request \in [op : {"revoke"}, user : Users, pass : Nat]
  BY <1>9 DEF Idle, StoringOps, Owner
<1> QED BY <1>1, <1>2, <1>3, <1>4, <1>5, <1>6, <1>7, <1>8, <1>9 DEF Request

LEMMA StoringParts ==
  ASSUME TypeInv, NEW r \in Slots, requests[r].op \in StoringOps
  PROVE  /\ requests[r].token \in Token /\ requests[r].token.user \in Users
         /\ accounts[requests[r].token.user] # NoAccount
<1>1. requests[r] \in Request /\ requests[r] # Idle
  BY DEF TypeInv, AuthTypeOK, Idle, StoringOps
<1>2. requests[r].token \in Token
  BY <1>1, Parts
<1>3. accounts[Owner(requests[r])] # NoAccount
  BY <1>1 DEF TypeInv, Owned
<1> QED BY <1>2, <1>3 DEF Owner, Token

LEMMA TokenSwap ==
  ASSUME NEW request \in Request, request.op \in StoringOps, NEW token \in Token
  PROVE  /\ [request EXCEPT !.token = token] \in Request
         /\ [request EXCEPT !.token = token].op = request.op
         /\ [request EXCEPT !.token = token].token = token
         /\ Owner([request EXCEPT !.token = token]) = token.user
<1>1. CASE request \in [op : {"greet"}, token : Token, copy : Account]
  BY <1>1 DEF Request, Owner, StoringOps
<1>2. CASE request \in [op : {"link"}, token : Token]
  BY <1>2 DEF Request, Owner, StoringOps
<1>3. CASE request \in [op : {"store"}, token : Token, new : BOOLEAN]
  BY <1>3 DEF Request, Owner, StoringOps
<1>4. CASE request \in [op : {"rotate"}, old : Nat, token : Token]
  BY <1>4 DEF Request, Owner, StoringOps
<1> QED BY <1>1, <1>2, <1>3, <1>4, Parts DEF StoringOps

LEMMA Becomes ==
  ASSUME TypeInv, NEW r \in Slots, NEW request \in Request, Become(r, request)
  PROVE  /\ requests' \in [Slots -> Request] /\ requests'[r] = request
         /\ \A s \in Slots : s # r => requests'[s] = requests[s]
BY DEF Become, TypeInv, AuthTypeOK

LEMMA Counted ==
  ASSUME TypeInv, served < MaxRequests, served' = served + 1
  PROVE  served' \in 0 .. MaxRequests
<1>1. served \in 0 .. MaxRequests
  BY DEF TypeInv, AuthTypeOK
<1> QED BY <1>1, AuthAssumption

LEMMA NewTokenType ==
  ASSUME TypeInv, NEW u \in Users, NEW pass \in Nat
  PROVE  NewToken(u, pass) \in Token
BY AuthAssumption DEF TypeInv, AuthTypeOK, NewToken, Token

\* A step of r that stays within its account, and takes nothing away.
LEMMA OwnStep ==
  ASSUME TypeInv, NEW r \in Slots, NEW request \in Request, Become(r, request),
         served' \in 0 .. MaxRequests,
         accounts' \in [Users -> Account \cup {NoAccount}],
         \A u \in Users : accounts[u] # NoAccount => accounts'[u] # NoAccount,
         request # Idle => accounts'[Owner(request)] # NoAccount,
         tokens' \subseteq Token, links' \subseteq Link,
         \A token \in tokens' : token \in tokens \/ accounts'[token.user] # NoAccount,
         \A link \in links' : link \in links \/ accounts'[link.user] # NoAccount,
         revocations' \in [Users -> Nat], reset' \in [Users -> Nat]
  PROVE  TypeInv'
<1>1. /\ requests' \in [Slots -> Request] /\ requests'[r] = request
      /\ \A s \in Slots : s # r => requests'[s] = requests[s]
  BY Becomes
<1>2. Owned'
  <2> SUFFICES ASSUME NEW s \in Slots, requests'[s] # Idle
               PROVE  accounts'[Owner(requests'[s])] # NoAccount
    BY DEF Owned, Owner
  <2>1. CASE s = r
    BY <1>1, <2>1
  <2>2. CASE s # r
    <3>1. requests[s] \in Request /\ requests[s] # Idle
      BY <1>1, <2>2 DEF TypeInv, AuthTypeOK
    <3>2. Owner(requests[s]) \in Users
      BY <3>1, Parts
    <3>3. accounts[Owner(requests[s])] # NoAccount
      BY <3>1 DEF TypeInv, Owned
    <3> QED BY <1>1, <2>2, <3>2, <3>3
  <2> QED BY <2>1, <2>2
<1>3. \A token \in tokens' : accounts'[token.user] # NoAccount
  BY DEF TypeInv, AuthTypeOK, Token
<1>4. \A link \in links' : accounts'[link.user] # NoAccount
  BY DEF TypeInv, AuthTypeOK, Link
<1> QED BY <1>1, <1>2, <1>3, <1>4 DEF TypeInv, AuthTypeOK

LEMMA SavedType ==
  ASSUME NEW account \in Account, NEW copy
  PROVE  Saved(account, copy) \in Account /\ Saved(account, copy).password = account.password
BY DEF Saved, Account

LEMMA RevokeType ==
  ASSUME TypeInv, NEW u \in Users, NEW next \in [Slots -> Request], RevokeAll(u, next),
         accounts' = accounts,
         \A s \in Slots : next[s] = requests[s] \/ (next[s] = Idle /\ s \notin Storing)
  PROVE  requests' \in [Slots -> Request] /\ Owned' /\ revocations' \in [Users -> Nat]
<1>1. ASSUME NEW s \in Slots
      PROVE  requests'[s] \in Request /\ (requests'[s] # Idle =>
               Owner(requests'[s]) \in Users /\ accounts[Owner(requests'[s])] # NoAccount)
  <2> DEFINE t == [requests[s].token EXCEPT !.late = TRUE]
  <2>1. requests'[s] = IF s \in Storing /\ requests[s].token.user = u
                         THEN [requests[s] EXCEPT !.token = t] ELSE next[s]
    BY DEF RevokeAll
  <2>2. CASE s \in Storing /\ requests[s].token.user = u
    <3>1. requests[s] \in Request /\ requests[s].op \in StoringOps
      BY <2>2 DEF Storing, StoringOps, TypeInv, AuthTypeOK
    <3>2. /\ requests[s].token \in Token /\ requests[s].token.user \in Users
          /\ accounts[requests[s].token.user] # NoAccount
      BY <3>1, StoringParts
    <3>3. t \in Token /\ t.user = requests[s].token.user
      BY <3>2 DEF Token
    <3> HIDE DEF t
    <3>4. requests'[s] \in Request /\ Owner(requests'[s]) = t.user
      BY <2>1, <2>2, <3>1, <3>3, TokenSwap
    <3> QED BY <3>2, <3>3, <3>4
  <2>3. CASE ~(s \in Storing /\ requests[s].token.user = u)
    BY <2>1, <2>3, Parts DEF TypeInv, AuthTypeOK, Owned, Request
  <2> QED BY <2>2, <2>3
<1>2. requests' \in [Slots -> Request]
  <2>1. requests' = [s \in Slots |-> requests'[s]]
    BY DEF RevokeAll
  <2> QED BY <1>1, <2>1
<1>3. Owned'
  BY <1>1 DEF Owned, Owner
<1>4. revocations' \in [Users -> Nat]
  <2>1. revocations \in [Users -> Nat] /\ revocations' = [revocations EXCEPT ![u] = @ + 1]
    BY DEF RevokeAll, TypeInv, AuthTypeOK
  <2> QED BY <2>1
<1> QED BY <1>2, <1>3, <1>4

LEMMA EnterType ==
  ASSUME TypeInv, NEW r \in Slots, Enter(r)
  PROVE  TypeInv'
<1> USE DEF TypeInv
<1>0. Idle \in Request /\ NoAccount \notin Account
  BY AuthAssumption DEF Request
<1>1. ASSUME NEW u \in Users, Register(r, u)
      PROVE  TypeInv'
  <2> DEFINE token == NewToken(u, 0)
             request == [op |-> "store", token |-> token, new |-> TRUE]
             account == [password |-> 0, verified |-> "no", grace |-> TRUE]
  <2>1. token \in Token /\ token.user = u
    BY NewTokenType DEF NewToken
  <2>2. request \in Request /\ Owner(request) = u
    BY <2>1 DEF Request, Owner, StoringOps
  <2>3. account \in Account
    BY DEF Account
  <2> HIDE DEF token, account
  <2>4. accounts' = [accounts EXCEPT ![u] = account]
    BY <1>1 DEF Register, account
  <2>5. Become(r, request) /\ served' \in 0 .. MaxRequests
    BY <1>1, AuthAssumption DEF Register, Begin, Arrive, AuthTypeOK, token
  <2> HIDE DEF request
  <2>6. /\ accounts' \in [Users -> Account \cup {NoAccount}] /\ accounts'[u] # NoAccount
        /\ \A v \in Users : accounts[v] # NoAccount => accounts'[v] # NoAccount
    BY <1>0, <2>3, <2>4 DEF AuthTypeOK
  <2> QED BY <1>1, <2>2, <2>5, <2>6, OwnStep DEF Register, Revoked, AuthTypeOK
<1>2. ASSUME NEW u \in Users, Login(r, u)
      PROVE  TypeInv'
  <2> DEFINE copy == accounts[u]
             token == NewToken(u, copy.password)
             request == IF copy.verified = "yes" \/ copy.grace
                  THEN [op |-> "store", token |-> token, new |-> FALSE]
                  ELSE [op |-> "greet", token |-> token, copy |-> copy]
  <2>1. copy \in Account /\ copy.password \in Nat
    BY <1>2 DEF Login, AuthTypeOK, Account
  <2>2. token \in Token /\ token.user = u
    BY <2>1, NewTokenType DEF NewToken
  <2>3. request \in Request /\ Owner(request) = u
    <3> HIDE DEF copy, token
    <3> QED BY <2>1, <2>2 DEF Request, Owner, StoringOps
  <2>4. Become(r, request) /\ served' \in 0 .. MaxRequests
    BY <1>2, AuthAssumption DEF Login, Begin, Arrive, AuthTypeOK
  <2> HIDE DEF request
  <2> QED BY <1>2, <2>3, <2>4, OwnStep DEF Login, Revoked, AuthTypeOK
<1>3. CASE Greet(r)
  <2> DEFINE token == requests[r].token
             request == [op |-> "link", token |-> token]
             account == [Saved(accounts[token.user], requests[r].copy) EXCEPT !.grace = TRUE]
  <2>1. token \in Token /\ token.user \in Users /\ accounts[token.user] # NoAccount
    BY <1>3, StoringParts DEF Greet, StoringOps
  <2>2. account \in Account
    <3>1. accounts[token.user] \in Account
      BY <2>1 DEF AuthTypeOK
    <3>2. Saved(accounts[token.user], requests[r].copy) \in Account
      BY <3>1, SavedType
    <3> QED BY <3>2 DEF Account
  <2>3. request \in Request /\ Owner(request) = token.user
    BY <2>1 DEF Request, Owner, StoringOps
  <2>4. Become(r, request) /\ served' = served
        /\ accounts' = [accounts EXCEPT ![token.user] = account]
    BY <1>3 DEF Greet, Continue
  <2> HIDE DEF request, token, account
  <2>5. /\ accounts' \in [Users -> Account \cup {NoAccount}]
        /\ accounts'[token.user] # NoAccount
        /\ \A v \in Users : accounts[v] # NoAccount => accounts'[v] # NoAccount
    BY <1>0, <2>1, <2>2, <2>4 DEF AuthTypeOK
  <2> QED BY <1>3, <2>3, <2>4, <2>5, OwnStep DEF Greet, Revoked, AuthTypeOK
<1>4. CASE GreetingLink(r)
  <2> DEFINE token == requests[r].token
             request == [op |-> "store", token |-> token, new |-> FALSE]
             link == NewLink(token.id, token.user, "verify")
  <2>1. token \in Token /\ token.user \in Users /\ accounts[token.user] # NoAccount
    BY <1>4, StoringParts DEF GreetingLink, StoringOps
  <2>2. link \in Link /\ link.user = token.user
    BY <2>1 DEF NewLink, Link, Token, Kinds
  <2>3. request \in Request /\ Owner(request) = token.user
    BY <2>1 DEF Request, Owner, StoringOps
  <2>4. Become(r, request) /\ served' = served /\ links' \subseteq links \cup {link}
    BY <1>4 DEF GreetingLink, Continue
  <2> HIDE DEF request, token, link
  <2> QED BY <1>4, <2>1, <2>2, <2>3, <2>4, OwnStep DEF GreetingLink, Revoked, AuthTypeOK
<1>5. CASE StoreToken(r)
  <2> DEFINE token == requests[r].token
             request == IF requests[r].new
               THEN [op |-> "mail", id |-> token.id, user |-> token.user, kind |-> "verify"]
               ELSE Idle
  <2>1. token \in Token /\ token.user \in Users /\ accounts[token.user] # NoAccount
    BY <1>5, StoringParts DEF StoreToken, StoringOps
  <2>2. request \in Request /\ (request # Idle => Owner(request) = token.user)
    <3> HIDE DEF token
    <3> QED BY <1>0, <2>1 DEF Request, Owner, StoringOps, Token, Kinds
  <2>3. Become(r, request) /\ served' = served /\ tokens' = tokens \cup {token}
    BY <1>5 DEF StoreToken, Continue
  <2> HIDE DEF request, token
  <2> QED BY <1>5, <2>1, <2>2, <2>3, OwnStep DEF StoreToken, Revoked, AuthTypeOK
<1>6. ASSUME NEW token \in tokens, Refresh(r, token)
      PROVE  TypeInv'
  <2> DEFINE others == Holding(token)
             forked == token.forked \/ others # {}
             new == [token EXCEPT !.id = served, !.forked = forked]
             request == [op |-> "rotate", old |-> token.id, token |-> new]
  <2>1. token \in Token /\ token.user \in Users /\ accounts[token.user] # NoAccount
        /\ served \in Nat
    BY AuthAssumption DEF AuthTypeOK, Token
  <2>2. new \in Token /\ new.user = token.user
    <3> HIDE DEF others
    <3> QED BY <2>1 DEF Token
  <2>3. request \in Request /\ Owner(request) = token.user
    BY <2>1, <2>2 DEF Request, Owner, StoringOps, Token
  <2> HIDE DEF new, request
  <2>4. ASSUME NEW s \in Slots
        PROVE  requests'[s] \in Request /\ (requests'[s] # Idle =>
                 Owner(requests'[s]) \in Users /\ accounts[Owner(requests'[s])] # NoAccount)
    <3>1. requests'[s] = IF s = r THEN request
            ELSE IF s \in others THEN [requests[s] EXCEPT !.token = [@ EXCEPT !.forked = TRUE]]
            ELSE requests[s]
      BY <1>6 DEF Refresh, request, new
    <3>2. CASE s = r
      BY <2>1, <2>3, <3>1, <3>2
    <3>3. CASE s # r /\ s \in others
      <4> DEFINE t == [requests[s].token EXCEPT !.forked = TRUE]
      <4>1. requests[s] \in Request /\ requests[s].op = "rotate" /\ "rotate" \in StoringOps
        BY <3>3 DEF Holding, AuthTypeOK, StoringOps
      <4>2. /\ requests[s].token \in Token /\ requests[s].token.user \in Users
            /\ accounts[requests[s].token.user] # NoAccount
        BY <4>1, StoringParts
      <4>3. t \in Token /\ t.user = requests[s].token.user
        BY <4>2 DEF Token
      <4>4. requests'[s] = [requests[s] EXCEPT !.token = t]
        BY <3>1, <3>3
      <4> HIDE DEF t
      <4>5. requests'[s] \in Request /\ Owner(requests'[s]) = t.user
        BY <4>1, <4>3, <4>4, TokenSwap
      <4> QED BY <4>2, <4>3, <4>5
    <3>4. CASE s # r /\ s \notin others
      BY <3>1, <3>4, Parts DEF AuthTypeOK, Owned
    <3> QED BY <3>2, <3>3, <3>4
  <2>5. requests' \in [Slots -> Request]
    <3>1. DOMAIN requests' = Slots /\ requests' = [s \in Slots |-> requests'[s]]
      BY <1>6 DEF Refresh
    <3> QED BY <2>4, <3>1
  <2>6. served' \in 0 .. MaxRequests
    BY <1>6, Counted DEF Refresh, Arrive
  <2>7. Owned'
    BY <1>6, <2>4 DEF Owned, Refresh, Owner
  <2> QED BY <1>6, <2>5, <2>6, <2>7 DEF Refresh, Revoked, AuthTypeOK
<1>7. CASE Rotate(r)
  <2> DEFINE token == requests[r].token
             request == [op |-> "store", token |-> token, new |-> FALSE]
  <2>1. token \in Token /\ token.user \in Users /\ accounts[token.user] # NoAccount
    BY <1>7, StoringParts DEF Rotate, StoringOps
  <2>2. request \in Request /\ Owner(request) = token.user
    BY <2>1 DEF Request, Owner, StoringOps
  <2>3. Become(r, request) /\ served' = served /\ tokens' \subseteq tokens
    BY <1>7 DEF Rotate, Continue
  <2> HIDE DEF request, token
  <2> QED BY <1>7, <2>1, <2>2, <2>3, OwnStep DEF Rotate, Revoked, AuthTypeOK
<1> QED BY <1>1, <1>2, <1>3, <1>4, <1>5, <1>6, <1>7 DEF Enter

LEMMA KindParts ==
  ASSUME TypeInv, NEW r \in Slots, requests[r].op \in {"drop", "mail"}
  PROVE  /\ requests[r].user \in Users /\ requests[r].id \in Nat /\ requests[r].kind \in Kinds
         /\ accounts[requests[r].user] # NoAccount
<1>1. requests[r] \in [op : {"drop", "mail"}, id : Nat, user : Users, kind : Kinds]
  BY Parts DEF TypeInv, AuthTypeOK
<1>2. accounts[Owner(requests[r])] # NoAccount
  BY <1>1 DEF TypeInv, Owned, Idle
<1> QED BY <1>1, <1>2 DEF Owner, StoringOps

LEMMA LinkParts ==
  ASSUME TypeInv, NEW r \in Slots, requests[r].op \in {"mark", "verify", "account"}
  PROVE  /\ requests[r] \in [op : {"mark", "verify", "account"}, link : Link]
         /\ requests[r].link \in Link /\ requests[r].link.user \in Users
         /\ accounts[requests[r].link.user] # NoAccount
<1>1. requests[r] \in [op : {"mark", "verify", "account"}, link : Link]
  BY Parts DEF TypeInv, AuthTypeOK
<1>2. accounts[Owner(requests[r])] # NoAccount
  BY <1>1 DEF TypeInv, Owned, Idle
<1> QED BY <1>1, <1>2 DEF Owner, StoringOps, Link

LEMMA UserParts ==
  ASSUME TypeInv, NEW r \in Slots,
         requests[r].op \in {"profile", "new password", "password", "revoke"}
  PROVE  requests[r].user \in Users /\ accounts[requests[r].user] # NoAccount
<1>1. requests[r] \in Request
  BY DEF TypeInv, AuthTypeOK
<1>2. requests[r] # Idle
  <2>1. Idle.op = "idle"
    BY DEF Idle
  <2> QED BY <2>1
<1>3. accounts[Owner(requests[r])] # NoAccount
  BY <1>2 DEF TypeInv, Owned
<1> QED BY <1>1, <1>3, Parts DEF Owner, StoringOps

LEMMA RecoverType ==
  ASSUME TypeInv, NEW r \in Slots, Recover(r)
  PROVE  TypeInv'
<1> USE DEF TypeInv
<1>0. Idle \in Request /\ NoAccount \notin Account
  BY AuthAssumption DEF Request
<1>1. ASSUME NEW u \in Users, NEW kind \in Kinds, Ask(r, u, kind)
      PROVE  TypeInv'
  <2> DEFINE request == [op |-> "drop", id |-> served, user |-> u, kind |-> kind]
  <2>1. request \in Request /\ Owner(request) = u
    <3>1. served \in Nat
      BY AuthAssumption DEF AuthTypeOK
    <3> QED BY <3>1 DEF Request, Owner, StoringOps
  <2>2. Become(r, request) /\ served' \in 0 .. MaxRequests
    BY <1>1, Counted DEF Ask, Begin, Arrive
  <2> HIDE DEF request
  <2> QED BY <1>1, <2>1, <2>2, OwnStep DEF Ask, Revoked, AuthTypeOK
<1>2. CASE DropLinks(r)
  <2> DEFINE request == [requests[r] EXCEPT !.op = "mail"]
  <2>1. /\ requests[r] \in [op : {"drop", "mail"}, id : Nat, user : Users, kind : Kinds]
        /\ requests[r].user \in Users /\ accounts[requests[r].user] # NoAccount
    BY <1>2, KindParts, Parts DEF DropLinks, AuthTypeOK
  <2>2. request \in Request /\ Owner(request) = requests[r].user
    BY <2>1 DEF Request, Owner, StoringOps
  <2>3. Become(r, request) /\ served' = served /\ links' \subseteq links
    BY <1>2 DEF DropLinks, Proceed, Continue
  <2> HIDE DEF request
  <2> QED BY <1>2, <2>1, <2>2, <2>3, OwnStep DEF DropLinks, Revoked, AuthTypeOK
<1>3. CASE MailLink(r)
  <2> DEFINE link == NewLink(requests[r].id, requests[r].user, requests[r].kind)
  <2>1. link \in Link /\ accounts[link.user] # NoAccount
    BY <1>3, KindParts DEF MailLink, NewLink, Link
  <2>2. Become(r, Idle) /\ served' = served /\ links' = links \cup {link}
    BY <1>3 DEF MailLink, End, Continue
  <2> HIDE DEF link
  <2> QED BY <1>0, <1>3, <2>1, <2>2, OwnStep DEF MailLink, Revoked, AuthTypeOK
<1>4. ASSUME NEW link \in links, UseLink(r, link)
      PROVE  TypeInv'
  <2> DEFINE request == [op |-> "mark", link |-> link]
  <2>1. link \in Link /\ accounts[link.user] # NoAccount
    BY DEF AuthTypeOK
  <2>2. request \in Request /\ Owner(request) = link.user
    BY <2>1 DEF Request, Owner, StoringOps
  <2>3. Become(r, request) /\ served' \in 0 .. MaxRequests
    BY <1>4, Counted DEF UseLink, Begin, Arrive
  <2> HIDE DEF request
  <2> QED BY <1>4, <2>1, <2>2, <2>3, OwnStep DEF UseLink, Revoked, AuthTypeOK
<1>5. CASE MarkLink(r)
  <2> DEFINE op == IF requests[r].link.kind = "verify" THEN "verify" ELSE "account"
             request == [requests[r] EXCEPT !.op = op]
  <2>1. /\ requests[r] \in [op : {"mark", "verify", "account"}, link : Link]
        /\ accounts[requests[r].link.user] # NoAccount
    BY <1>5, LinkParts DEF MarkLink
  <2>2. op \in {"verify", "account"}
    OBVIOUS
  <2>3. request \in Request /\ Owner(request) = requests[r].link.user
    <3> HIDE DEF op
    <3> QED BY <2>1, <2>2 DEF Request, Owner, StoringOps
  <2>4. PICK link \in links : links' = (links \ {link}) \cup {[link EXCEPT !.used = @ + 1]}
    BY <1>5 DEF MarkLink
  <2> DEFINE marked == [link EXCEPT !.used = @ + 1]
  <2>5. marked \in Link /\ marked.user = link.user /\ accounts[link.user] # NoAccount
    BY DEF Link, AuthTypeOK
  <2>6. Become(r, request) /\ served' = served
    BY <1>5 DEF MarkLink, Proceed, Continue
  <2>7. links' \subseteq links \cup {marked}
    BY <2>4
  <2> HIDE DEF request, marked
  <2> QED BY <1>5, <2>1, <2>3, <2>5, <2>6, <2>7, OwnStep DEF MarkLink, Revoked, AuthTypeOK
<1>6. CASE Verify(r)
  <2> DEFINE u == requests[r].link.user
             account == [accounts[u] EXCEPT !.verified = "yes"]
  <2>1. u \in Users /\ accounts[u] \in Account
    BY <1>6, LinkParts DEF Verify, AuthTypeOK
  <2>2. account \in Account
    BY <2>1 DEF Account
  <2>3. accounts' = [accounts EXCEPT ![u] = account]
    BY <1>6 DEF Verify
  <2>4. Become(r, Idle) /\ served' = served
    BY <1>6 DEF Verify, End, Continue
  <2> HIDE DEF u, account
  <2>5. /\ accounts' \in [Users -> Account \cup {NoAccount}]
        /\ \A v \in Users : accounts[v] # NoAccount => accounts'[v] # NoAccount
    BY <1>0, <2>1, <2>2, <2>3 DEF AuthTypeOK
  <2> QED BY <1>0, <1>6, <2>4, <2>5, OwnStep DEF Verify, Revoked, AuthTypeOK
<1>7. CASE ReadAccount(r)
  <2> DEFINE u == requests[r].link.user
             request == [op |-> "password", user |-> u, copy |-> accounts[u]]
  <2>1. u \in Users /\ accounts[u] # NoAccount /\ accounts[u] \in Account
    BY <1>7, LinkParts DEF ReadAccount, AuthTypeOK
  <2>2. request \in Request /\ Owner(request) = u
    BY <2>1 DEF Request, Owner, StoringOps
  <2>3. Become(r, request) /\ served' = served
    BY <1>7 DEF ReadAccount, Continue
  <2> HIDE DEF u, request
  <2> QED BY <1>7, <2>1, <2>2, <2>3, OwnStep DEF ReadAccount, Revoked, AuthTypeOK
<1>8. ASSUME NEW u \in Users, NEW op \in {"profile", "new password"}, EditAccount(r, u, op)
      PROVE  TypeInv'
  <2> DEFINE request == [op |-> op, user |-> u, copy |-> accounts[u]]
  <2>1. accounts[u] # NoAccount /\ accounts[u] \in Account
    BY <1>8 DEF EditAccount, AuthTypeOK
  <2>2. request \in Request /\ Owner(request) = u
    BY <2>1 DEF Request, Owner, StoringOps
  <2>3. Become(r, request) /\ served' \in 0 .. MaxRequests
    BY <1>8, Counted DEF EditAccount, Begin, Arrive
  <2> HIDE DEF request
  <2> QED BY <1>8, <2>1, <2>2, <2>3, OwnStep DEF EditAccount, Revoked, AuthTypeOK
<1>9. CASE SaveAccount(r)
  <2> DEFINE u == requests[r].user
             account == Saved(accounts[u], requests[r].copy)
             new == [account EXCEPT !.password = @ + 1]
             next == [op |-> "revoke", user |-> u, pass |-> new.password]
  <2>1. u \in Users /\ accounts[u] # NoAccount /\ accounts[u] \in Account
    BY <1>9, UserParts DEF SaveAccount, AuthTypeOK
  <2>2. account \in Account
    BY <2>1, SavedType
  <2>3. new \in Account /\ new.password \in Nat
    <3> HIDE DEF account
    <3> QED BY <2>2 DEF Account
  <2>4. /\ \/ accounts' = [accounts EXCEPT ![u] = account] /\ Become(r, Idle)
           \/ accounts' = [accounts EXCEPT ![u] = new] /\ Become(r, Idle)
           \/ accounts' = [accounts EXCEPT ![u] = new] /\ Become(r, next)
        /\ served' = served
    BY <1>9 DEF SaveAccount, End, Continue
  <2> HIDE DEF account, new
  <2>5. next \in Request /\ Owner(next) = u
    BY <2>1, <2>3 DEF Request, Owner, StoringOps
  <2> HIDE DEF u, next
  <2>6. /\ accounts' \in [Users -> Account \cup {NoAccount}] /\ accounts'[u] # NoAccount
        /\ \A v \in Users : accounts[v] # NoAccount => accounts'[v] # NoAccount
    BY <1>0, <2>1, <2>2, <2>3, <2>4 DEF AuthTypeOK
  <2>7. Become(r, Idle) \/ Become(r, next)
    BY <2>4
  <2> QED BY <1>0, <1>9, <2>4, <2>5, <2>6, <2>7, OwnStep DEF SaveAccount, Revoked, AuthTypeOK
<1>10. CASE EndSessions(r)
  <2>1. PICK u \in Users : /\ accounts[u] # NoAccount /\ RevokeAll(u, [requests EXCEPT ![r] = Idle])
                           /\ reset' \in [Users -> Nat]
    <3> DEFINE u == requests[r].user  pass == requests[r].pass
    <3>1. u \in Users /\ accounts[u] # NoAccount /\ pass \in Nat
      BY <1>10, UserParts, Parts DEF EndSessions, AuthTypeOK
    <3>2. /\ RevokeAll(u, [requests EXCEPT ![r] = Idle])
          /\ reset' = [reset EXCEPT ![u] = IF pass > @ THEN pass ELSE @]
      BY <1>10 DEF EndSessions
    <3> QED BY <3>1, <3>2 DEF AuthTypeOK
  <2>2. requests' \in [Slots -> Request] /\ Owned' /\ revocations' \in [Users -> Nat]
    <3> DEFINE next == [requests EXCEPT ![r] = Idle]
    <3>1. next \in [Slots -> Request]
      BY <1>0 DEF AuthTypeOK
    <3>2. r \notin Storing
      BY <1>10 DEF EndSessions, Storing
    <3>3. \A s \in Slots : next[s] = requests[s] \/ (next[s] = Idle /\ s \notin Storing)
      BY <3>2 DEF AuthTypeOK
    <3>4. RevokeAll(u, next) /\ accounts' = accounts
      BY <1>10, <2>1 DEF EndSessions
    <3> HIDE DEF next
    <3> QED BY <3>1, <3>3, <3>4, RevokeType
  <2> QED BY <1>10, <2>1, <2>2 DEF EndSessions, RevokeAll, AuthTypeOK
<1> QED BY <1>1, <1>2, <1>3, <1>4, <1>5, <1>6, <1>7, <1>8, <1>9, <1>10 DEF Recover

LEMMA NextType == TypeInv /\ [Next]_vars => TypeInv'
<1> SUFFICES ASSUME TypeInv, [Next]_vars PROVE TypeInv'
  OBVIOUS
<1>1. ASSUME NEW r \in Slots, Abandon(r)
      PROVE  TypeInv'
  <2>1. Idle \in Request /\ Become(r, Idle) /\ served' = served
    BY <1>1 DEF Request, Abandon, End, Continue
  <2> QED BY <1>1, <2>1, OwnStep DEF Abandon, Revoked, TypeInv, AuthTypeOK
<1>2. ASSUME NEW u \in Users, LogoutAll(u)
      PROVE  TypeInv'
  <2>1. requests' \in [Slots -> Request] /\ Owned' /\ revocations' \in [Users -> Nat]
    BY <1>2, RevokeType DEF LogoutAll, TypeInv, AuthTypeOK, Owned
  <2>2. served' \in 0 .. MaxRequests
    BY <1>2, AuthAssumption DEF LogoutAll, TypeInv, AuthTypeOK
  <2> QED BY <1>2, <2>1, <2>2 DEF LogoutAll, RevokeAll, TypeInv, AuthTypeOK
<1>3. ASSUME NEW token \in tokens, Logout(token)
      PROVE  TypeInv'
  BY <1>3 DEF Logout, Revoked, TypeInv, AuthTypeOK, Owned, Owner
<1>4. ASSUME NEW link \in links, ExpireLink(link)
      PROVE  TypeInv'
  BY <1>4 DEF ExpireLink, Revoked, TypeInv, AuthTypeOK, Owned, Owner
<1>5. CASE UNCHANGED vars
  BY <1>5 DEF vars, TypeInv, AuthTypeOK, Owned, Owner
<1> QED BY <1>1, <1>2, <1>3, <1>4, <1>5, EnterType, RecoverType DEF Next


LEMMA InitType == Init => TypeInv
<1> SUFFICES ASSUME Init PROVE TypeInv
  OBVIOUS
<1>1. LegacyAccount \in Account
  BY DEF LegacyAccount, Account
<1>2. accounts \in [Users -> Account \cup {NoAccount}]
  BY <1>1 DEF Init
<1>3. requests \in [Slots -> Request] /\ \A r \in Slots : requests[r] = Idle
  BY DEF Init, Request
<1>4. served \in 0 .. MaxRequests
  BY AuthAssumption DEF Init
<1> QED BY <1>2, <1>3, <1>4 DEF Init, TypeInv, AuthTypeOK, Owned

LEMMA TypeHolds == Spec => []TypeInv
<1> QED BY InitType, NextType, PTL DEF Spec

\* Everything keeps its shape, and what is stored belongs to an account: the
\* handlers of the two controllers leave no orphans, as accounts are not deleted.
THEOREM AuthTypeCorrect == Spec => []AuthTypeOK
<1>1. TypeInv => AuthTypeOK
  BY DEF TypeInv
<1> QED BY <1>1, TypeHolds, PTL

-----------------------------------------------------------------------------
(***************************************************************************)
(* Sessions: a token that saw every deletion is of the newest birth and    *)
(* password; passwords only grow; and of two tokens that come from one     *)
(* login, stored or about to be, both forked unless one replaces the other.*)
(***************************************************************************)
Sound(token) ==
  ~token.late => token.birth = revocations[token.user] /\ token.pass >= reset[token.user]

Pass(u) == IF accounts[u] = NoAccount THEN 0 ELSE accounts[u].password

SoundInv ==
  /\ \A token \in tokens : Sound(token) /\ token.root < served
  /\ \A r \in Storing : Sound(requests[r].token) /\ requests[r].token.root < served
  /\ \A u \in Users : reset[u] <= Pass(u)
  /\ \A r \in Slots : requests[r].op = "revoke" => requests[r].pass <= Pass(requests[r].user)

Forked(one, other) == one.root = other.root => one.forked /\ other.forked

ForkInv ==
  /\ \A one, other \in tokens : one # other => Forked(one, other)
  /\ \A r \in Storing, token \in tokens :
       \/ Forked(requests[r].token, token)
       \/ requests[r].op = "rotate" /\ requests[r].old = token.id
  /\ \A r, s \in Storing : r # s => Forked(requests[r].token, requests[s].token)

SessionInv == TypeInv /\ SoundInv /\ ForkInv


LEMMA PassNat == ASSUME TypeInv, NEW u \in Users PROVE Pass(u) \in Nat
BY DEF TypeInv, AuthTypeOK, Pass, Account

\* An account that is saved keeps its password or gets a newer one.
LEMMA PassGrows ==
  ASSUME TypeInv, NEW u \in Users, NEW account \in Account,
         accounts' = [accounts EXCEPT ![u] = account], Pass(u) <= account.password
  PROVE  \A v \in Users : Pass(v) <= Pass(v)'
<1> SUFFICES ASSUME NEW v \in Users PROVE Pass(v) <= Pass(v)'
  OBVIOUS
<1>1. CASE v = u
  BY <1>1, AuthAssumption DEF Pass, TypeInv, AuthTypeOK
<1>2. CASE v # u
  <2>1. accounts'[v] = accounts[v]
    BY <1>2 DEF TypeInv, AuthTypeOK
  <2>2. Pass(v)' = Pass(v)
    BY <2>1 DEF Pass
  <2> QED BY <2>2, PassNat
<1> QED BY <1>1, <1>2

LEMMA PassSame ==
  ASSUME TypeInv, accounts' = accounts
  PROVE  \A v \in Users : Pass(v) <= Pass(v)'
<1> SUFFICES ASSUME NEW v \in Users PROVE Pass(v) <= Pass(v)'
  OBVIOUS
<1>1. Pass(v)' = Pass(v)
  BY DEF Pass
<1> QED BY <1>1, PassNat

\* A step that deletes no session of a user keeps all of them sound.
LEMMA SoundKept ==
  ASSUME TypeInv, TypeInv', SoundInv, Revoked,
         served' = served \/ served' = served + 1,
         \A token \in tokens' : token \in tokens \/ (Sound(token) /\ token.root < served),
         \A s \in Storing' : Sound(requests'[s].token) /\ requests'[s].token.root < served',
         \A s \in Slots : requests'[s].op = "revoke" =>
           \/ requests'[s] = requests[s]
           \/ requests'[s].pass <= Pass(requests[s].user)',
         \A u \in Users : Pass(u) <= Pass(u)'
  PROVE  SoundInv'
<1>1. served \in Nat /\ served' \in Nat /\ served <= served'
  BY AuthAssumption DEF TypeInv, AuthTypeOK
<1>2. \A token : Sound(token)' <=> Sound(token)
  BY DEF Sound, Revoked
<1>3. \A token \in tokens' : Sound(token)' /\ token.root < served'
  <2> SUFFICES ASSUME NEW token \in tokens' PROVE Sound(token)' /\ token.root < served'
    OBVIOUS
  <2>1. Sound(token) /\ token.root < served
    BY DEF SoundInv
  <2>2. token.root \in Nat
    BY DEF TypeInv, AuthTypeOK, Token
  <2> QED BY <1>1, <1>2, <2>1, <2>2
<1>4. \A s \in Storing' : Sound(requests[s].token)' /\ requests'[s].token.root < served'
  <2> SUFFICES ASSUME NEW s \in Storing'
               PROVE  Sound(requests[s].token)' /\ requests'[s].token.root < served'
    OBVIOUS
  <2>1. Sound(requests'[s].token) /\ requests'[s].token.root < served'
    OBVIOUS
  <2>2. Sound(requests[s].token)'
    BY <2>1 DEF Sound, Revoked
  <2> QED BY <2>1, <2>2
<1>5. \A u \in Users : reset'[u] <= Pass(u)'
  <2> SUFFICES ASSUME NEW u \in Users PROVE reset'[u] <= Pass(u)'
    OBVIOUS
  <2>1. reset'[u] = reset[u] /\ reset[u] \in Nat /\ reset[u] <= Pass(u)
    BY DEF Revoked, SoundInv, TypeInv, AuthTypeOK
  <2>2. Pass(u) \in Nat /\ Pass(u)' \in Nat /\ Pass(u) <= Pass(u)'
    <3>1. Pass(u)' \in Nat
      BY DEF TypeInv, AuthTypeOK, Pass, Account
    <3> QED BY <3>1, PassNat
  <2> QED BY <2>1, <2>2
<1>6. ASSUME NEW s \in Slots, requests'[s].op = "revoke"
      PROVE  requests'[s].pass <= Pass(requests[s].user)'
  <2>1. CASE requests'[s].pass <= Pass(requests[s].user)'
    BY <2>1
  <2>2. CASE requests'[s] = requests[s]
    <3>1. requests[s] \in Request /\ requests[s].op = "revoke"
      BY <1>6, <2>2 DEF TypeInv, AuthTypeOK
    <3>2. requests[s].user \in Users /\ requests[s].pass \in Nat
      BY <3>1, Parts
    <3>3. PICK v \in Users : v = requests[s].user
      BY <3>2
    <3>4. requests[s].pass <= Pass(v)
      BY <3>1, <3>3 DEF SoundInv
    <3>5. Pass(v) \in Nat /\ Pass(v)' \in Nat /\ Pass(v) <= Pass(v)'
      <4>1. Pass(v)' \in Nat
        BY DEF TypeInv, AuthTypeOK, Pass, Account
      <4> QED BY <4>1, PassNat
    <3>6. requests[s].pass <= Pass(v)'
      BY <3>2, <3>4, <3>5
    <3> QED BY <2>2, <3>3, <3>6 DEF Pass
  <2> QED BY <1>6, <2>1, <2>2
<1> QED BY <1>3, <1>4, <1>5, <1>6 DEF SoundInv


\* A step of one request that leaves the deletions alone keeps sessions sound.
LEMMA SoundStep ==
  ASSUME TypeInv, TypeInv', SoundInv, Revoked, NEW r \in Slots, NEW request \in Request,
         Become(r, request), served' = served \/ served' = served + 1,
         \A token \in tokens' : token \in tokens \/ (Sound(token) /\ token.root < served),
         request.op \in StoringOps => Sound(request.token) /\ request.token.root < served',
         request.op = "revoke" => \E v \in Users : v = request.user /\ request.pass <= Pass(v)',
         \A u \in Users : Pass(u) <= Pass(u)'
  PROVE  SoundInv'
<1>1. requests'[r] = request /\ \A s \in Slots : s # r => requests'[s] = requests[s]
  BY Becomes
<1>2. \A s \in Storing' : Sound(requests'[s].token) /\ requests'[s].token.root < served'
  <2> SUFFICES ASSUME NEW s \in Storing'
               PROVE  Sound(requests'[s].token) /\ requests'[s].token.root < served'
    OBVIOUS
  <2>1. s \in Slots /\ requests'[s].op \in StoringOps
    BY DEF Storing, StoringOps
  <2>2. CASE s = r
    BY <1>1, <2>1, <2>2
  <2>3. CASE s # r
    <3>1. requests'[s] = requests[s] /\ s \in Storing
      BY <1>1, <2>1, <2>3 DEF Storing, StoringOps
    <3>2. Sound(requests[s].token) /\ requests[s].token.root < served
      BY <3>1 DEF SoundInv
    <3>3. requests[s].token.root \in Nat
      <4>1. requests[s].token \in Token
        BY <2>1, <3>1, StoringParts
      <4> QED BY <4>1 DEF Token
    <3>4. served \in Nat
      BY AuthAssumption DEF TypeInv, AuthTypeOK
    <3> QED BY <3>1, <3>2, <3>3, <3>4
  <2> QED BY <2>2, <2>3
<1>3. \A s \in Slots : requests'[s].op = "revoke" =>
        \/ requests'[s] = requests[s]
        \/ requests'[s].pass <= Pass(requests[s].user)'
  <2> SUFFICES ASSUME NEW s \in Slots, requests'[s].op = "revoke", s = r
               PROVE  requests'[s].pass <= Pass(requests[s].user)'
    BY <1>1
  <2> QED BY <1>1 DEF Pass
<1> QED BY <1>2, <1>3, SoundKept

\* A step of one request keeps what is known of tokens of one login, if it stores
\* none and is about to store none but the one it had or one of a login of its own.
LEMMA ForkStep ==
  ASSUME TypeInv, ForkInv, NEW r \in Slots, NEW request \in Request,
         Become(r, request), tokens' \subseteq tokens,
         request.op \in StoringOps =>
           \/ /\ requests[r].op \in StoringOps \ {"rotate"}
              /\ request.token = requests[r].token
           \/ /\ \A token \in tokens : token.root # request.token.root
              /\ \A s \in Storing : requests[s].token.root # request.token.root
  PROVE  ForkInv'
<1>1. requests'[r] = request /\ \A s \in Slots : s # r => requests'[s] = requests[s]
  BY Becomes
<1>2. \A s \in Storing' : s \in Slots /\ requests'[s].op \in StoringOps /\ (s # r => s \in Storing)
  BY <1>1 DEF Storing, StoringOps
<1>3. r \in Storing' => request.op \in StoringOps
  BY <1>1 DEF Storing, StoringOps
<1>4. requests[r].op \in StoringOps => r \in Storing
  BY DEF Storing, StoringOps
<1>5. \A one, other \in tokens' : one # other => Forked(one, other)'
  BY DEF ForkInv, Forked
<1>6. ASSUME NEW s \in Storing', NEW token \in tokens'
      PROVE  \/ Forked(requests'[s].token, token)
             \/ requests'[s].op = "rotate" /\ requests'[s].old = token.id
  <2>1. CASE s = r
    BY <1>1, <1>3, <1>4, <2>1 DEF ForkInv, Forked
  <2>2. CASE s # r
    BY <1>1, <1>2, <2>2 DEF ForkInv
  <2> QED BY <2>1, <2>2
<1>7. ASSUME NEW s \in Storing', NEW t \in Storing', s # t
      PROVE  Forked(requests'[s].token, requests'[t].token)
  <2>1. CASE s = r
    BY <1>1, <1>2, <1>3, <1>4, <1>7, <2>1 DEF ForkInv, Forked
  <2>2. CASE t = r
    BY <1>1, <1>2, <1>3, <1>4, <1>7, <2>2 DEF ForkInv, Forked
  <2>3. CASE s # r /\ t # r
    BY <1>1, <1>2, <1>7, <2>3 DEF ForkInv
  <2> QED BY <2>1, <2>2, <2>3
<1>8. \A s \in Storing', token \in tokens' :
        \/ Forked(requests[s].token, token)'
        \/ requests'[s].op = "rotate" /\ requests'[s].old = token.id
  BY <1>6 DEF Forked
<1>9. \A s, t \in Storing' : s # t => Forked(requests[s].token, requests[t].token)'
  BY <1>7 DEF Forked
<1> QED BY <1>5, <1>8, <1>9 DEF ForkInv, Forked


LEMMA NewTokenSound ==
  ASSUME SessionInv, NEW u \in Users
  PROVE  LET token == NewToken(u, Pass(u)) IN
           /\ token \in Token /\ Sound(token)
           /\ token.root = served /\ token.user = u
           /\ \A stored \in tokens : stored.root # served
           /\ \A s \in Storing : requests[s].token.root # served
<1> DEFINE token == NewToken(u, Pass(u))
<1>1. token \in Token
  BY PassNat, NewTokenType DEF SessionInv
<1>2. reset[u] \in Nat /\ Pass(u) \in Nat /\ reset[u] <= Pass(u)
  BY PassNat DEF SessionInv, TypeInv, AuthTypeOK, SoundInv
<1>3. Sound(token) /\ token.root = served /\ token.user = u
  BY <1>2 DEF NewToken, Sound
<1>4. served \in Nat
  BY AuthAssumption DEF SessionInv, TypeInv, AuthTypeOK
<1>5. \A stored \in tokens : stored.root # served
  BY <1>4 DEF SessionInv, SoundInv
<1>6. \A s \in Storing : requests[s].token.root # served
  BY <1>4 DEF SessionInv, SoundInv
<1> QED BY <1>1, <1>3, <1>5, <1>6

LEMMA LoginSessions ==
  ASSUME SessionInv, TypeInv', NEW r \in Slots, NEW u \in Users, Register(r, u) \/ Login(r, u)
  PROVE  SoundInv' /\ ForkInv'
<1> DEFINE token == NewToken(u, Pass(u))
<1>1. /\ token \in Token /\ Sound(token) /\ token.root = served /\ token.user = u
      /\ \A stored \in tokens : stored.root # served
      /\ \A s \in Storing : requests[s].token.root # served
  BY NewTokenSound
<1>2. PICK request : /\ request \in Request /\ Become(r, request)
                     /\ request.op \in StoringOps /\ request.token = token
  <2>1. CASE Register(r, u)
    <3> DEFINE request == [op |-> "store", token |-> token, new |-> TRUE]
    <3>1. Pass(u) = 0
      BY <2>1 DEF Register, Pass
    <3>2. Become(r, request)
      BY <2>1, <3>1 DEF Register, Begin
    <3> HIDE DEF token
    <3>3. request \in Request
      BY <1>1 DEF Request
    <3> QED BY <3>2, <3>3 DEF StoringOps
  <2>2. CASE Login(r, u)
    <3> DEFINE copy == accounts[u]
               request == IF copy.verified = "yes" \/ copy.grace
                 THEN [op |-> "store", token |-> token, new |-> FALSE]
                 ELSE [op |-> "greet", token |-> token, copy |-> copy]
    <3>1. Pass(u) = copy.password /\ copy \in Account
      BY <2>2 DEF Login, Pass, SessionInv, TypeInv, AuthTypeOK
    <3>2. Become(r, request)
      BY <2>2, <3>1 DEF Login, Begin
    <3> HIDE DEF token, copy
    <3>3. request \in Request
      BY <1>1, <3>1 DEF Request
    <3> QED BY <3>2, <3>3 DEF StoringOps
  <2> QED BY <2>1, <2>2
<1>3. /\ served' = served + 1 /\ tokens' = tokens /\ Revoked
  BY DEF Register, Login, Begin, Arrive
<1>4. \A v \in Users : Pass(v) <= Pass(v)'
  <2>1. CASE Register(r, u)
    <3> DEFINE account == [password |-> 0, verified |-> "no", grace |-> TRUE]
    <3>1. account \in Account /\ account.password = 0
      BY DEF Account
    <3>2. accounts' = [accounts EXCEPT ![u] = account] /\ Pass(u) = 0
      BY <2>1 DEF Register, Pass
    <3>3. Pass(u) <= account.password
      BY <3>1, <3>2
    <3>4. TypeInv
      BY DEF SessionInv
    <3> HIDE DEF account
    <3> QED BY <3>1, <3>2, <3>3, <3>4, PassGrows
  <2>2. CASE Login(r, u)
    BY <2>2, PassSame DEF Login, SessionInv
  <2> QED BY <2>1, <2>2
<1>5. served < served' /\ request.op # "revoke"
  BY <1>2, <1>3, AuthAssumption DEF SessionInv, TypeInv, AuthTypeOK, StoringOps
<1> HIDE DEF token
<1>6. SoundInv'
  BY <1>1, <1>2, <1>3, <1>4, <1>5, SoundStep DEF SessionInv
<1>7. ForkInv'
  BY <1>1, <1>2, <1>3, ForkStep DEF SessionInv
<1> QED BY <1>6, <1>7

LEMMA GreetSessions ==
  ASSUME SessionInv, TypeInv', NEW r \in Slots, Greet(r) \/ GreetingLink(r)
  PROVE  SoundInv' /\ ForkInv'
<1> DEFINE token == requests[r].token
<1>1. /\ token \in Token /\ token.user \in Users /\ accounts[token.user] # NoAccount
      /\ r \in Storing /\ requests[r].op \in StoringOps \ {"rotate"}
  BY StoringParts DEF Greet, GreetingLink, StoringOps, Storing, SessionInv
<1>2. Sound(token) /\ token.root < served
  BY <1>1 DEF SessionInv, SoundInv
<1>3. PICK request : /\ request \in Request /\ Become(r, request)
                     /\ request.op \in StoringOps /\ request.op # "revoke" /\ request.token = token
  <2> DEFINE link == [op |-> "link", token |-> token]
             store == [op |-> "store", token |-> token, new |-> FALSE]
  <2>1. Become(r, link) \/ Become(r, store)
    BY DEF Greet, GreetingLink, Continue
  <2> HIDE DEF token
  <2>2. link \in Request /\ store \in Request
    BY <1>1 DEF Request
  <2> QED BY <2>1, <2>2 DEF StoringOps
<1>4. served' = served /\ tokens' = tokens /\ Revoked
  BY DEF Greet, GreetingLink, Continue
<1>5. \A v \in Users : Pass(v) <= Pass(v)'
  <2>1. CASE Greet(r)
    <3> DEFINE saved == Saved(accounts[token.user], requests[r].copy)
               account == [saved EXCEPT !.grace = TRUE]
    <3>1. accounts[token.user] \in Account
      BY <1>1 DEF SessionInv, TypeInv, AuthTypeOK
    <3>2. saved \in Account /\ saved.password = Pass(token.user)
      BY <1>1, <3>1, SavedType DEF Pass
    <3>3. account \in Account /\ account.password = Pass(token.user)
      <4> HIDE DEF saved
      <4> QED BY <3>2 DEF Account
    <3>4. accounts' = [accounts EXCEPT ![token.user] = account]
      BY <2>1 DEF Greet
    <3>5. Pass(token.user) <= account.password /\ TypeInv
      <4>1. Pass(token.user) \in Nat
        BY <1>1, PassNat DEF SessionInv
      <4> HIDE DEF account, token
      <4> QED BY <3>3, <4>1 DEF SessionInv
    <3> HIDE DEF account, token
    <3> QED BY <1>1, <3>3, <3>4, <3>5, PassGrows
  <2>2. CASE GreetingLink(r)
    BY <2>2, PassSame DEF GreetingLink, SessionInv
  <2> QED BY <2>1, <2>2
<1> HIDE DEF token
<1>6. SoundInv'
  BY <1>2, <1>3, <1>4, <1>5, SoundStep DEF SessionInv
<1>7. requests[r].token = token
  BY DEF token
<1>8. ForkInv'
  BY <1>1, <1>3, <1>4, <1>7, ForkStep DEF SessionInv
<1> QED BY <1>6, <1>8


LEMMA StoreSessions ==
  ASSUME SessionInv, TypeInv', NEW r \in Slots, StoreToken(r)
  PROVE  SoundInv' /\ ForkInv'
<1> DEFINE token == requests[r].token
           request == IF requests[r].new
             THEN [op |-> "mail", id |-> token.id, user |-> token.user, kind |-> "verify"]
             ELSE Idle
<1>1. token \in Token /\ r \in Storing /\ requests[r].op # "rotate"
  BY StoringParts DEF StoreToken, StoringOps, Storing, SessionInv
<1>2. Sound(token) /\ token.root < served
  BY <1>1 DEF SessionInv, SoundInv
<1>3. request \in Request /\ request.op \notin StoringOps /\ request.op # "revoke"
  <2> HIDE DEF token
  <2> QED BY <1>1 DEF Request, StoringOps, Token, Kinds, Idle
<1>4. /\ Become(r, request) /\ served' = served /\ tokens' = tokens \cup {token}
      /\ accounts' = accounts /\ Revoked
  BY DEF StoreToken, Continue
<1>5. requests[r].token = token
  OBVIOUS
<1> HIDE DEF request, token
<1>6. SoundInv'
  <2>1. \A u \in Users : Pass(u) <= Pass(u)'
    BY <1>4, PassSame DEF SessionInv
  <2>2. \A stored \in tokens' : stored \in tokens \/ (Sound(stored) /\ stored.root < served)
    BY <1>2, <1>4
  <2> QED BY <1>3, <1>4, <2>1, <2>2, SoundStep DEF SessionInv
<1>7. /\ requests'[r] = request /\ \A s \in Slots : s # r => requests'[s] = requests[s]
      /\ r \notin Storing'
  <2>1. requests'[r] = request /\ \A s \in Slots : s # r => requests'[s] = requests[s]
    BY <1>3, <1>4, Becomes DEF SessionInv
  <2> QED BY <1>3, <2>1 DEF Storing, StoringOps
<1>8. \A s \in Storing' : s \in Storing /\ s # r /\ requests'[s] = requests[s]
  BY <1>7 DEF Storing
<1>9. \A stored \in tokens : Forked(token, stored)
  BY <1>1, <1>5 DEF SessionInv, ForkInv
<1>10. \A s \in Storing : s # r => Forked(requests[s].token, token)
  BY <1>1, <1>5 DEF SessionInv, ForkInv
<1>11. \A one, other \in tokens' : one # other => Forked(one, other)'
  BY <1>4, <1>9 DEF SessionInv, ForkInv, Forked
<1>12. \A s \in Storing', stored \in tokens' :
         \/ Forked(requests[s].token, stored)'
         \/ requests'[s].op = "rotate" /\ requests'[s].old = stored.id
  BY <1>4, <1>8, <1>10 DEF SessionInv, ForkInv, Forked
<1>13. \A s, t \in Storing' : s # t => Forked(requests[s].token, requests[t].token)'
  BY <1>8 DEF SessionInv, ForkInv, Forked
<1>14. ForkInv'
  BY <1>11, <1>12, <1>13 DEF ForkInv
<1> QED BY <1>6, <1>14

LEMMA RotateSessions ==
  ASSUME SessionInv, TypeInv', NEW r \in Slots, Rotate(r)
  PROVE  SoundInv' /\ ForkInv'
<1> DEFINE token == requests[r].token
           request == [op |-> "store", token |-> token, new |-> FALSE]
<1>1. token \in Token /\ r \in Storing /\ requests[r].op = "rotate"
  BY StoringParts DEF Rotate, StoringOps, Storing, SessionInv
<1>2. Sound(token) /\ token.root < served
  BY <1>1 DEF SessionInv, SoundInv
<1>3. request \in Request /\ request.op \in StoringOps /\ request.op # "revoke"
      /\ request.op # "rotate" /\ request.token = token
  <2> HIDE DEF token
  <2> QED BY <1>1 DEF Request, StoringOps
<1>4. /\ Become(r, request) /\ served' = served
      /\ tokens' = {stored \in tokens : stored.id # requests[r].old}
      /\ accounts' = accounts /\ Revoked
  BY DEF Rotate, Continue
<1>5. requests[r].token = token
  OBVIOUS
<1> HIDE DEF request, token
<1>6. SoundInv'
  <2>1. \A u \in Users : Pass(u) <= Pass(u)'
    BY <1>4, PassSame DEF SessionInv
  <2> QED BY <1>2, <1>3, <1>4, <2>1, SoundStep DEF SessionInv
<1>7. /\ requests'[r] = request /\ \A s \in Slots : s # r => requests'[s] = requests[s]
      /\ Storing' = Storing
  <2>1. requests'[r] = request /\ \A s \in Slots : s # r => requests'[s] = requests[s]
    BY <1>3, <1>4, Becomes DEF SessionInv
  <2> QED BY <1>1, <1>3, <2>1 DEF Storing, StoringOps
<1>8. \A s \in Storing : requests'[s].token = requests[s].token
  BY <1>3, <1>5, <1>7 DEF Storing
<1>9. \A one, other \in tokens' : one # other => Forked(one, other)'
  BY <1>4 DEF SessionInv, ForkInv, Forked
<1>10. ASSUME NEW s \in Storing', NEW stored \in tokens'
       PROVE  \/ Forked(requests[s].token, stored)'
              \/ requests'[s].op = "rotate" /\ requests'[s].old = stored.id
  <2>1. CASE s = r
    <3>1. stored \in tokens /\ requests[r].old # stored.id
      BY <1>4
    <3>2. Forked(requests[r].token, stored)
      BY <1>1, <3>1 DEF SessionInv, ForkInv
    <3> QED BY <1>7, <1>8, <2>1, <3>2 DEF Forked
  <2>2. CASE s # r
    <3>1. stored \in tokens /\ s \in Storing /\ s \in Slots
      BY <1>4, <1>7 DEF Storing
    <3>2. \/ Forked(requests[s].token, stored)
          \/ requests[s].op = "rotate" /\ requests[s].old = stored.id
      BY <3>1 DEF SessionInv, ForkInv
    <3> QED BY <1>7, <2>2, <3>1, <3>2 DEF Forked
  <2> QED BY <2>1, <2>2
<1>11. \A s, t \in Storing' : s # t => Forked(requests[s].token, requests[t].token)'
  BY <1>7, <1>8 DEF SessionInv, ForkInv, Forked
<1>12. ForkInv'
  BY <1>9, <1>10, <1>11 DEF ForkInv
<1> QED BY <1>6, <1>12

LEMMA RefreshSessions ==
  ASSUME SessionInv, TypeInv', NEW r \in Slots, NEW token \in tokens, Refresh(r, token)
  PROVE  SoundInv' /\ ForkInv'
<1> DEFINE others == Holding(token)
           forked == token.forked \/ others # {}
           new == [token EXCEPT !.id = served, !.forked = forked]
<1>1. /\ token \in Token /\ Sound(token) /\ token.root < served
      /\ served' = served + 1 /\ served \in Nat
  <2>1. served \in Nat
    BY AuthAssumption DEF SessionInv, TypeInv, AuthTypeOK
  <2>2. token \in Token /\ Sound(token) /\ token.root < served
    BY DEF SessionInv, SoundInv, TypeInv, AuthTypeOK
  <2> QED BY <2>1, <2>2 DEF Refresh, Arrive
<1>2. /\ new.root = token.root /\ new.late = token.late /\ new.birth = token.birth
      /\ new.user = token.user /\ new.pass = token.pass /\ new.forked = forked
  <2> HIDE DEF forked
  <2> QED BY <1>1 DEF Token
<1>3. /\ requests'[r] = [op |-> "rotate", old |-> token.id, token |-> new]
      /\ \A s \in Slots : s # r =>
           requests'[s] = IF s \in others
             THEN [requests[s] EXCEPT !.token = [@ EXCEPT !.forked = TRUE]] ELSE requests[s]
      /\ requests[r] = Idle
  BY DEF Refresh, Arrive
<1>4. /\ tokens' = tokens /\ accounts' = accounts /\ Revoked
  BY DEF Refresh
<1>5. r \notin Storing /\ r \in Storing'
  BY <1>3 DEF Storing, Idle
<1>6. requests'[r].token = new /\ requests'[r].op = "rotate" /\ requests'[r].old = token.id
  <2> HIDE DEF new
  <2> QED BY <1>3
<1> HIDE DEF new
<1>7. ASSUME NEW s \in Storing', s # r
      PROVE  /\ s \in Storing /\ s \in Slots
             /\ requests[s].token \in Token
             /\ requests'[s].op = requests[s].op
             /\ requests[s].op = "rotate" => requests'[s].old = requests[s].old
             /\ requests'[s].token = IF s \in others
                  THEN [requests[s].token EXCEPT !.forked = TRUE] ELSE requests[s].token
  <2>1. s \in Slots /\ requests[s] \in Request
    BY DEF Storing, SessionInv, TypeInv, AuthTypeOK
  <2>2. CASE s \in others
    <3>1. requests[s] \in [op : {"rotate"}, old : Nat, token : Token]
      BY <2>1, <2>2, Parts DEF Holding
    <3> QED BY <1>3, <1>7, <2>1, <2>2, <3>1 DEF Storing
  <2>3. CASE s \notin others
    <3>1. requests'[s] = requests[s]
      BY <1>3, <1>7, <2>1, <2>3
    <3>2. s \in Storing /\ requests[s].op \in StoringOps
      BY <2>1, <3>1 DEF Storing, StoringOps
    <3> QED BY <2>1, <2>3, <3>1, <3>2, Parts
  <2> QED BY <2>2, <2>3
<1>8. ASSUME NEW s \in Storing', s # r
      PROVE  /\ requests'[s].token.root = requests[s].token.root
             /\ requests'[s].token.late = requests[s].token.late
             /\ requests'[s].token.user = requests[s].token.user
             /\ requests'[s].token.birth = requests[s].token.birth
             /\ requests'[s].token.pass = requests[s].token.pass
             /\ requests[s].token.forked => requests'[s].token.forked
             /\ s \in others => requests'[s].token.forked
  <2> HIDE DEF others
  <2> QED BY <1>7, <1>8 DEF Token
<1>9. SoundInv'
  <2>1. \A s \in Storing' : Sound(requests'[s].token) /\ requests'[s].token.root < served'
    <3> SUFFICES ASSUME NEW s \in Storing'
                 PROVE  Sound(requests'[s].token) /\ requests'[s].token.root < served'
      OBVIOUS
    <3>1. CASE s = r
      <4>1. token.root \in Nat
        BY <1>1 DEF Token
      <4>2. new.root < served'
        BY <1>1, <1>2, <4>1
      <4>3. Sound(new)
        BY <1>1, <1>2 DEF Sound
      <4> QED BY <1>6, <3>1, <4>2, <4>3
    <3>2. CASE s # r
      <4>1. s \in Storing /\ requests[s].token.root \in Nat
        BY <1>7, <3>2 DEF Token
      <4>2. Sound(requests[s].token) /\ requests[s].token.root < served
        BY <4>1 DEF SessionInv, SoundInv
      <4>3. requests'[s].token.root < served'
        BY <1>1, <1>8, <3>2, <4>1, <4>2
      <4>4. Sound(requests'[s].token)
        BY <1>8, <3>2, <4>2 DEF Sound
      <4> QED BY <4>3, <4>4
    <3> QED BY <3>1, <3>2
  <2>2. \A s \in Slots : requests'[s].op = "revoke" => requests'[s] = requests[s]
    <3> SUFFICES ASSUME NEW s \in Slots, requests'[s].op = "revoke"
                 PROVE  requests'[s] = requests[s]
      OBVIOUS
    <3>1. s # r
      BY <1>6
    <3>2. s \notin others
      <4> SUFFICES ASSUME s \in others PROVE FALSE
        OBVIOUS
      <4>1. requests[s] \in [op : {"rotate"}, old : Nat, token : Token]
        BY Parts DEF Holding, SessionInv, TypeInv, AuthTypeOK
      <4>2. requests'[s].op = "rotate"
        BY <1>3, <3>1, <4>1
      <4> QED BY <4>2
    <3> QED BY <1>3, <3>1, <3>2
  <2>3. \A u \in Users : Pass(u) <= Pass(u)'
    BY <1>4, PassSame DEF SessionInv
  <2> HIDE DEF others
  <2> QED BY <1>1, <1>4, <2>1, <2>2, <2>3, SoundKept DEF SessionInv
<1>10. \A one, other \in tokens' : one # other => Forked(one, other)'
  BY <1>4 DEF SessionInv, ForkInv, Forked
<1>11. ASSUME NEW s \in Storing', NEW stored \in tokens'
       PROVE  \/ Forked(requests[s].token, stored)'
              \/ requests'[s].op = "rotate" /\ requests'[s].old = stored.id
  <2>1. CASE s = r /\ stored = token
    BY <1>6, <2>1
  <2>2. CASE s = r /\ stored # token
    <3>1. Forked(token, stored)
      BY <1>4, <2>2 DEF SessionInv, ForkInv
    <3> HIDE DEF others
    <3> QED BY <1>2, <1>6, <2>2, <3>1 DEF Forked
  <2>3. CASE s # r
    <3>1. \/ Forked(requests[s].token, stored)
          \/ requests[s].op = "rotate" /\ requests[s].old = stored.id
      BY <1>4, <1>7, <2>3 DEF SessionInv, ForkInv
    <3> HIDE DEF others
    <3> QED BY <1>7, <1>8, <2>3, <3>1 DEF Forked
  <2> QED BY <2>1, <2>2, <2>3
<1>12. ASSUME NEW s \in Storing', s # r
       PROVE  /\ Forked(requests[r].token, requests[s].token)'
              /\ Forked(requests[s].token, requests[r].token)'
  <2>1. Forked(requests[s].token, token) \/ s \in others
    BY <1>7, <1>12 DEF SessionInv, ForkInv, Holding
  <2>2. s \in others => forked
    OBVIOUS
  <2>3. token.forked => forked
    OBVIOUS
  <2> HIDE DEF others, forked
  <2> QED BY <1>2, <1>6, <1>8, <1>12, <2>1, <2>2, <2>3 DEF Forked
<1>13. ASSUME NEW s \in Storing', NEW t \in Storing', s # t
       PROVE  Forked(requests[s].token, requests[t].token)'
  <2>1. CASE s = r \/ t = r
    BY <1>12, <1>13, <2>1
  <2>2. CASE s # r /\ t # r
    <3>1. Forked(requests[s].token, requests[t].token)
      BY <1>7, <1>13, <2>2 DEF SessionInv, ForkInv
    <3> HIDE DEF others
    <3> QED BY <1>8, <2>2, <3>1 DEF Forked
  <2> QED BY <2>1, <2>2
<1>14. ForkInv'
  BY <1>10, <1>11, <1>13 DEF ForkInv
<1> QED BY <1>9, <1>14


LEMMA EnterSessions ==
  ASSUME SessionInv, TypeInv', NEW r \in Slots, Enter(r)
  PROVE  SoundInv' /\ ForkInv'
BY LoginSessions, GreetSessions, StoreSessions, RotateSessions, RefreshSessions DEF Enter

\* A step that concerns no session and only sets passwords.
LEMMA OtherSessions ==
  ASSUME SessionInv, TypeInv', NEW r \in Slots, NEW request \in Request, Become(r, request),
         request.op \notin StoringOps,
         request.op = "revoke" => \E v \in Users : v = request.user /\ request.pass <= Pass(v)',
         served' = served \/ served' = served + 1, tokens' = tokens, Revoked,
         \A u \in Users : Pass(u) <= Pass(u)'
  PROVE  SoundInv' /\ ForkInv'
<1>1. SoundInv'
  BY SoundStep DEF SessionInv
<1>2. ForkInv'
  BY ForkStep DEF SessionInv
<1> QED BY <1>1, <1>2

\* All tokens of u go: what is stored of others is as sound as it was.
LEMMA RevokeSessions ==
  ASSUME SessionInv, TypeInv', NEW u \in Users, NEW next \in [Slots -> Request],
         RevokeAll(u, next), accounts' = accounts,
         served' = served \/ served' = served + 1,
         \A s \in Slots : next[s] = requests[s] \/ next[s] = Idle,
         \A s \in Storing : next[s] = requests[s],
         \A v \in Users : v # u => reset'[v] = reset[v],
         reset'[u] <= Pass(u)
  PROVE  SoundInv' /\ ForkInv'
<1>1. /\ tokens' = tokens \ Own(u) /\ revocations' = [revocations EXCEPT ![u] = @ + 1]
      /\ \A s \in Slots : requests'[s] =
           IF s \in Storing /\ requests[s].token.user = u
             THEN [requests[s] EXCEPT !.token = [@ EXCEPT !.late = TRUE]] ELSE next[s]
  BY DEF RevokeAll
<1>2. /\ served \in Nat /\ served' \in Nat /\ served <= served'
      /\ \A v \in Users : v # u => revocations'[v] = revocations[v] /\ reset'[v] = reset[v]
  BY <1>1, AuthAssumption DEF SessionInv, TypeInv, AuthTypeOK
<1>3. ASSUME NEW s \in Storing'
      PROVE  /\ s \in Storing /\ s \in Slots /\ requests[s].token \in Token
             /\ requests'[s].op = requests[s].op
             /\ requests[s].op = "rotate" => requests'[s].old = requests[s].old
             /\ requests'[s].token = IF requests[s].token.user = u
                  THEN [requests[s].token EXCEPT !.late = TRUE] ELSE requests[s].token
  <2>1. s \in Slots /\ requests[s] \in Request /\ requests'[s].op \in StoringOps
    BY DEF Storing, StoringOps, SessionInv, TypeInv, AuthTypeOK
  <2>2. CASE s \in Storing /\ requests[s].token.user = u
    <3> DEFINE t == [requests[s].token EXCEPT !.late = TRUE]
    <3>1. requests[s].op \in StoringOps /\ requests[s].token \in Token
      BY <2>1, <2>2, Parts DEF Storing, StoringOps
    <3>2. requests'[s] = [requests[s] EXCEPT !.token = t]
      BY <1>1, <2>1, <2>2
    <3>3. t \in Token
      BY <3>1 DEF Token
    <3> HIDE DEF t
    <3>4. requests'[s].op = requests[s].op /\ requests'[s].token = t
      BY <2>1, <3>1, <3>2, <3>3, TokenSwap
    <3>5. requests[s].op = "rotate" => requests'[s].old = requests[s].old
      <4> SUFFICES ASSUME requests[s].op = "rotate" PROVE requests'[s].old = requests[s].old
        OBVIOUS
      <4>1. requests[s] \in [op : {"rotate"}, old : Nat, token : Token]
        BY <2>1, Parts
      <4> QED BY <3>2, <4>1
    <3> QED BY <2>1, <2>2, <3>1, <3>4, <3>5 DEF t
  <2>3. CASE s \in Storing /\ requests[s].token.user # u
    <3>1. requests'[s] = requests[s]
      BY <1>1, <2>1, <2>3
    <3>2. requests[s].token \in Token
      BY <2>1, <2>3, Parts DEF Storing, StoringOps
    <3> QED BY <2>1, <2>3, <3>1, <3>2
  <2>4. CASE s \notin Storing
    <3>1. requests'[s] = requests[s] \/ requests'[s] = Idle
      BY <1>1, <2>1, <2>4
    <3> QED BY <2>1, <2>4, <3>1 DEF Idle, Storing, StoringOps
  <2> QED BY <2>2, <2>3, <2>4
<1>4. ASSUME NEW s \in Storing'
      PROVE  /\ requests'[s].token.root = requests[s].token.root
             /\ requests'[s].token.forked = requests[s].token.forked
             /\ requests'[s].token.user = requests[s].token.user
             /\ requests[s].token.user = u => requests'[s].token.late
  BY <1>3 DEF Token
<1>5. \A token \in tokens' : Sound(token)' /\ token.root < served'
  <2> SUFFICES ASSUME NEW token \in tokens' PROVE Sound(token)' /\ token.root < served'
    OBVIOUS
  <2>1. token \in tokens /\ token.user \in Users /\ token.user # u /\ token.root \in Nat
    BY <1>1 DEF Own, SessionInv, TypeInv, AuthTypeOK, Token
  <2>2. Sound(token) /\ token.root < served
    BY <2>1 DEF SessionInv, SoundInv
  <2>3. token.root < served'
    BY <1>2, <2>1, <2>2
  <2> QED BY <1>2, <2>1, <2>2, <2>3 DEF Sound
<1>6. \A s \in Storing' : Sound(requests[s].token)' /\ requests'[s].token.root < served'
  <2> SUFFICES ASSUME NEW s \in Storing'
               PROVE  Sound(requests[s].token)' /\ requests'[s].token.root < served'
    OBVIOUS
  <2>1. s \in Storing /\ requests[s].token.user \in Users /\ requests[s].token.root \in Nat
    BY <1>3 DEF Token
  <2>2. Sound(requests[s].token) /\ requests[s].token.root < served
    BY <2>1 DEF SessionInv, SoundInv
  <2>3. requests'[s].token.root < served'
    BY <1>2, <1>4, <2>1, <2>2
  <2>4. CASE requests[s].token.user = u
    BY <1>4, <2>3, <2>4 DEF Sound
  <2>5. CASE requests[s].token.user # u
    BY <1>2, <1>3, <2>1, <2>2, <2>3, <2>5 DEF Sound
  <2> QED BY <2>4, <2>5
<1>7. \A v \in Users : reset'[v] <= Pass(v)'
  <2> SUFFICES ASSUME NEW v \in Users PROVE reset'[v] <= Pass(v)'
    OBVIOUS
  <2>1. Pass(v)' = Pass(v)
    BY DEF Pass
  <2> QED BY <1>2, <2>1 DEF SessionInv, SoundInv
<1>8. \A s \in Slots : requests'[s].op = "revoke" => requests'[s].pass <= Pass(requests[s].user)'
  <2> SUFFICES ASSUME NEW s \in Slots, requests'[s].op = "revoke"
               PROVE  requests'[s].pass <= Pass(requests[s].user)'
    OBVIOUS
  <2>1. s \notin Storing
    <3> SUFFICES ASSUME s \in Storing, requests[s].op \in StoringOps PROVE FALSE
      BY DEF Storing, StoringOps
    <3>1. s \in Storing'
      <4>1. CASE requests[s].token.user = u
        <5> DEFINE t == [requests[s].token EXCEPT !.late = TRUE]
        <5>1. requests[s] \in Request /\ requests[s].token \in Token
          BY StoringParts DEF SessionInv, TypeInv, AuthTypeOK
        <5>2. t \in Token /\ requests'[s] = [requests[s] EXCEPT !.token = t]
          BY <1>1, <4>1, <5>1 DEF Token
        <5> HIDE DEF t
        <5> QED BY <5>1, <5>2, TokenSwap DEF Storing, StoringOps
      <4>2. CASE requests[s].token.user # u
        BY <1>1, <4>2 DEF Storing
      <4> QED BY <4>1, <4>2
    <3> QED BY <3>1 DEF Storing
  <2>2. requests'[s] = requests[s]
    <3>1. requests'[s] = next[s]
      BY <1>1, <2>1
    <3>2. Idle.op = "idle"
      BY DEF Idle
    <3> QED BY <3>1, <3>2
  <2>3. requests[s].pass <= Pass(requests[s].user)
    BY <2>2 DEF SessionInv, SoundInv
  <2> QED BY <2>2, <2>3 DEF Pass
<1>9. SoundInv'
  BY <1>5, <1>6, <1>7, <1>8 DEF SoundInv
<1>10. \A one, other \in tokens' : one # other => Forked(one, other)'
  BY <1>1 DEF SessionInv, ForkInv, Forked
<1>11. \A s \in Storing', token \in tokens' :
         \/ Forked(requests[s].token, token)'
         \/ requests'[s].op = "rotate" /\ requests'[s].old = token.id
  <2> SUFFICES ASSUME NEW s \in Storing', NEW token \in tokens'
               PROVE  \/ Forked(requests[s].token, token)'
                      \/ requests'[s].op = "rotate" /\ requests'[s].old = token.id
    OBVIOUS
  <2>1. s \in Storing /\ token \in tokens /\ requests'[s].op = requests[s].op
    BY <1>1, <1>3
  <2>2. requests[s].op = "rotate" => requests'[s].old = requests[s].old
    BY <1>3
  <2>3. \/ Forked(requests[s].token, token)
        \/ requests[s].op = "rotate" /\ requests[s].old = token.id
    BY <2>1 DEF SessionInv, ForkInv
  <2> QED BY <1>4, <2>1, <2>2, <2>3 DEF Forked
<1>12. \A s, t \in Storing' : s # t => Forked(requests[s].token, requests[t].token)'
  <2> SUFFICES ASSUME NEW s \in Storing', NEW t \in Storing', s # t
               PROVE  Forked(requests[s].token, requests[t].token)'
    OBVIOUS
  <2>1. s \in Storing /\ t \in Storing
    BY <1>3
  <2>2. Forked(requests[s].token, requests[t].token)
    BY <2>1 DEF SessionInv, ForkInv
  <2> QED BY <1>4, <2>2 DEF Forked
<1>13. ForkInv'
  BY <1>10, <1>11, <1>12 DEF ForkInv
<1> QED BY <1>9, <1>13


LEMMA RecoverSessions ==
  ASSUME SessionInv, TypeInv', NEW r \in Slots, Recover(r)
  PROVE  SoundInv' /\ ForkInv'
<1> USE DEF SessionInv
<1>0. Idle \in Request /\ Idle.op = "idle"
  BY DEF Request, Idle
<1>1. CASE /\ accounts' = accounts /\ tokens' = tokens /\ Revoked
           /\ served' = served \/ served' = served + 1
           /\ \E request \in Request :
                Become(r, request) /\ request.op \notin StoringOps /\ request.op # "revoke"
  BY <1>1, PassSame, OtherSessions
<1>2. ASSUME NEW u \in Users, NEW kind \in Kinds, Ask(r, u, kind)
      PROVE  SoundInv' /\ ForkInv'
  <2> DEFINE request == [op |-> "drop", id |-> served, user |-> u, kind |-> kind]
  <2>1. served \in Nat
    BY AuthAssumption DEF TypeInv, AuthTypeOK
  <2>2. request \in Request /\ request.op = "drop"
    BY <2>1 DEF Request
  <2>3. Become(r, request)
    BY <1>2 DEF Ask, Begin
  <2> HIDE DEF request
  <2> QED BY <1>1, <1>2, <2>2, <2>3 DEF Ask, Begin, Arrive, StoringOps
<1>3. CASE DropLinks(r)
  <2> DEFINE request == [requests[r] EXCEPT !.op = "mail"]
  <2>1. requests[r] \in [op : {"drop", "mail"}, id : Nat, user : Users, kind : Kinds]
    BY <1>3, Parts DEF DropLinks, TypeInv, AuthTypeOK
  <2>2. request \in Request /\ request.op = "mail"
    BY <2>1 DEF Request
  <2>3. Become(r, request) /\ served' = served
    BY <1>3 DEF DropLinks, Proceed, Continue
  <2> HIDE DEF request
  <2> QED BY <1>1, <1>3, <2>2, <2>3 DEF DropLinks, StoringOps
<1>4. CASE MailLink(r)
  BY <1>0, <1>1, <1>4 DEF MailLink, End, Continue, StoringOps
<1>5. ASSUME NEW link \in links, UseLink(r, link)
      PROVE  SoundInv' /\ ForkInv'
  <2> DEFINE request == [op |-> "mark", link |-> link]
  <2>1. request \in Request /\ request.op = "mark"
    BY DEF Request, TypeInv, AuthTypeOK
  <2>2. Become(r, request)
    BY <1>5 DEF UseLink, Begin
  <2> HIDE DEF request
  <2> QED BY <1>1, <1>5, <2>1, <2>2 DEF UseLink, Begin, Arrive, StoringOps
<1>6. CASE MarkLink(r)
  <2> DEFINE op == IF requests[r].link.kind = "verify" THEN "verify" ELSE "account"
             request == [requests[r] EXCEPT !.op = op]
  <2>1. requests[r] \in [op : {"mark", "verify", "account"}, link : Link]
    BY <1>6, LinkParts DEF MarkLink
  <2>2. op \in {"verify", "account"}
    OBVIOUS
  <2>3. Become(r, request) /\ served' = served
    BY <1>6 DEF MarkLink, Proceed, Continue
  <2> HIDE DEF op
  <2>4. request \in Request /\ request.op \in {"verify", "account"}
    BY <2>1, <2>2 DEF Request
  <2> HIDE DEF request
  <2> QED BY <1>1, <1>6, <2>3, <2>4 DEF MarkLink, StoringOps
<1>7. CASE Verify(r)
  <2> DEFINE u == requests[r].link.user
             account == [accounts[u] EXCEPT !.verified = "yes"]
  <2>1. u \in Users /\ accounts[u] \in Account /\ Pass(u) = accounts[u].password
    BY <1>7, LinkParts DEF Verify, TypeInv, AuthTypeOK, Pass
  <2>2. account \in Account /\ account.password = Pass(u) /\ Pass(u) \in Nat
    BY <2>1 DEF Account
  <2>3. accounts' = [accounts EXCEPT ![u] = account]
    BY <1>7 DEF Verify
  <2> HIDE DEF u, account
  <2>4. Pass(u) <= account.password
    BY <2>2
  <2>5. \A v \in Users : Pass(v) <= Pass(v)'
    BY <2>1, <2>2, <2>3, <2>4, PassGrows
  <2> QED BY <1>0, <1>7, <2>5, OtherSessions DEF Verify, End, Continue, StoringOps
<1>8. CASE ReadAccount(r)
  <2> DEFINE u == requests[r].link.user
             request == [op |-> "password", user |-> u, copy |-> accounts[u]]
  <2>1. u \in Users /\ accounts[u] \in Account
    BY <1>8, LinkParts DEF ReadAccount, TypeInv, AuthTypeOK
  <2>2. request \in Request /\ request.op = "password"
    BY <2>1 DEF Request
  <2>3. Become(r, request) /\ served' = served
    BY <1>8 DEF ReadAccount, Continue
  <2> HIDE DEF request
  <2> QED BY <1>1, <1>8, <2>2, <2>3 DEF ReadAccount, StoringOps
<1>9. ASSUME NEW u \in Users, NEW op \in {"profile", "new password"}, EditAccount(r, u, op)
      PROVE  SoundInv' /\ ForkInv'
  <2> DEFINE request == [op |-> op, user |-> u, copy |-> accounts[u]]
  <2>1. accounts[u] \in Account
    BY <1>9 DEF EditAccount, TypeInv, AuthTypeOK
  <2>2. request \in Request /\ request.op = op
    BY <2>1 DEF Request
  <2>3. Become(r, request)
    BY <1>9 DEF EditAccount, Begin
  <2> HIDE DEF request
  <2> QED BY <1>1, <1>9, <2>2, <2>3 DEF EditAccount, Begin, Arrive, StoringOps
<1>10. CASE SaveAccount(r)
  <2> DEFINE u == requests[r].user
             account == Saved(accounts[u], requests[r].copy)
             new == [account EXCEPT !.password = @ + 1]
             next == [op |-> "revoke", user |-> u, pass |-> new.password]
  <2>1. u \in Users /\ accounts[u] \in Account /\ Pass(u) = accounts[u].password
    BY <1>10, UserParts DEF SaveAccount, TypeInv, AuthTypeOK, Pass
  <2>2. account \in Account /\ account.password = Pass(u)
    BY <2>1, SavedType
  <2>3. /\ \/ accounts' = [accounts EXCEPT ![u] = account] /\ Become(r, Idle)
           \/ accounts' = [accounts EXCEPT ![u] = new] /\ Become(r, Idle)
           \/ accounts' = [accounts EXCEPT ![u] = new] /\ Become(r, next)
        /\ served' = served
    BY <1>10 DEF SaveAccount, End, Continue
  <2> HIDE DEF u, account
  <2>4. new \in Account /\ new.password = Pass(u) + 1
    BY <2>2 DEF Account
  <2> HIDE DEF new
  <2>5. next \in Request /\ next.op = "revoke" /\ next.user = u /\ next.pass = new.password
    BY <2>1, <2>4 DEF Request, Account
  <2> HIDE DEF next
  <2>6. /\ Pass(u) <= account.password /\ Pass(u) <= new.password
        /\ new.password <= new.password
    <3>1. Pass(u) \in Nat
      BY <2>1, PassNat
    <3> QED BY <2>2, <2>4, <3>1
  <2>7. \A v \in Users : Pass(v) <= Pass(v)'
    BY <2>1, <2>2, <2>3, <2>4, <2>6, PassGrows
  <2>8. CASE Become(r, Idle)
    BY <1>0, <1>10, <2>3, <2>7, <2>8, OtherSessions DEF SaveAccount, StoringOps
  <2>9. CASE accounts' = [accounts EXCEPT ![u] = new] /\ Become(r, next)
    <3>1. PICK v \in Users : v = u
      BY <2>1
    <3>2. accounts'[v] = new /\ new # NoAccount
      BY <2>4, <2>9, <3>1, AuthAssumption DEF TypeInv, AuthTypeOK
    <3>3. Pass(v)' = new.password
      BY <3>2 DEF Pass
    <3>4. next.pass <= Pass(v)' /\ v = next.user
      BY <2>5, <2>6, <3>1, <3>3
    <3> QED BY <1>10, <2>3, <2>5, <2>7, <2>9, <3>4, OtherSessions DEF SaveAccount, StoringOps
  <2> QED BY <2>3, <2>8, <2>9
<1>11. CASE EndSessions(r)
  <2> DEFINE next == [requests EXCEPT ![r] = Idle]
             u == requests[r].user
             pass == requests[r].pass
  <2>1. u \in Users /\ pass \in Nat
    BY <1>11, UserParts, Parts DEF EndSessions, TypeInv, AuthTypeOK
  <2>2. next \in [Slots -> Request] /\ \A s \in Slots : next[s] = requests[s] \/ next[s] = Idle
    BY <1>0 DEF TypeInv, AuthTypeOK
  <2>3. \A s \in Storing : next[s] = requests[s]
    <3>1. r \notin Storing
      BY <1>11 DEF EndSessions, Storing
    <3> QED BY <3>1 DEF Storing, TypeInv, AuthTypeOK
  <2>4. pass <= Pass(u) /\ reset[u] <= Pass(u)
    BY <1>11, <2>1 DEF EndSessions, SoundInv
  <2>5. /\ RevokeAll(u, next) /\ accounts' = accounts /\ served' = served
        /\ reset' = [reset EXCEPT ![u] = IF pass > @ THEN pass ELSE @]
    BY <1>11 DEF EndSessions
  <2>6. reset \in [Users -> Nat]
    BY DEF TypeInv, AuthTypeOK
  <2>7. /\ \A v \in Users : v # u => reset'[v] = reset[v]
        /\ reset'[u] = pass \/ reset'[u] = reset[u]
    BY <2>1, <2>5, <2>6
  <2>8. reset'[u] <= Pass(u)
    BY <2>4, <2>7
  <2> HIDE DEF next, u, pass
  <2> QED BY <2>1, <2>2, <2>3, <2>5, <2>7, <2>8, RevokeSessions
<1> QED BY <1>2, <1>3, <1>4, <1>5, <1>6, <1>7, <1>8, <1>9, <1>10, <1>11 DEF Recover

LEMMA NextSessions == SessionInv /\ [Next]_vars => SessionInv'
<1> SUFFICES ASSUME SessionInv, [Next]_vars PROVE SessionInv'
  OBVIOUS
<1>0. TypeInv' /\ TypeInv
  BY NextType DEF SessionInv
<1> SUFFICES SoundInv' /\ ForkInv'
  BY <1>0 DEF SessionInv
<1>1. ASSUME NEW r \in Slots, Enter(r) \/ Recover(r)
      PROVE  SoundInv' /\ ForkInv'
  BY <1>0, <1>1, EnterSessions, RecoverSessions
<1>2. ASSUME NEW r \in Slots, Abandon(r)
      PROVE  SoundInv' /\ ForkInv'
  <2>1. Idle \in Request /\ Idle.op = "idle" /\ \A u \in Users : Pass(u) <= Pass(u)'
    BY <1>0, <1>2, PassSame DEF Request, Idle, Abandon
  <2> QED BY <1>0, <1>2, <2>1, OtherSessions DEF Abandon, End, Continue, StoringOps
<1>3. ASSUME NEW u \in Users, LogoutAll(u)
      PROVE  SoundInv' /\ ForkInv'
  <2>1. /\ requests \in [Slots -> Request] /\ RevokeAll(u, requests) /\ accounts' = accounts
        /\ served' = served + 1 /\ reset' = reset /\ reset[u] <= Pass(u)
    BY <1>3 DEF LogoutAll, SessionInv, TypeInv, AuthTypeOK, SoundInv
  <2> QED BY <1>0, <2>1, RevokeSessions
<1>4. CASE \/ \E token \in tokens : Logout(token)
           \/ \E link \in links : ExpireLink(link)
           \/ UNCHANGED vars
  <2>1. /\ tokens' \subseteq tokens
        /\ UNCHANGED <<accounts, requests, served, revocations, reset>>
    BY <1>4 DEF Logout, ExpireLink, vars, Revoked
  <2>2. SoundInv'
    BY <2>1 DEF SessionInv, SoundInv, Sound, Pass, Storing
  <2>3. ForkInv'
    BY <2>1 DEF SessionInv, ForkInv, Forked, Storing
  <2> QED BY <2>2, <2>3
<1> QED BY <1>1, <1>2, <1>3, <1>4 DEF Next

LEMMA InitSessions == Init => SessionInv
<1> SUFFICES ASSUME Init PROVE SessionInv
  OBVIOUS
<1>1. TypeInv
  BY InitType
<1>2. \A r \in Slots : requests[r].op = "idle"
  BY DEF Init, Idle
<1>3. Storing = {} /\ tokens = {}
  BY <1>2 DEF Init, Storing
<1>4. \A u \in Users : reset[u] <= Pass(u)
  <2> SUFFICES ASSUME NEW u \in Users PROVE reset[u] <= Pass(u)
    OBVIOUS
  <2>1. Pass(u) = 0 /\ reset[u] = 0
    BY DEF Init, Pass, LegacyAccount
  <2> QED BY <2>1
<1> QED BY <1>1, <1>2, <1>3, <1>4 DEF SessionInv, SoundInv, ForkInv

\* Logging out everywhere and resetting the password end every session that was
\* stored by then; what refreshes and logins under way store afterwards is known.
THEOREM SessionsEnd == Spec => []OldSessionsEnd
<1>1. SessionInv => OldSessionsEnd
  BY DEF SessionInv, SoundInv, ForkInv, Sound, Forked, OldSessionsEnd
<1> QED BY <1>1, InitSessions, NextSessions, PTL DEF Spec

-----------------------------------------------------------------------------
\* Only the save of a copy without the field takes a verification back.
LEMMA VerifiedStep ==
  TypeInv /\ [Next]_vars =>
  [ \A u \in Users :
        accounts[u] # NoAccount /\ accounts[u].verified = "yes" /\ accounts'[u].verified # "yes"
          => \E r \in Slots :
               /\ requests'[r] # requests[r]
               /\ requests[r].op \in {"greet", "profile", "new password", "password"}
               /\ requests[r].copy.verified = "missing" ]_vars
<1> SUFFICES ASSUME TypeInv, [Next]_vars, NEW u \in Users, accounts[u] # NoAccount,
                    accounts[u].verified = "yes", accounts'[u].verified # "yes"
             PROVE  \E r \in Slots :
               /\ requests'[r] # requests[r]
               /\ requests[r].op \in {"greet", "profile", "new password", "password"}
               /\ requests[r].copy.verified = "missing"
  OBVIOUS
<1>0. accounts[u] \in Account /\ accounts' # accounts
  BY DEF TypeInv, AuthTypeOK
<1>1. CASE \E r \in Slots : Greet(r)
  <2>1. PICK r \in Slots : Greet(r)
    BY <1>1
  <2> DEFINE token == requests[r].token
             saved == Saved(accounts[token.user], requests[r].copy)
             account == [saved EXCEPT !.grace = TRUE]
  <2>2. token.user \in Users /\ accounts[token.user] \in Account
    BY <2>1, StoringParts DEF Greet, StoringOps, TypeInv, AuthTypeOK
  <2>3. accounts' = [accounts EXCEPT ![token.user] = account]
    BY <2>1 DEF Greet
  <2>4. saved \in Account
    BY <2>2, SavedType
  <2>5. account.verified = saved.verified
    <3> HIDE DEF saved
    <3> QED BY <2>4 DEF Account
  <2>6. u = token.user /\ saved.verified # "yes"
    <3> HIDE DEF account, saved, token
    <3> QED BY <2>2, <2>3, <2>5 DEF TypeInv, AuthTypeOK
  <2>7. requests[r].copy.verified = "missing"
    BY <1>0, <2>6 DEF Saved, Account
  <2>8. requests[r].op = "greet" /\ requests'[r].op = "link"
    BY <2>1 DEF Greet, Continue, Become, TypeInv, AuthTypeOK
  <2> QED BY <2>7, <2>8
<1>2. CASE \E r \in Slots : SaveAccount(r)
  <2>1. PICK r \in Slots : SaveAccount(r)
    BY <1>2
  <2> DEFINE v == requests[r].user
             saved == Saved(accounts[v], requests[r].copy)
             new == [saved EXCEPT !.password = @ + 1]
  <2>2. v \in Users /\ accounts[v] \in Account
    BY <2>1, UserParts DEF SaveAccount, TypeInv, AuthTypeOK
  <2>3. accounts' = [accounts EXCEPT ![v] = saved] \/ accounts' = [accounts EXCEPT ![v] = new]
    BY <2>1 DEF SaveAccount
  <2>4. saved \in Account
    BY <2>2, SavedType
  <2>5. new.verified = saved.verified
    <3> HIDE DEF saved
    <3> QED BY <2>4 DEF Account
  <2>6. u = v /\ saved.verified # "yes"
    <3> HIDE DEF new, saved, v
    <3> QED BY <2>2, <2>3, <2>5 DEF TypeInv, AuthTypeOK
  <2>7. requests[r].copy.verified = "missing"
    BY <1>0, <2>6 DEF Saved, Account
  <2>8. requests[r].op \in {"profile", "new password", "password"}
    BY <2>1 DEF SaveAccount
  <2>9. requests'[r].op \in {"idle", "revoke"}
    <3> DEFINE next == [op |-> "revoke", user |-> v, pass |-> new.password]
    <3>1. Become(r, Idle) \/ Become(r, next)
      BY <2>1 DEF SaveAccount, End, Continue
    <3>2. Idle.op = "idle" /\ next.op = "revoke"
      BY DEF Idle
    <3> HIDE DEF next
    <3> QED BY <3>1, <3>2 DEF Become, TypeInv, AuthTypeOK
  <2> QED BY <2>7, <2>8, <2>9
<1>3. CASE \E r \in Slots : Verify(r)
  <2>1. PICK r \in Slots : Verify(r)
    BY <1>3
  <2> DEFINE v == requests[r].link.user
  <2>2. v \in Users /\ accounts[v] \in Account
    BY <2>1, LinkParts DEF Verify, TypeInv, AuthTypeOK
  <2>3. accounts' = [accounts EXCEPT ![v] = [accounts[v] EXCEPT !.verified = "yes"]]
    BY <2>1 DEF Verify
  <2>4. [accounts[v] EXCEPT !.verified = "yes"].verified = "yes"
    BY <2>2 DEF Account
  <2> DEFINE account == [accounts[v] EXCEPT !.verified = "yes"]
  <2>5. accounts' = [accounts EXCEPT ![v] = account] /\ account.verified = "yes"
    BY <2>3, <2>4
  <2> HIDE DEF v, account
  <2>6. accounts'[u].verified = "yes"
    BY <2>2, <2>5 DEF TypeInv, AuthTypeOK
  <2> QED BY <2>6
<1>4. ASSUME NEW r \in Slots, NEW v \in Users, Register(r, v)
      PROVE  FALSE
  <2>1. u # v /\ accounts' = [accounts EXCEPT ![v] = [password |-> 0, verified |-> "no", grace |-> TRUE]]
    BY <1>4 DEF Register
  <2> QED BY <2>1 DEF TypeInv, AuthTypeOK
<1>5. CASE \E r \in Slots :
             \/ \E v \in Users : Login(r, v)
             \/ GreetingLink(r) \/ StoreToken(r) \/ Rotate(r)
             \/ \E token \in tokens : Refresh(r, token)
             \/ \E v \in Users, kind \in Kinds : Ask(r, v, kind)
             \/ DropLinks(r) \/ MailLink(r) \/ MarkLink(r) \/ ReadAccount(r)
             \/ \E link \in links : UseLink(r, link)
             \/ \E v \in Users, op \in {"profile", "new password"} : EditAccount(r, v, op)
             \/ EndSessions(r) \/ Abandon(r)
  BY <1>0, <1>5 DEF Login, GreetingLink, StoreToken, Rotate, Refresh, Ask, DropLinks, MailLink,
                    MarkLink, ReadAccount, UseLink, EditAccount, EndSessions, Abandon
<1>6. CASE \/ \E v \in Users : LogoutAll(v)
           \/ \E token \in tokens : Logout(token)
           \/ \E link \in links : ExpireLink(link)
           \/ UNCHANGED vars
  BY <1>0, <1>6 DEF LogoutAll, Logout, ExpireLink, vars
<1> QED BY <1>1, <1>2, <1>3, <1>4, <1>5, <1>6 DEF Next, Enter, Recover

\* A verification is taken back by no handler but one that saves an account it
\* read before the field was there.
THEOREM VerificationStays == Spec => VerifiedStays
<1> QED BY TypeHolds, VerifiedStep, PTL DEF Spec, VerifiedStays

-----------------------------------------------------------------------------
(***************************************************************************)
(* A request that has still to store a link has its id already, and no two *)
(* of them, or of the links, have the same.                                *)
(***************************************************************************)
Creates(request) ==
  \/ request.op \in {"greet", "link", "drop", "mail"}
  \/ request.op = "store" /\ request.new

IdOf(request) == IF request.op \in {"drop", "mail"} THEN request.id ELSE request.token.id

Creating == {r \in Slots : Creates(requests[r])}

KeyInv ==
  /\ \A link \in links : link.id < served
  /\ \A r \in Creating : IdOf(requests[r]) < served
  /\ \A one, other \in links : one.id = other.id => one = other
  /\ \A r, s \in Creating : IdOf(requests[r]) = IdOf(requests[s]) => r = s
  /\ \A r \in Creating, link \in links : IdOf(requests[r]) # link.id

(***************************************************************************)
(* The requests that mail a link next, whatever else they do first; those  *)
(* that greet an old account; and those that mark a link.                  *)
(***************************************************************************)
Mails(request, u, kind) ==
  \/ request.op = "mail" /\ request.user = u /\ request.kind = kind
  \/ request.op = "store" /\ request.new /\ request.token.user = u /\ kind = "verify"

Greets(request, u, kind) ==
  request.op \in {"greet", "link"} /\ request.token.user = u /\ kind = "verify"

Marks(request, id) == request.op = "mark" /\ request.link.id = id

Mailing(u, kind) == {r \in Slots : Mails(requests[r], u, kind)}

Greeting(u, kind) == {r \in Slots : Greets(requests[r], u, kind)}

Marking(id) == {r \in Slots : Marks(requests[r], id)}

Unused(u, kind) == {link \in links : link.user = u /\ link.kind = kind /\ link.used = 0}

Graced(u) == accounts[u] # NoAccount /\ accounts[u].grace

(***************************************************************************)
(* Who mails a link has deleted the unused ones, so links and those who    *)
(* mail are no more than the slots.  Who greets has not; but after the     *)
(* first greeting nobody starts another.                                   *)
(***************************************************************************)
Fits(unused, mailing, greeting, graced, kind) ==
  /\ IsFiniteSet(unused)
  /\ Cardinality(unused) + Cardinality(mailing) + Cardinality(greeting)
       <= (IF kind = "verify" THEN 2 ELSE 1) * Cardinality(Slots)
  /\ ~graced => Cardinality(unused) + Cardinality(mailing) <= Cardinality(Slots)

RoomInv ==
  \A u \in Users, kind \in Kinds :
    Fits(Unused(u, kind), Mailing(u, kind), Greeting(u, kind), Graced(u), kind)

GraceInv == \A r \in Slots : requests[r].op = "link" => Graced(requests[r].token.user)

\* Who marks a link has found it unused.
MarkInv == \A link \in links : link.used + Cardinality(Marking(link.id)) <= Cardinality(Slots)

LinkInv == KeyInv /\ RoomInv /\ GraceInv /\ MarkInv

(***************************************************************************)
(* Sums of sizes of sets of slots.                                         *)
(***************************************************************************)
LEMMA Few ==
  ASSUME NEW some \in SUBSET Slots
  PROVE  /\ IsFiniteSet(some) /\ Cardinality(some) \in Nat
         /\ Cardinality(Slots) \in Nat /\ Cardinality(some) <= Cardinality(Slots)
BY AuthAssumption, FS_Subset, FS_CardinalityType

LEMMA Fewer ==
  ASSUME NEW all, IsFiniteSet(all), NEW some \in SUBSET all
  PROVE  /\ IsFiniteSet(some) /\ Cardinality(some) \in Nat
         /\ Cardinality(all) \in Nat /\ Cardinality(some) <= Cardinality(all)
BY FS_Subset, FS_CardinalityType

LEMMA Without ==
  ASSUME NEW some \in SUBSET Slots, NEW r \in some, NEW rest \in SUBSET (some \ {r})
  PROVE  Cardinality(rest) \in Nat /\ Cardinality(rest) <= Cardinality(some) - 1
<1>1. IsFiniteSet(some) /\ Cardinality(some) \in Nat
  BY Few
<1>2. IsFiniteSet(some \ {r}) /\ Cardinality(some \ {r}) = Cardinality(some) - 1
  BY <1>1, FS_RemoveElement
<1> QED BY <1>1, <1>2, Fewer

LEMMA OneMore ==
  ASSUME NEW all, IsFiniteSet(all), NEW x, NEW some \in SUBSET (all \cup {x})
  PROVE  /\ IsFiniteSet(some) /\ Cardinality(some) \in Nat /\ Cardinality(all) \in Nat
         /\ Cardinality(some) <= Cardinality(all) + 1
<1>1. Cardinality(all) \in Nat
  BY FS_CardinalityType
<1>2. /\ IsFiniteSet(all \cup {x})
      /\ \/ Cardinality(all \cup {x}) = Cardinality(all)
         \/ Cardinality(all \cup {x}) = Cardinality(all) + 1
  BY FS_AddElement
<1>3. Cardinality(all \cup {x}) <= Cardinality(all) + 1
  BY <1>1, <1>2
<1> QED BY <1>1, <1>2, <1>3, Fewer

LEMMA FitsStill ==
  ASSUME NEW unused, NEW mailing \in SUBSET Slots, NEW greeting \in SUBSET Slots,
         NEW graced \in BOOLEAN, NEW later \in BOOLEAN, NEW kind \in Kinds,
         Fits(unused, mailing, greeting, graced, kind),
         NEW unused2 \in SUBSET unused, NEW mailing2 \in SUBSET mailing,
         NEW greeting2 \in SUBSET greeting, graced => later
  PROVE  Fits(unused2, mailing2, greeting2, later, kind)
<1>1. IsFiniteSet(unused)
  BY DEF Fits
<1>2. /\ IsFiniteSet(unused2) /\ Cardinality(unused2) \in Nat /\ Cardinality(unused) \in Nat
      /\ Cardinality(unused2) <= Cardinality(unused)
  BY <1>1, Fewer
<1>3. /\ IsFiniteSet(mailing) /\ Cardinality(mailing) \in Nat /\ Cardinality(Slots) \in Nat
      /\ IsFiniteSet(greeting) /\ Cardinality(greeting) \in Nat
  BY Few
<1>4. Cardinality(mailing2) \in Nat /\ Cardinality(mailing2) <= Cardinality(mailing)
  BY <1>3, Fewer
<1>5. Cardinality(greeting2) \in Nat /\ Cardinality(greeting2) <= Cardinality(greeting)
  BY <1>3, Fewer
<1> QED BY <1>2, <1>3, <1>4, <1>5 DEF Fits

LEMMA FitsNone ==
  ASSUME NEW mailing \in SUBSET Slots, NEW greeting \in SUBSET Slots,
         NEW graced \in BOOLEAN, NEW kind \in Kinds, kind = "reset" => greeting = {}
  PROVE  Fits({}, mailing, greeting, graced, kind)
<1>1. IsFiniteSet({}) /\ Cardinality({}) = 0
  BY FS_EmptySet
<1>2. /\ Cardinality(mailing) \in Nat /\ Cardinality(mailing) <= Cardinality(Slots)
      /\ Cardinality(greeting) \in Nat /\ Cardinality(greeting) <= Cardinality(Slots)
      /\ Cardinality(Slots) \in Nat
  BY Few
<1>3. kind # "verify" => Cardinality(greeting) = 0
  BY <1>1 DEF Kinds
<1> QED BY <1>1, <1>2, <1>3 DEF Fits

LEMMA FitsMailed ==
  ASSUME NEW unused, NEW mailing \in SUBSET Slots, NEW greeting \in SUBSET Slots,
         NEW graced, NEW kind \in Kinds,
         Fits(unused, mailing, greeting, graced, kind),
         NEW link, NEW unused2 \in SUBSET (unused \cup {link}),
         NEW r \in mailing, NEW mailing2 \in SUBSET (mailing \ {r}),
         NEW greeting2 \in SUBSET greeting
  PROVE  Fits(unused2, mailing2, greeting2, graced, kind)
<1>1. /\ IsFiniteSet(unused2) /\ Cardinality(unused2) \in Nat /\ Cardinality(unused) \in Nat
      /\ Cardinality(unused2) <= Cardinality(unused) + 1
  BY OneMore DEF Fits
<1>2. /\ Cardinality(mailing) \in Nat /\ Cardinality(Slots) \in Nat
      /\ IsFiniteSet(greeting) /\ Cardinality(greeting) \in Nat
  BY Few
<1>3. Cardinality(mailing2) \in Nat /\ Cardinality(mailing2) <= Cardinality(mailing) - 1
  BY Without
<1>4. Cardinality(greeting2) \in Nat /\ Cardinality(greeting2) <= Cardinality(greeting)
  BY <1>2, Fewer
<1> QED BY <1>1, <1>2, <1>3, <1>4 DEF Fits

LEMMA FitsGreeted ==
  ASSUME NEW unused, NEW mailing \in SUBSET Slots, NEW greeting \in SUBSET Slots,
         NEW kind \in Kinds, Fits(unused, mailing, greeting, TRUE, kind),
         NEW link, NEW unused2 \in SUBSET (unused \cup {link}),
         NEW r \in greeting, NEW greeting2 \in SUBSET (greeting \ {r}),
         NEW mailing2 \in SUBSET mailing
  PROVE  Fits(unused2, mailing2, greeting2, TRUE, kind)
<1>1. /\ IsFiniteSet(unused2) /\ Cardinality(unused2) \in Nat /\ Cardinality(unused) \in Nat
      /\ Cardinality(unused2) <= Cardinality(unused) + 1
  BY OneMore DEF Fits
<1>2. /\ Cardinality(greeting) \in Nat /\ Cardinality(Slots) \in Nat
      /\ IsFiniteSet(mailing) /\ Cardinality(mailing) \in Nat
  BY Few
<1>3. Cardinality(greeting2) \in Nat /\ Cardinality(greeting2) <= Cardinality(greeting) - 1
  BY Without
<1>4. Cardinality(mailing2) \in Nat /\ Cardinality(mailing2) <= Cardinality(mailing)
  BY <1>2, Fewer
<1> QED BY <1>1, <1>2, <1>3, <1>4 DEF Fits

LEMMA FitsGreeting ==
  ASSUME NEW unused, NEW mailing \in SUBSET Slots, NEW greeting \in SUBSET Slots,
         Fits(unused, mailing, greeting, FALSE, "verify"),
         NEW unused2 \in SUBSET unused, NEW mailing2 \in SUBSET mailing,
         NEW greeting2 \in SUBSET Slots
  PROVE  Fits(unused2, mailing2, greeting2, FALSE, "verify")
<1>1. IsFiniteSet(unused) /\ IsFiniteSet(mailing)
  BY Few DEF Fits
<1>2. /\ IsFiniteSet(unused2) /\ Cardinality(unused2) \in Nat /\ Cardinality(unused) \in Nat
      /\ Cardinality(unused2) <= Cardinality(unused)
  BY <1>1, Fewer
<1>3. /\ Cardinality(mailing2) \in Nat /\ Cardinality(mailing) \in Nat
      /\ Cardinality(mailing2) <= Cardinality(mailing)
  BY <1>1, Fewer
<1>4. /\ Cardinality(greeting2) \in Nat /\ Cardinality(greeting2) <= Cardinality(Slots)
      /\ Cardinality(Slots) \in Nat
  BY Few
<1>5. Cardinality(unused) + Cardinality(mailing) <= Cardinality(Slots)
  BY DEF Fits
<1> QED BY <1>2, <1>3, <1>4, <1>5 DEF Fits

-----------------------------------------------------------------------------
\* What is asked of requests grows by none of its parts.
Calm(before, after) ==
  /\ \A u \in Users, kind \in Kinds :
       /\ Mails(after, u, kind) => Mails(before, u, kind)
       /\ Greets(after, u, kind) => Greets(before, u, kind)
  /\ \A id \in Nat : Marks(after, id) => Marks(before, id)
  /\ Creates(after) => Creates(before) /\ IdOf(after) = IdOf(before)

LEMMA CalmSame == ASSUME NEW request PROVE Calm(request, request)
BY DEF Calm

LEMMA CalmRest ==
  ASSUME NEW before, NEW after,
         after.op \notin {"greet", "link", "drop", "mail", "store", "mark"}
  PROVE  Calm(before, after)
BY DEF Calm, Mails, Greets, Marks, Creates

LEMMA CalmIdle == ASSUME NEW before PROVE Calm(before, Idle) /\ Idle.op = "idle"
<1>1. Idle.op = "idle"
  BY DEF Idle
<1> QED BY <1>1, CalmRest

LEMMA CalmToken ==
  ASSUME NEW request \in Request, request.op \in StoringOps, NEW token \in Token,
         token.id = request.token.id, token.user = request.token.user
  PROVE  /\ Calm(request, [request EXCEPT !.token = token])
         /\ [request EXCEPT !.token = token].op = request.op
         /\ [request EXCEPT !.token = token].token = token
<1> DEFINE after == [request EXCEPT !.token = token]
<1>1. after.op = request.op /\ after.token = token
  BY TokenSwap
<1>2. request.op = "store" => after.new = request.new
  <2> SUFFICES ASSUME request.op = "store" PROVE after.new = request.new
    OBVIOUS
  <2>1. request \in [op : {"store"}, token : Token, new : BOOLEAN]
    BY Parts
  <2> QED BY <2>1
<1> HIDE DEF after
<1>3. Calm(request, after)
  BY <1>1, <1>2 DEF Calm, Mails, Greets, Marks, Creates, IdOf, StoringOps
<1> QED BY <1>1, <1>3 DEF after

LEMMA CreatingIds ==
  ASSUME TypeInv, NEW r \in Creating
  PROVE  r \in Slots /\ IdOf(requests[r]) \in Nat
<1>1. r \in Slots /\ requests[r] \in Request
  BY DEF Creating, TypeInv, AuthTypeOK
<1>2. CASE requests[r].op \in {"drop", "mail"}
  BY <1>1, <1>2, KindParts DEF IdOf
<1>3. CASE requests[r].op \notin {"drop", "mail"}
  <2>1. requests[r].op \in StoringOps
    BY <1>3 DEF Creating, Creates, StoringOps
  <2>2. requests[r].token \in Token
    BY <1>1, <2>1, StoringParts
  <2> QED BY <1>1, <1>3, <2>2 DEF IdOf, Token
<1> QED BY <1>2, <1>3

LEMMA KeyStep ==
  ASSUME TypeInv, KeyInv, NEW r,
         \A s \in Slots \ {r} : Calm(requests[s], requests'[s]),
         \/ links' \subseteq links
         \/ /\ r \in Creating /\ ~Creates(requests'[r])
            /\ \E link : link.id = IdOf(requests[r]) /\ links' \subseteq links \cup {link},
         r \in Slots /\ Creates(requests'[r]) =>
           \/ Creates(requests[r]) /\ IdOf(requests'[r]) = IdOf(requests[r])
           \/ IdOf(requests'[r]) = served /\ served' = served + 1,
         served' = served \/ served' = served + 1
  PROVE  KeyInv'
<1>1. served \in Nat
  BY AuthAssumption DEF TypeInv, AuthTypeOK
<1>2. \A link \in links : link.id \in Nat
  BY DEF TypeInv, AuthTypeOK, Link
<1>3. \A s \in Creating : IdOf(requests[s]) \in Nat
  BY CreatingIds
<1>4. ASSUME NEW s \in Creating'
      PROVE  /\ s \in Slots
             /\ \/ s \in Creating /\ IdOf(requests'[s]) = IdOf(requests[s])
                \/ s = r /\ IdOf(requests'[s]) = served /\ served' = served + 1
  BY DEF Creating, Calm
<1>5. ASSUME NEW link \in links'
      PROVE  \/ link \in links
             \/ /\ r \in Creating /\ r \notin Creating' /\ link.id = IdOf(requests[r])
                /\ links' \subseteq links \cup {link}
  BY DEF Creating
<1>6. \A link \in links' : link.id < served'
  BY <1>1, <1>2, <1>3, <1>5 DEF KeyInv
<1>7. \A s \in Creating' : IdOf(requests'[s]) < served'
  BY <1>1, <1>3, <1>4 DEF KeyInv
<1>8. \A one, other \in links' : one.id = other.id => one = other
  BY <1>2, <1>3, <1>5 DEF KeyInv
<1>9. \A s, t \in Creating' : IdOf(requests'[s]) = IdOf(requests'[t]) => s = t
  BY <1>1, <1>3, <1>4 DEF KeyInv
<1>10. \A s \in Creating', link \in links' : IdOf(requests'[s]) # link.id
  BY <1>1, <1>2, <1>3, <1>4, <1>5 DEF KeyInv
<1> QED BY <1>6, <1>7, <1>8, <1>9, <1>10 DEF KeyInv, IdOf

LEMMA GraceStep ==
  ASSUME TypeInv', GraceInv, \A u \in Users : Graced(u) => Graced(u)',
         \A s \in Slots : requests'[s].op = "link" =>
           \/ requests[s].op = "link" /\ requests'[s].token.user = requests[s].token.user
           \/ \A u \in Users : u = requests'[s].token.user => Graced(u)'
  PROVE  GraceInv'
<1>1. ASSUME NEW s \in Slots, requests'[s].op = "link"
      PROVE  accounts'[requests'[s].token.user] # NoAccount /\ accounts'[requests'[s].token.user].grace
  <2>1. requests'[s] \in Request
    BY DEF TypeInv, AuthTypeOK
  <2>2. requests'[s].token.user \in Users
    BY <1>1, <2>1, Parts DEF StoringOps, Token
  <2>3. CASE requests[s].op = "link" /\ requests'[s].token.user = requests[s].token.user
    BY <2>2, <2>3 DEF GraceInv, Graced
  <2>4. CASE \A u \in Users : u = requests'[s].token.user => Graced(u)'
    BY <2>2, <2>4 DEF Graced
  <2> QED BY <1>1, <2>3, <2>4
<1> QED BY <1>1 DEF GraceInv, Graced

LEMMA MarkStep ==
  ASSUME TypeInv, TypeInv', MarkInv,
         \A link \in links' :
           \/ link.used = 0
           \/ link \in links /\ Marking(link.id)' \subseteq Marking(link.id)
           \/ \E old \in links, r \in Slots :
                /\ link = [old EXCEPT !.used = @ + 1] /\ r \in Marking(old.id)
                /\ Marking(link.id)' \subseteq Marking(old.id) \ {r}
  PROVE  MarkInv'
<1> SUFFICES ASSUME NEW link \in links'
             PROVE  link.used + Cardinality(Marking(link.id)') <= Cardinality(Slots)
  BY DEF MarkInv, Marking
<1>1. /\ Cardinality(Marking(link.id)') \in Nat /\ Cardinality(Slots) \in Nat
      /\ Cardinality(Marking(link.id)') <= Cardinality(Slots)
  <2>1. Marking(link.id)' \in SUBSET Slots
    BY DEF Marking
  <2> QED BY <2>1, Few
<1>2. CASE link.used = 0
  BY <1>1, <1>2
<1>3. CASE link \in links /\ Marking(link.id)' \subseteq Marking(link.id)
  <2>1. link.used \in Nat /\ link.used + Cardinality(Marking(link.id)) <= Cardinality(Slots)
    BY <1>3 DEF MarkInv, TypeInv, AuthTypeOK, Link
  <2>2. Marking(link.id) \in SUBSET Slots
    BY DEF Marking
  <2>3. Cardinality(Marking(link.id)) \in Nat /\ IsFiniteSet(Marking(link.id))
    BY <2>2, Few
  <2>4. Cardinality(Marking(link.id)') <= Cardinality(Marking(link.id))
    BY <1>3, <2>3, Fewer
  <2> QED BY <1>1, <2>1, <2>3, <2>4
<1>4. ASSUME NEW old \in links, NEW r \in Slots,
             link = [old EXCEPT !.used = @ + 1], r \in Marking(old.id),
             Marking(link.id)' \subseteq Marking(old.id) \ {r}
      PROVE  link.used + Cardinality(Marking(link.id)') <= Cardinality(Slots)
  <2>1. old.used \in Nat /\ old.used + Cardinality(Marking(old.id)) <= Cardinality(Slots)
    BY DEF MarkInv, TypeInv, AuthTypeOK, Link
  <2>2. link.used = old.used + 1
    BY <1>4 DEF TypeInv, AuthTypeOK, Link
  <2>3. Marking(old.id) \in SUBSET Slots
    BY DEF Marking
  <2>4. Cardinality(Marking(old.id)) \in Nat
    BY <2>3, Few
  <2>5. Cardinality(Marking(link.id)') <= Cardinality(Marking(old.id)) - 1
    BY <1>4, <2>3, Without
  <2> QED BY <1>1, <2>1, <2>2, <2>4, <2>5
<1> QED BY <1>2, <1>3, <1>4

LEMMA SetsOfSlots ==
  ASSUME NEW u, NEW kind
  PROVE  /\ Mailing(u, kind) \in SUBSET Slots /\ Greeting(u, kind) \in SUBSET Slots
         /\ Mailing(u, kind)' \in SUBSET Slots /\ Greeting(u, kind)' \in SUBSET Slots
BY DEF Mailing, Greeting

LEMMA GracedBoolean ==
  ASSUME TypeInv, TypeInv', NEW u \in Users
  PROVE  Graced(u) \in BOOLEAN /\ Graced(u)' \in BOOLEAN
BY DEF Graced, TypeInv, AuthTypeOK, Account

LEMMA RoomStill ==
  ASSUME TypeInv, TypeInv', RoomInv, NEW u \in Users, NEW kind \in Kinds,
         Mailing(u, kind)' \subseteq Mailing(u, kind),
         Greeting(u, kind)' \subseteq Greeting(u, kind),
         Unused(u, kind)' \subseteq Unused(u, kind), Graced(u) => Graced(u)'
  PROVE  Fits(Unused(u, kind)', Mailing(u, kind)', Greeting(u, kind)', Graced(u)', kind)
<1>1. Fits(Unused(u, kind), Mailing(u, kind), Greeting(u, kind), Graced(u), kind)
  BY DEF RoomInv
<1> QED BY <1>1, SetsOfSlots, GracedBoolean, FitsStill

\* A step that asks nothing new of any request.
LEMMA CalmStep ==
  ASSUME TypeInv, TypeInv', LinkInv, \A s \in Slots : Calm(requests[s], requests'[s]),
         \A s \in Slots : requests'[s].op = "link" =>
           \/ requests[s].op = "link" /\ requests'[s].token.user = requests[s].token.user
           \/ \A u \in Users : u = requests'[s].token.user => Graced(u)',
         \A u \in Users : Graced(u) => Graced(u)',
         links' \subseteq links, served' = served \/ served' = served + 1
  PROVE  LinkInv'
<1>1. KeyInv'
  <2>1. \A r \in Slots : Creates(requests'[r]) =>
          Creates(requests[r]) /\ IdOf(requests'[r]) = IdOf(requests[r])
    BY DEF Calm
  <2> QED BY <2>1, KeyStep DEF LinkInv
<1>2. GraceInv'
  BY GraceStep DEF LinkInv
<1>3. MarkInv'
  <2>1. \A link \in links' : link \in links /\ Marking(link.id)' \subseteq Marking(link.id)
    BY DEF Marking, Calm, TypeInv, AuthTypeOK, Link
  <2> QED BY <2>1, MarkStep DEF LinkInv
<1>4. RoomInv'
  <2>1. ASSUME NEW u \in Users, NEW kind \in Kinds
        PROVE  Fits(Unused(u, kind)', Mailing(u, kind)', Greeting(u, kind)', Graced(u)', kind)
    <3>1. /\ Mailing(u, kind)' \subseteq Mailing(u, kind)
          /\ Greeting(u, kind)' \subseteq Greeting(u, kind)
          /\ Unused(u, kind)' \subseteq Unused(u, kind)
      BY DEF Mailing, Greeting, Unused, Calm
    <3> QED BY <3>1, RoomStill DEF LinkInv
  <2> QED BY <2>1 DEF RoomInv
<1> QED BY <1>1, <1>2, <1>3, <1>4 DEF LinkInv

LEMMA CalmBecome ==
  ASSUME TypeInv, TypeInv', LinkInv, NEW r \in Slots, NEW request \in Request,
         Become(r, request), Calm(requests[r], request),
         request.op = "link" => \A u \in Users : u = request.token.user => Graced(u)',
         \A u \in Users : Graced(u) => Graced(u)',
         links' \subseteq links, served' = served \/ served' = served + 1
  PROVE  LinkInv'
<1>1. requests'[r] = request /\ \A s \in Slots : s # r => requests'[s] = requests[s]
  BY Becomes
<1>2. \A s \in Slots : Calm(requests[s], requests'[s])
  BY <1>1, CalmSame
<1>3. \A s \in Slots : requests'[s].op = "link" =>
        \/ requests[s].op = "link" /\ requests'[s].token.user = requests[s].token.user
        \/ \A u \in Users : u = requests'[s].token.user => Graced(u)'
  BY <1>1
<1> QED BY <1>2, <1>3, CalmStep

\* All but the count of what is mailed, in a step of r that marks no link.
LEMMA OtherStep ==
  ASSUME TypeInv, TypeInv', LinkInv, NEW r \in Slots,
         \A s \in Slots : s # r => requests'[s] = requests[s],
         requests'[r].op \notin {"link", "mark"},
         Creates(requests'[r]) =>
           \/ Creates(requests[r]) /\ IdOf(requests'[r]) = IdOf(requests[r])
           \/ IdOf(requests'[r]) = served /\ served' = served + 1,
         \A u \in Users : Graced(u) => Graced(u)',
         \/ links' \subseteq links
         \/ /\ Creates(requests[r]) /\ ~Creates(requests'[r])
            /\ \E link : /\ link.id = IdOf(requests[r]) /\ link.used = 0
                         /\ links' \subseteq links \cup {link},
         served' = served \/ served' = served + 1
  PROVE  KeyInv' /\ GraceInv' /\ MarkInv'
<1>1. KeyInv'
  <2>1. \A s \in Slots \ {r} : Calm(requests[s], requests'[s])
    BY CalmSame
  <2>2. \/ links' \subseteq links
        \/ /\ r \in Creating /\ ~Creates(requests'[r])
           /\ \E link : link.id = IdOf(requests[r]) /\ links' \subseteq links \cup {link}
    BY DEF Creating
  <2> QED BY <2>1, <2>2, KeyStep DEF LinkInv
<1>2. GraceInv'
  <2>1. \A s \in Slots : requests'[s].op = "link" =>
          requests[s].op = "link" /\ requests'[s].token.user = requests[s].token.user
    OBVIOUS
  <2> QED BY <2>1, GraceStep DEF LinkInv
<1>3. MarkInv'
  <2>1. \A link \in links' : link.used = 0 \/ link \in links
    OBVIOUS
  <2>2. \A id : Marking(id)' \subseteq Marking(id)
    BY DEF Marking, Marks
  <2> QED BY <2>1, <2>2, MarkStep DEF LinkInv
<1> QED BY <1>1, <1>2, <1>3

LEMMA NobodysSlots ==
  ASSUME TypeInv, NEW u \in Users, accounts[u] = NoAccount, NEW kind
  PROVE  Greeting(u, kind) = {} /\ Unused(u, kind) = {}
<1>1. ASSUME NEW s \in Greeting(u, kind)
      PROVE  FALSE
  <2>1. s \in Slots /\ requests[s].op \in StoringOps /\ requests[s].token.user = u
    BY DEF Greeting, Greets, StoringOps
  <2> QED BY <2>1, StoringParts
<1>2. Unused(u, kind) = {}
  BY DEF Unused, TypeInv, AuthTypeOK
<1> QED BY <1>1, <1>2

LEMMA RegisterLinks ==
  ASSUME TypeInv, TypeInv', LinkInv, NEW r \in Slots, NEW u \in Users, Register(r, u)
  PROVE  LinkInv'
<1>1. /\ requests'[r].op = "store" /\ requests'[r].new
      /\ requests'[r].token.id = served /\ requests'[r].token.user = u
      /\ \A s \in Slots : s # r => requests'[s] = requests[s]
      /\ served' = served + 1 /\ links' = links /\ accounts[u] = NoAccount
  BY DEF Register, Begin, Arrive, Become, NewToken, TypeInv, AuthTypeOK
<1>2. \A v \in Users : Graced(v) => Graced(v)'
  BY <1>1 DEF Register, Graced, TypeInv, AuthTypeOK
<1>3. KeyInv' /\ GraceInv' /\ MarkInv'
  <2>1. Creates(requests'[r]) /\ IdOf(requests'[r]) = served
    BY <1>1 DEF Creates, IdOf
  <2> QED BY <1>1, <1>2, <2>1, OtherStep
<1>4. ASSUME NEW v \in Users, NEW kind \in Kinds
      PROVE  Fits(Unused(v, kind)', Mailing(v, kind)', Greeting(v, kind)', Graced(v)', kind)
  <2>1. Greeting(v, kind)' \subseteq Greeting(v, kind) /\ Unused(v, kind)' = Unused(v, kind)
    BY <1>1 DEF Greeting, Greets, Unused
  <2>2. CASE v = u
    <3>1. Greeting(v, kind)' = {} /\ Unused(v, kind)' = {}
      BY <1>1, <2>1, <2>2, NobodysSlots
    <3> QED BY <3>1, SetsOfSlots, GracedBoolean, FitsNone
  <2>3. CASE v # u
    <3>1. Mailing(v, kind)' \subseteq Mailing(v, kind)
      BY <1>1, <2>3 DEF Mailing, Mails
    <3> QED BY <1>2, <2>1, <3>1, RoomStill DEF LinkInv
  <2> QED BY <2>2, <2>3
<1> QED BY <1>3, <1>4 DEF LinkInv, RoomInv

LEMMA LoginLinks ==
  ASSUME TypeInv, TypeInv', LinkInv, NEW r \in Slots, NEW u \in Users, Login(r, u)
  PROVE  LinkInv'
<1>1. /\ requests'[r].token.id = served /\ requests'[r].token.user = u
      /\ \/ requests'[r].op = "store" /\ ~requests'[r].new
         \/ requests'[r].op = "greet" /\ ~Graced(u) /\ ~Graced(u)'
      /\ \A s \in Slots : s # r => requests'[s] = requests[s]
      /\ served' = served + 1 /\ links' = links /\ accounts' = accounts
  BY DEF Login, Begin, Arrive, Become, NewToken, TypeInv, AuthTypeOK, Graced
<1>2. \A v \in Users : Graced(v) => Graced(v)'
  BY <1>1 DEF Graced
<1>3. KeyInv' /\ GraceInv' /\ MarkInv'
  <2>1. IdOf(requests'[r]) = served
    BY <1>1 DEF IdOf
  <2> QED BY <1>1, <1>2, <2>1, OtherStep
<1>4. ASSUME NEW v \in Users, NEW kind \in Kinds
      PROVE  Fits(Unused(v, kind)', Mailing(v, kind)', Greeting(v, kind)', Graced(v)', kind)
  <2>1. Mailing(v, kind)' \subseteq Mailing(v, kind) /\ Unused(v, kind)' \subseteq Unused(v, kind)
    BY <1>1 DEF Mailing, Mails, Unused
  <2>2. CASE requests'[r].op = "greet" /\ v = u /\ kind = "verify"
    <3>1. Graced(v) = FALSE /\ Graced(v)' = FALSE
      BY <1>1, <2>2
    <3>2. Fits(Unused(v, kind), Mailing(v, kind), Greeting(v, kind), FALSE, "verify")
      BY <2>2, <3>1 DEF LinkInv, RoomInv
    <3>3. Fits(Unused(v, kind)', Mailing(v, kind)', Greeting(v, kind)', FALSE, "verify")
      BY <2>1, <2>2, <3>2, SetsOfSlots, FitsGreeting
    <3> QED BY <2>2, <3>1, <3>3
  <2>3. CASE ~(requests'[r].op = "greet" /\ v = u /\ kind = "verify")
    <3>1. Greeting(v, kind)' \subseteq Greeting(v, kind)
      BY <1>1, <2>3 DEF Greeting, Greets
    <3> QED BY <1>2, <2>1, <3>1, RoomStill DEF LinkInv
  <2> QED BY <2>2, <2>3
<1> QED BY <1>3, <1>4 DEF LinkInv, RoomInv

LEMMA GreetingLinks ==
  ASSUME TypeInv, TypeInv', LinkInv, NEW r \in Slots, GreetingLink(r)
  PROVE  LinkInv'
<1> DEFINE token == requests[r].token
           link == NewLink(token.id, token.user, "verify")
<1>0. token \in Token /\ token.user \in Users
  BY StoringParts DEF GreetingLink, StoringOps
<1>1. /\ requests[r].op = "link"
      /\ requests'[r].op = "store" /\ ~requests'[r].new
      /\ \A s \in Slots : s # r => requests'[s] = requests[s]
      /\ served' = served /\ accounts' = accounts
      /\ links' \subseteq links \cup {link}
  BY DEF GreetingLink, Continue, Become, TypeInv, AuthTypeOK
<1>2. /\ link.id = token.id /\ link.user = token.user /\ link.kind = "verify" /\ link.used = 0
  BY DEF NewLink
<1> HIDE DEF link
<1>3. \A v \in Users : Graced(v) => Graced(v)'
  BY <1>1 DEF Graced
<1>4. KeyInv' /\ GraceInv' /\ MarkInv'
  <2>1. Creates(requests[r]) /\ ~Creates(requests'[r]) /\ link.id = IdOf(requests[r])
    BY <1>1, <1>2 DEF Creates, IdOf
  <2> QED BY <1>1, <1>2, <1>3, <2>1, OtherStep
<1>5. ASSUME NEW v \in Users, NEW kind \in Kinds
      PROVE  Fits(Unused(v, kind)', Mailing(v, kind)', Greeting(v, kind)', Graced(v)', kind)
  <2>1. Mailing(v, kind)' \subseteq Mailing(v, kind)
    BY <1>1 DEF Mailing, Mails
  <2>2. Greeting(v, kind)' \subseteq Greeting(v, kind) \ {r}
    BY <1>1 DEF Greeting, Greets
  <2>3. CASE v = token.user /\ kind = "verify"
    <3>1. Graced(v) = TRUE /\ Graced(v)' = TRUE
      BY <1>1, <1>3, <2>3, GracedBoolean DEF LinkInv, GraceInv
    <3>2. Fits(Unused(v, kind), Mailing(v, kind), Greeting(v, kind), TRUE, kind)
      BY <3>1 DEF LinkInv, RoomInv
    <3>3. r \in Greeting(v, kind) /\ Unused(v, kind)' \subseteq Unused(v, kind) \cup {link}
      BY <1>1, <2>3 DEF Greeting, Greets, Unused
    <3>4. Fits(Unused(v, kind)', Mailing(v, kind)', Greeting(v, kind)', TRUE, kind)
      <4>1. /\ Unused(v, kind)' \in SUBSET (Unused(v, kind) \cup {link})
            /\ Greeting(v, kind)' \in SUBSET (Greeting(v, kind) \ {r})
            /\ Mailing(v, kind)' \in SUBSET Mailing(v, kind)
        BY <2>1, <2>2, <3>3
      <4>2. Greeting(v, kind) \in SUBSET Slots /\ Mailing(v, kind) \in SUBSET Slots
        BY SetsOfSlots
      <4> QED BY ONLY <3>2, <3>3, <4>1, <4>2, kind \in Kinds, FitsGreeted
    <3> QED BY <3>1, <3>4
  <2>4. CASE ~(v = token.user /\ kind = "verify")
    <3>1. Unused(v, kind)' \subseteq Unused(v, kind)
      BY <1>1, <1>2, <2>4 DEF Unused
    <3> QED BY <1>3, <2>1, <2>2, <3>1, RoomStill DEF LinkInv
  <2> QED BY <2>3, <2>4
<1> QED BY <1>4, <1>5 DEF LinkInv, RoomInv

LEMMA AskLinks ==
  ASSUME TypeInv, TypeInv', LinkInv, NEW r \in Slots, NEW u \in Users, NEW kind \in Kinds,
         Ask(r, u, kind)
  PROVE  LinkInv'
<1>1. /\ requests'[r].op = "drop" /\ requests'[r].id = served
      /\ \A s \in Slots : s # r => requests'[s] = requests[s]
      /\ served' = served + 1 /\ links' = links /\ accounts' = accounts
  BY DEF Ask, Begin, Arrive, Become, TypeInv, AuthTypeOK
<1>2. \A v \in Users : Graced(v) => Graced(v)'
  BY <1>1 DEF Graced
<1>3. KeyInv' /\ GraceInv' /\ MarkInv'
  <2>1. IdOf(requests'[r]) = served
    BY <1>1 DEF IdOf
  <2> QED BY <1>1, <1>2, <2>1, OtherStep
<1>4. ASSUME NEW v \in Users, NEW k \in Kinds
      PROVE  Fits(Unused(v, k)', Mailing(v, k)', Greeting(v, k)', Graced(v)', k)
  <2>1. /\ Mailing(v, k)' \subseteq Mailing(v, k) /\ Greeting(v, k)' \subseteq Greeting(v, k)
        /\ Unused(v, k)' \subseteq Unused(v, k)
    BY <1>1 DEF Mailing, Mails, Greeting, Greets, Unused
  <2> QED BY <1>2, <2>1, RoomStill DEF LinkInv
<1> QED BY <1>3, <1>4 DEF LinkInv, RoomInv

LEMMA DropLinksStep ==
  ASSUME TypeInv, TypeInv', LinkInv, NEW r \in Slots, DropLinks(r)
  PROVE  LinkInv'
<1> DEFINE u == requests[r].user
           kind == requests[r].kind
<1>1. /\ requests[r].op = "drop" /\ requests'[r].op = "mail"
      /\ requests'[r].user = u /\ requests'[r].kind = kind /\ requests'[r].id = requests[r].id
      /\ \A s \in Slots : s # r => requests'[s] = requests[s]
      /\ served' = served /\ accounts' = accounts
      /\ links' = links \ Dropped(requests[r])
  <2>1. requests[r] \in [op : {"drop", "mail"}, id : Nat, user : Users, kind : Kinds]
    BY Parts DEF DropLinks, TypeInv, AuthTypeOK
  <2> QED BY <2>1 DEF DropLinks, Proceed, Continue, Become, TypeInv, AuthTypeOK
<1>2. u \in Users /\ kind \in Kinds
  BY <1>1, KindParts
<1>3. \A v \in Users : Graced(v) => Graced(v)'
  BY <1>1 DEF Graced
<1>4. KeyInv' /\ GraceInv' /\ MarkInv'
  <2>1. Creates(requests[r]) /\ IdOf(requests'[r]) = IdOf(requests[r])
    BY <1>1 DEF Creates, IdOf
  <2> QED BY <1>1, <1>3, <2>1, OtherStep
<1>5. ASSUME NEW v \in Users, NEW k \in Kinds
      PROVE  Fits(Unused(v, k)', Mailing(v, k)', Greeting(v, k)', Graced(v)', k)
  <2>1. Greeting(v, k)' \subseteq Greeting(v, k) /\ Unused(v, k)' \subseteq Unused(v, k)
    BY <1>1 DEF Greeting, Greets, Unused
  <2>2. CASE v = u /\ k = kind
    <3>1. Unused(v, k)' = {}
      BY <1>1, <2>2 DEF Unused, Dropped
    <3>2. k = "reset" => Greeting(v, k)' = {}
      BY DEF Greeting, Greets
    <3> QED BY <3>1, <3>2, SetsOfSlots, GracedBoolean, FitsNone
  <2>3. CASE ~(v = u /\ k = kind)
    <3>1. Mailing(v, k)' \subseteq Mailing(v, k)
      BY <1>1, <2>3 DEF Mailing, Mails
    <3> QED BY <1>3, <2>1, <3>1, RoomStill DEF LinkInv
  <2> QED BY <2>2, <2>3
<1> QED BY <1>4, <1>5 DEF LinkInv, RoomInv

LEMMA MailLinks ==
  ASSUME TypeInv, TypeInv', LinkInv, NEW r \in Slots, MailLink(r)
  PROVE  LinkInv'
<1> DEFINE u == requests[r].user
           kind == requests[r].kind
           link == NewLink(requests[r].id, u, kind)
<1>0. Idle.op = "idle"
  BY DEF Idle
<1>1. /\ requests[r].op = "mail" /\ requests'[r] = Idle
      /\ \A s \in Slots : s # r => requests'[s] = requests[s]
      /\ served' = served /\ accounts' = accounts /\ links' = links \cup {link}
  BY DEF MailLink, End, Continue, Become, TypeInv, AuthTypeOK
<1>2. link.id = requests[r].id /\ link.user = u /\ link.kind = kind /\ link.used = 0
  BY DEF NewLink
<1> HIDE DEF link
<1>3. \A v \in Users : Graced(v) => Graced(v)'
  BY <1>1 DEF Graced
<1>4. KeyInv' /\ GraceInv' /\ MarkInv'
  <2>1. Creates(requests[r]) /\ ~Creates(requests'[r]) /\ link.id = IdOf(requests[r])
    BY <1>0, <1>1, <1>2 DEF Creates, IdOf
  <2> QED BY <1>0, <1>1, <1>2, <1>3, <2>1, OtherStep
<1>5. ASSUME NEW v \in Users, NEW k \in Kinds
      PROVE  Fits(Unused(v, k)', Mailing(v, k)', Greeting(v, k)', Graced(v)', k)
  <2>1. Mailing(v, k)' \subseteq Mailing(v, k) \ {r}
    BY <1>0, <1>1 DEF Mailing, Mails
  <2>2. Greeting(v, k)' \subseteq Greeting(v, k)
    BY <1>0, <1>1 DEF Greeting, Greets
  <2>3. CASE v = u /\ k = kind
    <3>1. r \in Mailing(v, k)
      BY <1>1, <2>3 DEF Mailing, Mails
    <3>6. Graced(v)' = Graced(v)
      BY <1>1 DEF Graced
    <3>2. /\ Unused(v, k)' \in SUBSET (Unused(v, k) \cup {link})
          /\ Mailing(v, k)' \in SUBSET (Mailing(v, k) \ {r})
          /\ Greeting(v, k)' \in SUBSET Greeting(v, k)
      BY <1>1, <2>1, <2>2 DEF Unused
    <3>3. Greeting(v, k) \in SUBSET Slots /\ Mailing(v, k) \in SUBSET Slots
      BY SetsOfSlots
    <3>4. Fits(Unused(v, k), Mailing(v, k), Greeting(v, k), Graced(v), k)
      BY DEF LinkInv, RoomInv
    <3>5. Fits(Unused(v, k)', Mailing(v, k)', Greeting(v, k)', Graced(v), k)
      BY ONLY <3>1, <3>2, <3>3, <3>4, k \in Kinds, FitsMailed
    <3> QED BY <3>5, <3>6
  <2>4. CASE ~(v = u /\ k = kind)
    <3>1. Unused(v, k)' \subseteq Unused(v, k)
      BY <1>1, <1>2, <2>4 DEF Unused
    <3> QED BY <1>3, <2>1, <2>2, <3>1, RoomStill DEF LinkInv
  <2> QED BY <2>3, <2>4
<1> QED BY <1>4, <1>5 DEF LinkInv, RoomInv

LEMMA UseLinks ==
  ASSUME TypeInv, TypeInv', LinkInv, NEW r \in Slots, NEW link \in links, UseLink(r, link)
  PROVE  LinkInv'
<1>1. /\ requests'[r].op = "mark" /\ requests'[r].link = link /\ link.used = 0
      /\ \A s \in Slots : s # r => requests'[s] = requests[s]
      /\ served' = served + 1 /\ links' = links /\ accounts' = accounts
  BY DEF UseLink, Begin, Arrive, Become, TypeInv, AuthTypeOK
<1>2. \A v \in Users : Graced(v) => Graced(v)'
  BY <1>1 DEF Graced
<1>3. KeyInv'
  <2>1. ~Creates(requests'[r])
    BY <1>1 DEF Creates
  <2>2. \A s \in Slots \ {r} : Calm(requests[s], requests'[s])
    BY <1>1, CalmSame
  <2> QED BY <1>1, <2>1, <2>2, KeyStep DEF LinkInv
<1>4. GraceInv'
  <2>1. \A s \in Slots : requests'[s].op = "link" =>
          requests[s].op = "link" /\ requests'[s].token.user = requests[s].token.user
    BY <1>1
  <2> QED BY <1>2, <2>1, GraceStep DEF LinkInv
<1>5. MarkInv'
  <2>1. ASSUME NEW other \in links'
        PROVE  other.used = 0 \/ (other \in links /\ Marking(other.id)' \subseteq Marking(other.id))
    <3>1. CASE other.id = link.id
      BY <1>1, <3>1 DEF LinkInv, KeyInv
    <3>2. CASE other.id # link.id
      BY <1>1, <3>2 DEF Marking, Marks
    <3> QED BY <3>1, <3>2
  <2> QED BY <2>1, MarkStep DEF LinkInv
<1>6. ASSUME NEW v \in Users, NEW k \in Kinds
      PROVE  Fits(Unused(v, k)', Mailing(v, k)', Greeting(v, k)', Graced(v)', k)
  <2>1. /\ Mailing(v, k)' \subseteq Mailing(v, k) /\ Greeting(v, k)' \subseteq Greeting(v, k)
        /\ Unused(v, k)' \subseteq Unused(v, k)
    BY <1>1 DEF Mailing, Mails, Greeting, Greets, Unused
  <2> QED BY <1>2, <2>1, RoomStill DEF LinkInv
<1> QED BY <1>3, <1>4, <1>5, <1>6 DEF LinkInv, RoomInv

LEMMA MarkLinks ==
  ASSUME TypeInv, TypeInv', LinkInv, NEW r \in Slots, MarkLink(r)
  PROVE  LinkInv'
<1>1. PICK old \in links :
        /\ old.id = requests[r].link.id
        /\ links' = (links \ {old}) \cup {[old EXCEPT !.used = @ + 1]}
  BY DEF MarkLink
<1> DEFINE link == [old EXCEPT !.used = @ + 1]
<1>2. /\ requests[r].op = "mark" /\ requests'[r].op \in {"verify", "account"}
      /\ \A s \in Slots : s # r => requests'[s] = requests[s]
      /\ served' = served /\ accounts' = accounts
  <2>1. requests[r] \in [op : {"mark", "verify", "account"}, link : Link]
    BY LinkParts DEF MarkLink
  <2> QED BY <2>1 DEF MarkLink, Proceed, Continue, Become, TypeInv, AuthTypeOK
<1>3. /\ link.id = old.id /\ link.used = old.used + 1 /\ old.used \in Nat
      /\ links' = (links \ {old}) \cup {link}
  BY <1>1 DEF TypeInv, AuthTypeOK, Link
<1>4. link = [old EXCEPT !.used = @ + 1]
  OBVIOUS
<1> HIDE DEF link
<1>5. KeyInv'
  <2>1. Creating' \subseteq Creating /\ \A s \in Creating' : requests'[s] = requests[s]
    BY <1>2 DEF Creating, Creates
  <2>2. \A new \in links' : \E was \in links :
          was.id = new.id /\ (was # old => new = was) /\ (was = old => new = link)
    BY <1>3
  <2>3. \A new \in links' : new.id < served'
    BY <1>2, <2>2 DEF LinkInv, KeyInv
  <2>4. \A one, other \in links' : one.id = other.id => one = other
    BY <2>2 DEF LinkInv, KeyInv
  <2>5. \A s \in Creating' : IdOf(requests'[s]) < served'
    BY <1>2, <2>1 DEF LinkInv, KeyInv
  <2>6. \A s, t \in Creating' : IdOf(requests'[s]) = IdOf(requests'[t]) => s = t
    BY <2>1 DEF LinkInv, KeyInv
  <2>7. \A s \in Creating', new \in links' : IdOf(requests'[s]) # new.id
    BY <2>1, <2>2 DEF LinkInv, KeyInv
  <2> QED BY <2>3, <2>4, <2>5, <2>6, <2>7 DEF KeyInv, IdOf
<1>6. GraceInv'
  <2>1. \A s \in Slots : requests'[s].op = "link" =>
          requests[s].op = "link" /\ requests'[s].token.user = requests[s].token.user
    BY <1>2
  <2>2. \A v \in Users : Graced(v) => Graced(v)'
    BY <1>2 DEF Graced
  <2> QED BY <2>1, <2>2, GraceStep DEF LinkInv
<1>7. MarkInv'
  <2>1. r \in Marking(old.id) /\ \A id : Marking(id)' \subseteq Marking(id) \ {r}
    BY <1>1, <1>2 DEF Marking, Marks
  <2>2. ASSUME NEW new \in links'
        PROVE  \/ new \in links /\ Marking(new.id)' \subseteq Marking(new.id)
               \/ /\ new = [old EXCEPT !.used = @ + 1] /\ r \in Marking(old.id)
                  /\ Marking(new.id)' \subseteq Marking(old.id) \ {r}
    <3>1. CASE new \in links
      BY <2>1, <3>1
    <3>2. CASE new = link
      BY <1>3, <1>4, <2>1, <3>2
    <3> QED BY <1>3, <3>1, <3>2
  <2> QED BY <2>2, MarkStep DEF LinkInv
<1>8. ASSUME NEW v \in Users, NEW k \in Kinds
      PROVE  Fits(Unused(v, k)', Mailing(v, k)', Greeting(v, k)', Graced(v)', k)
  <2>1. Mailing(v, k)' \subseteq Mailing(v, k) /\ Greeting(v, k)' \subseteq Greeting(v, k)
    BY <1>2 DEF Mailing, Mails, Greeting, Greets
  <2>2. Unused(v, k)' \subseteq Unused(v, k)
    BY <1>3 DEF Unused
  <2>3. Graced(v) => Graced(v)'
    BY <1>2 DEF Graced
  <2> QED BY <2>1, <2>2, <2>3, RoomStill DEF LinkInv
<1> QED BY <1>5, <1>6, <1>7, <1>8 DEF LinkInv, RoomInv

-----------------------------------------------------------------------------
\* No save of an account takes the grace back that its owner was given.
LEMMA SaveGrace ==
  ASSUME TypeInv, NEW u \in Users, accounts[u] # NoAccount, NEW account \in Account,
         account.grace = accounts[u].grace \/ account.grace = TRUE,
         accounts' = [accounts EXCEPT ![u] = account]
  PROVE  /\ \A v \in Users : Graced(v) => Graced(v)'
         /\ account.grace => \A v \in Users : v = u => Graced(v)'
<1>1. accounts'[u] = account /\ account # NoAccount
  BY AuthAssumption DEF TypeInv, AuthTypeOK
<1>2. \A v \in Users : v # u => accounts'[v] = accounts[v]
  BY DEF TypeInv, AuthTypeOK
<1> QED BY <1>1, <1>2 DEF Graced

LEMMA SavedGrace ==
  ASSUME NEW account \in Account, NEW copy
  PROVE  Saved(account, copy) \in Account /\ Saved(account, copy).grace = account.grace
BY DEF Saved, Account

LEMMA NewPasswordGrace ==
  ASSUME NEW account \in Account
  PROVE  /\ [account EXCEPT !.password = @ + 1] \in Account
         /\ [account EXCEPT !.password = @ + 1].grace = account.grace
BY DEF Account

LEMMA GreetLinks ==
  ASSUME TypeInv, TypeInv', LinkInv, NEW r \in Slots, Greet(r)
  PROVE  LinkInv'
<1> DEFINE token == requests[r].token
           request == [op |-> "link", token |-> token]
           account == [Saved(accounts[token.user], requests[r].copy) EXCEPT !.grace = TRUE]
<1>1. token \in Token /\ token.user \in Users /\ accounts[token.user] # NoAccount
  BY StoringParts DEF Greet, StoringOps
<1>2. account \in Account /\ account.grace = TRUE
  <2>1. accounts[token.user] \in Account
    BY <1>1 DEF TypeInv, AuthTypeOK
  <2>2. Saved(accounts[token.user], requests[r].copy) \in Account
    BY <2>1, SavedGrace
  <2> QED BY <2>2 DEF Account
<1>3. Become(r, request) /\ served' = served /\ links' = links
      /\ accounts' = [accounts EXCEPT ![token.user] = account]
  BY DEF Greet, Continue
<1>4. request \in Request
  BY <1>1 DEF Request
<1>5. Calm(requests[r], request)
  BY DEF Greet, Calm, Mails, Greets, Marks, Creates, IdOf
<1>6. request.op = "link" /\ request.token = token
  OBVIOUS
<1> HIDE DEF token, request, account
<1>7. /\ \A v \in Users : Graced(v) => Graced(v)'
      /\ \A v \in Users : v = token.user => Graced(v)'
  BY <1>1, <1>2, <1>3, SaveGrace
<1>8. \A u \in Users : u = request.token.user => Graced(u)'
  BY <1>6, <1>7
<1> QED BY <1>3, <1>4, <1>5, <1>7, <1>8, CalmBecome

LEMMA StoreLinks ==
  ASSUME TypeInv, TypeInv', LinkInv, NEW r \in Slots, StoreToken(r) \/ Rotate(r)
  PROVE  LinkInv'
<1> DEFINE token == requests[r].token
<1>1. token \in Token
  BY StoringParts DEF StoreToken, Rotate, StoringOps
<1>2. served' = served /\ links' = links /\ \A v \in Users : Graced(v) => Graced(v)'
  BY DEF StoreToken, Rotate, Continue, Graced
<1>3. CASE StoreToken(r)
  <2> DEFINE request == IF requests[r].new
               THEN [op |-> "mail", id |-> token.id, user |-> token.user, kind |-> "verify"]
               ELSE Idle
  <2>1. Become(r, request)
    BY <1>3 DEF StoreToken, Continue
  <2>2. request \in Request /\ request.op # "link"
    <3> HIDE DEF token
    <3> QED BY <1>1, CalmIdle DEF Request, Token, Kinds
  <2>3. Calm(requests[r], request)
    <3>1. CASE requests[r].new
      BY <1>3, <3>1 DEF StoreToken, Calm, Mails, Greets, Marks, Creates, IdOf
    <3>2. CASE ~requests[r].new
      BY <3>2, CalmIdle
    <3> QED BY <3>1, <3>2
  <2> HIDE DEF request
  <2> QED BY <1>2, <2>1, <2>2, <2>3, CalmBecome
<1>4. CASE Rotate(r)
  <2> DEFINE request == [op |-> "store", token |-> token, new |-> FALSE]
  <2>1. Become(r, request)
    BY <1>4 DEF Rotate, Continue
  <2>2. request \in Request /\ request.op # "link"
    BY <1>1 DEF Request
  <2>3. Calm(requests[r], request)
    BY DEF Calm, Mails, Greets, Marks, Creates
  <2> HIDE DEF request
  <2> QED BY <1>2, <2>1, <2>2, <2>3, CalmBecome
<1> QED BY <1>3, <1>4

\* A change to a token that a request is about to store.
LEMMA TokenChange ==
  ASSUME TypeInv, NEW s \in Slots, requests[s].op \in StoringOps, NEW token \in Token,
         token.id = requests[s].token.id, token.user = requests[s].token.user,
         requests'[s] = [requests[s] EXCEPT !.token = token]
  PROVE  /\ Calm(requests[s], requests'[s])
         /\ requests'[s].op = requests[s].op /\ requests'[s].token.user = requests[s].token.user
<1>1. requests[s] \in Request
  BY DEF TypeInv, AuthTypeOK
<1> QED BY <1>1, CalmToken

LEMMA RefreshLinks ==
  ASSUME TypeInv, TypeInv', LinkInv, NEW r \in Slots, NEW token \in tokens, Refresh(r, token)
  PROVE  LinkInv'
<1>1. ASSUME NEW s \in Slots
      PROVE  /\ Calm(requests[s], requests'[s])
             /\ requests'[s].op = "link" =>
                  /\ requests[s].op = "link"
                  /\ requests'[s].token.user = requests[s].token.user
  <2> DEFINE others == Holding(token)
  <2>1. /\ s = r => requests'[s].op = "rotate"
        /\ s # r /\ s \in others =>
             requests'[s] = [requests[s] EXCEPT !.token = [@ EXCEPT !.forked = TRUE]]
        /\ s # r /\ s \notin others => requests'[s] = requests[s]
    BY DEF Refresh
  <2>2. CASE s = r
    BY <2>1, <2>2, CalmRest
  <2>3. CASE s # r /\ s \in others
    <3> DEFINE t == [requests[s].token EXCEPT !.forked = TRUE]
    <3>1. requests[s].op \in StoringOps /\ requests[s].op = "rotate"
      BY <2>3 DEF Holding, StoringOps
    <3>2. requests[s].token \in Token
      BY <3>1, StoringParts
    <3>3. t \in Token /\ t.id = requests[s].token.id /\ t.user = requests[s].token.user
      BY <3>2 DEF Token
    <3>4. requests'[s] = [requests[s] EXCEPT !.token = t]
      BY <2>1, <2>3
    <3> HIDE DEF t
    <3> QED BY <3>1, <3>3, <3>4, TokenChange
  <2>4. CASE s # r /\ s \notin others
    BY <2>1, <2>4, CalmSame
  <2> QED BY <2>2, <2>3, <2>4
<1>2. /\ links' = links /\ served' = served + 1
      /\ \A v \in Users : Graced(v) => Graced(v)'
  BY DEF Refresh, Arrive, Graced
<1> QED BY <1>1, <1>2, CalmStep

LEMMA RevokeLinks ==
  ASSUME TypeInv, TypeInv', LinkInv, NEW u \in Users, NEW next, RevokeAll(u, next),
         \A s \in Slots : next[s] = requests[s] \/ next[s] = Idle,
         links' = links, accounts' = accounts, served' = served \/ served' = served + 1
  PROVE  LinkInv'
<1>1. ASSUME NEW s \in Slots
      PROVE  /\ Calm(requests[s], requests'[s])
             /\ requests'[s].op = "link" =>
                  /\ requests[s].op = "link"
                  /\ requests'[s].token.user = requests[s].token.user
  <2>1. requests'[s] = IF s \in Storing /\ requests[s].token.user = u
                         THEN [requests[s] EXCEPT !.token = [@ EXCEPT !.late = TRUE]] ELSE next[s]
    BY DEF RevokeAll
  <2>2. CASE s \in Storing /\ requests[s].token.user = u
    <3> DEFINE t == [requests[s].token EXCEPT !.late = TRUE]
    <3>1. requests[s].op \in StoringOps
      BY <2>2 DEF Storing, StoringOps
    <3>2. requests[s].token \in Token
      BY <3>1, StoringParts
    <3>3. t \in Token /\ t.id = requests[s].token.id /\ t.user = requests[s].token.user
      BY <3>2 DEF Token
    <3>4. requests'[s] = [requests[s] EXCEPT !.token = t]
      BY <2>1, <2>2
    <3> HIDE DEF t
    <3> QED BY <3>1, <3>3, <3>4, TokenChange
  <2>3. CASE ~(s \in Storing /\ requests[s].token.user = u)
    <3>1. requests'[s] = requests[s] \/ requests'[s] = Idle
      BY <2>1, <2>3
    <3> QED BY <3>1, CalmSame, CalmIdle
  <2> QED BY <2>2, <2>3
<1>2. \A v \in Users : Graced(v) => Graced(v)'
  BY DEF Graced
<1> QED BY <1>1, <1>2, CalmStep

\* The steps that have nothing to do with links but to end a request.
LEMMA OtherLinks ==
  ASSUME TypeInv, TypeInv', LinkInv, NEW r \in Slots,
         Verify(r) \/ ReadAccount(r) \/ SaveAccount(r) \/ Abandon(r)
           \/ \E u \in Users, op \in {"profile", "new password"} : EditAccount(r, u, op)
  PROVE  LinkInv'
<1>0. Idle \in Request /\ Idle.op = "idle"
  BY CalmIdle DEF Request
<1>1. /\ requests'[r].op \notin {"greet", "link", "drop", "mail", "store", "mark"}
      /\ \A s \in Slots : s # r => requests'[s] = requests[s]
      /\ links' = links /\ (served' = served \/ served' = served + 1)
  <2>1. PICK request : /\ Become(r, request)
                       /\ request.op \in {"idle", "profile", "new password", "password", "revoke"}
    <3> DEFINE Ops == {"idle", "profile", "new password", "password", "revoke"}
    <3>1. CASE Verify(r) \/ Abandon(r)
      BY <1>0, <3>1 DEF Verify, Abandon, End, Continue
    <3>2. CASE ReadAccount(r)
      <4> DEFINE request == [op |-> "password", user |-> requests[r].link.user,
                             copy |-> accounts[requests[r].link.user]]
      <4>1. Become(r, request) /\ request.op = "password"
        BY <3>2 DEF ReadAccount, Continue
      <4> HIDE DEF request
      <4> QED BY <4>1
    <3>3. ASSUME NEW u \in Users, NEW op \in {"profile", "new password"}, EditAccount(r, u, op)
          PROVE  \E request : Become(r, request) /\ request.op \in Ops
      <4> DEFINE request == [op |-> op, user |-> u, copy |-> accounts[u]]
      <4>1. Become(r, request) /\ request.op = op
        BY <3>3 DEF EditAccount, Begin
      <4> HIDE DEF request
      <4> QED BY <4>1
    <3>4. CASE SaveAccount(r)
      <4> DEFINE u == requests[r].user
                 new == [Saved(accounts[u], requests[r].copy) EXCEPT !.password = @ + 1]
                 request == [op |-> "revoke", user |-> u, pass |-> new.password]
      <4>1. (Become(r, Idle) \/ Become(r, request)) /\ request.op = "revoke"
        BY <3>4 DEF SaveAccount, End, Continue
      <4> HIDE DEF request
      <4> QED BY <1>0, <4>1
    <3> QED BY <3>1, <3>2, <3>3, <3>4
  <2>2. requests'[r] = request /\ \A s \in Slots : s # r => requests'[s] = requests[s]
    BY <2>1 DEF Become, TypeInv, AuthTypeOK
  <2>3. links' = links /\ (served' = served \/ served' = served + 1)
    BY DEF Verify, ReadAccount, SaveAccount, Abandon, EditAccount, Begin, Arrive, End, Continue
  <2> QED BY <2>1, <2>2, <2>3
<1>2. \A v \in Users : Graced(v) => Graced(v)'
  <2>1. CASE accounts' = accounts
    BY <2>1 DEF Graced
  <2>2. CASE Verify(r)
    <3> DEFINE u == requests[r].link.user
               account == [accounts[u] EXCEPT !.verified = "yes"]
    <3>1. u \in Users /\ accounts[u] # NoAccount /\ accounts[u] \in Account
      BY <2>2, LinkParts DEF Verify, TypeInv, AuthTypeOK
    <3>2. account \in Account /\ account.grace = accounts[u].grace
      BY <3>1 DEF Account
    <3>3. accounts' = [accounts EXCEPT ![u] = account]
      BY <2>2 DEF Verify
    <3> HIDE DEF u, account
    <3> QED BY <3>1, <3>2, <3>3, SaveGrace
  <2>3. CASE SaveAccount(r)
    <3> DEFINE u == requests[r].user
               account == Saved(accounts[u], requests[r].copy)
               new == [account EXCEPT !.password = @ + 1]
    <3>1. u \in Users /\ accounts[u] # NoAccount /\ accounts[u] \in Account
      BY <2>3, UserParts DEF SaveAccount, TypeInv, AuthTypeOK
    <3>2. account \in Account /\ account.grace = accounts[u].grace
      BY <3>1, SavedGrace
    <3>3. accounts' = [accounts EXCEPT ![u] = account] \/ accounts' = [accounts EXCEPT ![u] = new]
      BY <2>3 DEF SaveAccount
    <3> HIDE DEF u, account
    <3>4. new \in Account /\ new.grace = account.grace
      BY <3>2, NewPasswordGrace
    <3> HIDE DEF new
    <3>5. new.grace = accounts[u].grace
      BY <3>2, <3>4
    <3> QED BY <3>1, <3>2, <3>3, <3>4, <3>5, SaveGrace
  <2> QED BY <2>1, <2>2, <2>3 DEF ReadAccount, Abandon, EditAccount
<1>3. \A s \in Slots : Calm(requests[s], requests'[s])
  BY <1>1, CalmSame, CalmRest
<1>4. \A s \in Slots : requests'[s].op = "link" =>
        requests[s].op = "link" /\ requests'[s].token.user = requests[s].token.user
  BY <1>1
<1> QED BY <1>1, <1>2, <1>3, <1>4, CalmStep

LEMMA EndSessionsLinks ==
  ASSUME TypeInv, TypeInv', LinkInv, NEW r \in Slots, EndSessions(r)
  PROVE  LinkInv'
<1> DEFINE u == requests[r].user
           next == [requests EXCEPT ![r] = Idle]
<1>1. u \in Users
  BY UserParts DEF EndSessions
<1>2. RevokeAll(u, next) /\ links' = links /\ accounts' = accounts /\ served' = served
  BY DEF EndSessions
<1>3. \A s \in Slots : next[s] = requests[s] \/ next[s] = Idle
  BY DEF TypeInv, AuthTypeOK
<1> HIDE DEF u, next
<1> QED BY <1>1, <1>2, <1>3, RevokeLinks

LEMMA UnservedLinks ==
  ASSUME TypeInv, TypeInv', LinkInv, requests' = requests, accounts' = accounts,
         links' \subseteq links, served' = served
  PROVE  LinkInv'
<1>1. \A v \in Users : Graced(v) => Graced(v)'
  BY DEF Graced
<1>2. \A s \in Slots : Calm(requests[s], requests'[s])
  BY CalmSame
<1> QED BY <1>1, <1>2, CalmStep

LEMMA NextLinks == TypeInv /\ LinkInv /\ [Next]_vars => LinkInv'
<1> SUFFICES ASSUME TypeInv, LinkInv, [Next]_vars PROVE LinkInv'
  OBVIOUS
<1>0. TypeInv'
  BY NextType
<1>1. ASSUME NEW r \in Slots, Enter(r)
      PROVE  LinkInv'
  BY <1>0, <1>1, RegisterLinks, LoginLinks, GreetLinks, GreetingLinks, StoreLinks, RefreshLinks
     DEF Enter
<1>2. ASSUME NEW r \in Slots, Recover(r)
      PROVE  LinkInv'
  BY <1>0, <1>2, AskLinks, DropLinksStep, MailLinks, UseLinks, MarkLinks, OtherLinks,
     EndSessionsLinks DEF Recover
<1>3. ASSUME NEW r \in Slots, Abandon(r)
      PROVE  LinkInv'
  BY <1>0, <1>3, OtherLinks
<1>4. ASSUME NEW u \in Users, LogoutAll(u)
      PROVE  LinkInv'
  <2>1. /\ RevokeAll(u, requests) /\ links' = links /\ accounts' = accounts
        /\ served' = served + 1
    BY <1>4 DEF LogoutAll
  <2> QED BY <1>0, <2>1, RevokeLinks
<1>5. CASE (\E token \in tokens : Logout(token)) \/ (\E link \in links : ExpireLink(link))
           \/ UNCHANGED vars
  <2>1. requests' = requests /\ accounts' = accounts /\ links' \subseteq links /\ served' = served
    BY <1>5 DEF Logout, ExpireLink, vars
  <2> QED BY <1>0, <2>1, UnservedLinks
<1> QED BY <1>1, <1>2, <1>3, <1>4, <1>5 DEF Next

LEMMA InitLinks == Init => LinkInv
<1> SUFFICES ASSUME Init PROVE LinkInv
  OBVIOUS
<1>1. links = {} /\ \A r \in Slots : requests[r] = Idle /\ requests[r].op = "idle"
  BY CalmIdle DEF Init
<1>2. KeyInv /\ GraceInv /\ MarkInv
  BY <1>1 DEF KeyInv, GraceInv, MarkInv, Creating, Creates
<1>3. ASSUME NEW u \in Users, NEW kind \in Kinds
      PROVE  Fits(Unused(u, kind), Mailing(u, kind), Greeting(u, kind), Graced(u), kind)
  <2>1. Unused(u, kind) = {} /\ Greeting(u, kind) = {} /\ Mailing(u, kind) = {}
    BY <1>1 DEF Unused, Greeting, Greets, Mailing, Mails
  <2>2. Graced(u) = FALSE
    BY DEF Init, Graced, LegacyAccount
  <2>3. Fits({}, {}, {}, FALSE, kind)
    BY FitsNone
  <2> QED BY <2>1, <2>2, <2>3
<1> QED BY <1>2, <1>3 DEF LinkInv, RoomInv

\* However often a user asks for links and whoever asks beside them, the unused
\* ones of a kind are no more than the requests served at a time, or twice that
\* when logins greet an old account: who mails one has deleted the others, a step
\* before.  And a link is accepted at most as often as requests that found it
\* unused are served at a time, since it is read and marked in two steps.
THEOREM LinksBounded == Spec => []LinksAreBounded
<1>1. TypeInv /\ LinkInv => LinksAreBounded
  <2> SUFFICES ASSUME TypeInv, LinkInv PROVE LinksAreBounded
    OBVIOUS
  <2>1. Cardinality(Slots) \in Nat
    BY AuthAssumption, FS_CardinalityType
  <2>2. ASSUME NEW u \in Users, NEW kind \in Kinds
        PROVE  Cardinality(Unused(u, kind))
                 <= (IF kind = "verify" THEN 2 ELSE 1) * Cardinality(Slots)
    <3>1. Fits(Unused(u, kind), Mailing(u, kind), Greeting(u, kind), Graced(u), kind)
      BY DEF LinkInv, RoomInv
    <3>2. Cardinality(Mailing(u, kind)) \in Nat /\ Cardinality(Greeting(u, kind)) \in Nat
      BY SetsOfSlots, Few
    <3>3. Cardinality(Unused(u, kind)) \in Nat
      BY <3>1, FS_CardinalityType DEF Fits
    <3> QED BY <2>1, <3>1, <3>2, <3>3 DEF Fits
  <2>3. ASSUME NEW link \in links
        PROVE  link.used <= Cardinality(Slots)
    <3>1. link.used \in Nat /\ link.used + Cardinality(Marking(link.id)) <= Cardinality(Slots)
      BY DEF LinkInv, MarkInv, TypeInv, AuthTypeOK, Link
    <3>2. Marking(link.id) \in SUBSET Slots
      BY DEF Marking
    <3>3. Cardinality(Marking(link.id)) \in Nat
      BY <3>2, Few
    <3> QED BY <2>1, <3>1, <3>3
  <2> QED BY <2>2, <2>3 DEF LinksAreBounded, Unused
<1> QED BY <1>1, InitLinks, NextLinks, TypeHolds, PTL DEF Spec
=============================================================================
