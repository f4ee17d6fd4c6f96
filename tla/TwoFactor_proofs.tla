--------------------------- MODULE TwoFactor_proofs ---------------------------
(***************************************************************************)
(* Proofs about TwoFactor, for every number of requests and codes.         *)
(***************************************************************************)
EXTENDS TwoFactor, SequenceTheorems, TLAPS

-----------------------------------------------------------------------------
(***************************************************************************)
(* Shapes.                                                                 *)
(***************************************************************************)
ManageOps == Unversioned \cup Versioned

\* Which requests have a number of their own, refer to a session or challenge,
\* and keep a copy of the account.
Numbered(request) == request.op \in ManageOps \cup {"open"}

Referring(request) ==
  request.op \in {"mark", "check", "registered", "counted", "spend", "accept", "registration",
                  "login", "register", "count"}

Copying(request) == request.op \in ManageOps \cup {"spend", "register", "count", "delete"}

LEMMA Parts ==
  ASSUME NEW request \in Request
  PROVE  /\ request # Idle => request.op # "idle"
         /\ Numbered(request) => request.id \in Nat
         /\ Referring(request) => request.of \in Nat
         /\ Copying(request) => request.copy \in Account
         /\ request.op = "spend" => request.code \in BackupCode
         /\ request.op = "accept" => request.with \subseteq BackupCode
         /\ request.op = "count" => request.at \in Nat /\ request.count \in 0 .. MaxCount
         /\ request.op = "delete" => request.at \in Nat
<1> USE DEF Idle, Numbered, Referring, Copying, ManageOps, Unversioned, Versioned
<1>1. CASE request = Idle
  BY <1>1
<1>2. CASE request \in [op : Unversioned \cup Versioned, id : Nat, copy : Account]
  BY <1>2
<1>3. CASE request \in [op : {"open"}, id : Nat]
  BY <1>3
<1>4. CASE request \in [op : {"mark", "check", "registration", "login", "registered", "counted"},
                        of : Nat]
  BY <1>4
<1>5. CASE request \in [op : {"spend"}, of : Nat, code : BackupCode, copy : Account]
  BY <1>5
<1>6. CASE request \in [op : {"accept"}, of : Nat, with : SUBSET BackupCode]
  BY <1>6
<1>7. CASE request \in [op : {"register"}, of : Nat, copy : Account]
  BY <1>7
<1>8. CASE request \in [op : {"count"}, of : Nat, at : Nat, count : 0 .. MaxCount, copy : Account]
  BY <1>8
<1>9. CASE request \in [op : {"delete"}, at : Nat, copy : Account]
  BY <1>9
<1> QED BY <1>1, <1>2, <1>3, <1>4, <1>5, <1>6, <1>7, <1>8, <1>9 DEF Request

LEMMA SlotParts ==
  ASSUME TwoFactorTypeOK, NEW r \in Slots
  PROVE  /\ requests[r] \in Request
         /\ requests[r] # Idle => requests[r].op # "idle"
         /\ Numbered(requests[r]) => requests[r].id \in Nat
         /\ Referring(requests[r]) => requests[r].of \in Nat
         /\ Copying(requests[r]) => requests[r].copy \in Account
         /\ requests[r].op = "spend" => requests[r].code \in BackupCode
         /\ requests[r].op = "accept" => requests[r].with \subseteq BackupCode
         /\ requests[r].op = "count" =>
              requests[r].at \in Nat /\ requests[r].count \in 0 .. MaxCount
         /\ requests[r].op = "delete" => requests[r].at \in Nat
<1>1. requests[r] \in Request
  BY DEF TwoFactorTypeOK
<1> QED BY <1>1, Parts

LEMMA Becomes ==
  ASSUME TwoFactorTypeOK, NEW r \in Slots, NEW request, Become(r, request)
  PROVE  /\ requests' = [requests EXCEPT ![r] = request] /\ requests'[r] = request
         /\ \A s \in Slots : s # r => requests'[s] = requests[s]
BY DEF Become, TwoFactorTypeOK

LEMMA SlotStep ==
  ASSUME TwoFactorTypeOK, NEW r \in Slots, NEW request \in Request, Become(r, request),
         account' \in Account, sessions' \subseteq Session, challenges' \subseteq Nat,
         accepted' = accepted, served' \in 0 .. MaxRequests
  PROVE  TwoFactorTypeOK'
BY DEF Become, TwoFactorTypeOK

\* A login or registration that is accepted is appended to those before.
LEMMA Appends ==
  ASSUME TwoFactorTypeOK, NEW r \in Slots, NEW of \in Nat, NEW with \in SUBSET BackupCode,
         accepted' = Append(accepted, [slot |-> r, of |-> of, with |-> with])
  PROVE  /\ accepted' \in Seq([slot : Slots, of : Nat, with : SUBSET BackupCode])
         /\ \E last \in DOMAIN accepted' :
              /\ accepted'[last].slot = r /\ accepted'[last].of = of /\ accepted'[last].with = with
              /\ \A i \in DOMAIN accepted' : i # last =>
                   i \in DOMAIN accepted /\ accepted'[i] = accepted[i]
<1> DEFINE login == [slot |-> r, of |-> of, with |-> with]
           Login == [slot : Slots, of : Nat, with : SUBSET BackupCode]
           last == Len(accepted) + 1
<1>1. login \in Login /\ accepted' = Append(accepted, login) /\ accepted \in Seq(Login)
  BY DEF TwoFactorTypeOK
<1>2. login.slot = r /\ login.of = of /\ login.with = with
  OBVIOUS
<1> HIDE DEF login, Login
<1>3. accepted' \in Seq(Login)
  BY <1>1
<1>4. last \in DOMAIN accepted' /\ accepted'[last] = login
  BY <1>1
<1>5. \A i \in DOMAIN accepted' : i # last => i \in DOMAIN accepted /\ accepted'[i] = accepted[i]
  BY <1>1
<1> HIDE DEF last
<1>6. \E n \in DOMAIN accepted' :
        /\ accepted'[n].slot = r /\ accepted'[n].of = of /\ accepted'[n].with = with
        /\ \A i \in DOMAIN accepted' : i # n => i \in DOMAIN accepted /\ accepted'[i] = accepted[i]
  BY <1>2, <1>4, <1>5
<1> QED BY <1>3, <1>6 DEF Login

LEMMA Arrives ==
  ASSUME TwoFactorTypeOK, NEW r \in Slots, NEW request, Begin(r, request)
  PROVE  /\ Become(r, request) /\ requests[r] = Idle
         /\ served' = served + 1 /\ served' \in 0 .. MaxRequests /\ served + 1 \in Nat
<1>1. served \in 0 .. MaxRequests /\ served < MaxRequests /\ served' = served + 1
  BY DEF TwoFactorTypeOK, Begin
<1>2. Become(r, request) /\ requests[r] = Idle
  BY DEF Begin
<1> QED BY <1>1, <1>2, TwoFactorAssumption

LEMMA Continues ==
  ASSUME TwoFactorTypeOK, NEW r \in Slots, NEW request, Continue(r, request)
  PROVE  Become(r, request) /\ served' = served /\ served' \in 0 .. MaxRequests
BY DEF Continue, TwoFactorTypeOK

LEMMA IdleType == Idle \in Request
BY DEF Request

LEMMA DefaultedType ==
  ASSUME account \in Account, NEW copy
  PROVE  /\ Defaulted(copy) \in Account
         /\ Defaulted(copy).version = account.version /\ Defaulted(copy).flag = account.flag
         /\ Defaulted(copy).secret = account.secret /\ Defaulted(copy).codes = account.codes
         /\ Defaulted(copy).passkeys = account.passkeys
         /\ Defaulted(copy).verified \in {account.verified, "no"}
         /\ copy.verified # "missing" => Defaulted(copy).verified = account.verified
         /\ copy.verified = "missing" => Defaulted(copy).verified = "no"
BY DEF Defaulted, Account

LEMMA CountedType ==
  ASSUME NEW passkeys \in Seq(Passkey), NEW i \in Nat, NEW count \in 0 .. MaxCount
  PROVE  /\ Counted(passkeys, i, count) \in Seq(Passkey)
         /\ DOMAIN Counted(passkeys, i, count) = DOMAIN passkeys
         /\ \A j \in DOMAIN passkeys :
              /\ Counted(passkeys, i, count)[j].id = passkeys[j].id
              /\ Counted(passkeys, i, count)[j].key = passkeys[j].key
              /\ Counted(passkeys, i, count)[j].count = IF j = i THEN count ELSE passkeys[j].count
<1>1. CASE i \in DOMAIN passkeys
  <2> DEFINE passkey == [passkeys[i] EXCEPT !.count = count]
  <2>0. passkeys[i] \in Passkey
    BY <1>1
  <2>1. /\ passkey \in Passkey /\ passkey.count = count
        /\ passkey.id = passkeys[i].id /\ passkey.key = passkeys[i].key
    BY <2>0 DEF Passkey
  <2>2. Counted(passkeys, i, count) = [passkeys EXCEPT ![i] = passkey]
    BY DEF Counted
  <2> HIDE DEF passkey
  <2> QED BY <1>1, <2>1, <2>2, ExceptSeq
<1>2. CASE i \notin DOMAIN passkeys
  <2>1. Counted(passkeys, i, count) = passkeys
    BY <1>2 DEF Counted
  <2> QED BY <1>2, <2>1
<1> QED BY <1>1, <1>2

LEMMA RemainingType ==
  ASSUME NEW passkeys \in Seq(Passkey), NEW i \in Nat
  PROVE  /\ Remaining(passkeys, i) \in Seq(Passkey)
         /\ \A j \in DOMAIN Remaining(passkeys, i) :
              /\ ~Remaining(passkeys, i)[j].key
              /\ \E k \in DOMAIN passkeys : Remaining(passkeys, i)[j].id = passkeys[k].id
<1> DEFINE last == Len(passkeys) - 1
           from(j) == IF j < i THEN j ELSE j + 1
<1>1. DOMAIN Remaining(passkeys, i) = 1 .. last
  BY DEF Remaining
<1>2. ASSUME NEW j \in 1 .. last
      PROVE  /\ from(j) \in DOMAIN passkeys
             /\ Remaining(passkeys, i)[j] = [passkeys[from(j)] EXCEPT !.key = FALSE]
  <2>1. from(j) \in 1 .. Len(passkeys)
    OBVIOUS
  <2> QED BY <2>1 DEF Remaining
<1>3. ASSUME NEW j \in 1 .. last
      PROVE  /\ Remaining(passkeys, i)[j] \in Passkey /\ ~Remaining(passkeys, i)[j].key
             /\ Remaining(passkeys, i)[j].id = passkeys[from(j)].id
  <2>1. passkeys[from(j)] \in Passkey
    BY <1>2
  <2> HIDE DEF from
  <2> QED BY <1>2, <2>1 DEF Passkey
<1>4. \E n \in Nat : 1 .. last = 1 .. n
  <2>1. Len(passkeys) \in Nat
    OBVIOUS
  <2>2. CASE Len(passkeys) = 0
    BY <2>2
  <2>3. CASE Len(passkeys) # 0
    BY <2>1, <2>3
  <2> QED BY <2>2, <2>3
<1>5. Remaining(passkeys, i) \in [1 .. last -> Passkey]
  <2>1. Remaining(passkeys, i) = [j \in 1 .. last |-> Remaining(passkeys, i)[j]]
    BY DEF Remaining
  <2> QED BY <1>3, <2>1
<1>6. Remaining(passkeys, i) \in Seq(Passkey)
  <2> HIDE DEF last
  <2> QED BY <1>4, <1>5, SeqDef
<1> QED BY <1>1, <1>2, <1>3, <1>6

LEMMA NewAccountParts ==
  ASSUME TwoFactorTypeOK, NEW n \in Nat
  PROVE  NewCodes(n) \subseteq BackupCode /\ NewPasskey(n) \in Passkey
<1>1. NewCodes(n) \subseteq BackupCode
  BY DEF NewCodes, BackupCode
<1>2. 0 \in 0 .. MaxCount
  BY TwoFactorAssumption
<1> QED BY <1>1, <1>2 DEF NewPasskey, Passkey

(***************************************************************************)
(* What each save makes of the account.                                    *)
(***************************************************************************)
LEMMA SetupSaves ==
  ASSUME TwoFactorTypeOK, NEW r \in Slots, SaveSetup(r)
  PROVE  /\ account' \in Account /\ account'.version = account.version
         /\ account'.flag = account.flag /\ account'.codes = account.codes
         /\ account'.secret = requests[r].id /\ account'.verified = "no"
         /\ account'.passkeys = account.passkeys
<1>1. account \in Account /\ requests[r].id \in Nat
  BY SlotParts DEF TwoFactorTypeOK, SaveSetup, Numbered, ManageOps, Unversioned
<1>2. account' = [account EXCEPT !.secret = requests[r].id, !.verified = "no"]
  BY DEF SaveSetup
<1> QED BY <1>1, <1>2 DEF Account

LEMMA VerifiedSaves ==
  ASSUME TwoFactorTypeOK, NEW r \in Slots, SaveVerified(r)
  PROVE  /\ account' \in Account /\ account'.version = account.version + 1
         /\ account'.flag = TRUE \/ (requests[r].copy.flag /\ account'.flag = account.flag)
         /\ account'.verified = IF requests[r].copy.verified = "yes" THEN account.verified ELSE "yes"
         /\ account'.secret = account.secret /\ account'.codes = NewCodes(requests[r].id)
         /\ account'.passkeys = account.passkeys
<1> DEFINE copy == requests[r].copy
           version == account.version + 1
           flag == IF copy.flag THEN account.flag ELSE TRUE
           verified == IF copy.verified = "yes" THEN account.verified ELSE "yes"
           codes == NewCodes(requests[r].id)
<1>1. account \in Account /\ codes \in SUBSET BackupCode
  BY SlotParts, NewAccountParts DEF TwoFactorTypeOK, SaveVerified, Numbered, ManageOps, Versioned
<1>2. account' = [account EXCEPT !.verified = verified, !.flag = flag, !.codes = codes,
                                 !.version = version]
  BY DEF SaveVerified
<1>3. version \in Nat /\ verified \in {"missing", "no", "yes"}
  BY <1>1 DEF Account
<1>4. flag \in BOOLEAN /\ (flag = TRUE \/ (copy.flag /\ flag = account.flag))
  BY <1>1 DEF Account
<1> HIDE DEF version, flag, verified, codes
<1>5. /\ account' \in Account /\ account'.version = version
      /\ account'.flag = flag /\ account'.verified = verified
      /\ account'.secret = account.secret /\ account'.codes = codes
      /\ account'.passkeys = account.passkeys
  BY <1>1, <1>2, <1>3, <1>4 DEF Account
<1> QED BY <1>4, <1>5 DEF version, verified, codes

LEMMA CodesSaves ==
  ASSUME TwoFactorTypeOK, NEW r \in Slots, SaveCodes(r)
  PROVE  /\ account' \in Account /\ account'.version = account.version + 1
         /\ account'.flag = account.flag /\ account'.verified = account.verified
         /\ account'.secret = account.secret /\ account'.codes = NewCodes(requests[r].id)
         /\ account'.passkeys = account.passkeys
<1> DEFINE version == account.version + 1
           codes == NewCodes(requests[r].id)
<1>1. account \in Account /\ codes \in SUBSET BackupCode
  BY SlotParts, NewAccountParts DEF TwoFactorTypeOK, SaveCodes, Numbered, ManageOps, Versioned
<1>2. account' = [account EXCEPT !.codes = codes, !.version = version]
  BY DEF SaveCodes
<1>3. version \in Nat
  BY <1>1 DEF Account
<1> HIDE DEF version, codes
<1>4. /\ account' \in Account /\ account'.version = version
      /\ account'.flag = account.flag /\ account'.verified = account.verified
      /\ account'.secret = account.secret /\ account'.codes = codes
      /\ account'.passkeys = account.passkeys
  BY <1>1, <1>2, <1>3 DEF Account
<1> QED BY <1>4 DEF version, codes

LEMMA DisabledSaves ==
  ASSUME TwoFactorTypeOK, NEW r \in Slots, SaveDisabled(r)
  PROVE  /\ account' \in Account /\ account'.version = account.version
         /\ account'.flag = IF requests[r].copy.flag = StaysOn(requests[r].copy)
                              THEN account.flag ELSE StaysOn(requests[r].copy)
         /\ account'.verified = "missing" /\ account'.secret = 0 /\ account'.codes = {}
         /\ account'.passkeys = account.passkeys
<1> DEFINE copy == requests[r].copy
           flag == IF copy.flag = StaysOn(copy) THEN account.flag ELSE StaysOn(copy)
<1>1. account \in Account
  BY DEF TwoFactorTypeOK
<1>2. account' = [account EXCEPT !.secret = 0, !.verified = "missing", !.codes = {},
                                 !.flag = flag]
  BY DEF SaveDisabled
<1>3. flag \in BOOLEAN
  BY <1>1 DEF Account, StaysOn
<1> HIDE DEF flag
<1>4. /\ account' \in Account /\ account'.version = account.version /\ account'.flag = flag
      /\ account'.verified = "missing" /\ account'.secret = 0 /\ account'.codes = {}
      /\ account'.passkeys = account.passkeys
  BY <1>1, <1>2, <1>3 DEF Account
<1> QED BY <1>4 DEF flag

LEMMA ProfileSaves ==
  ASSUME TwoFactorTypeOK, NEW r \in Slots, SaveProfile(r)
  PROVE  /\ account' \in Account /\ account'.version = account.version
         /\ account'.flag = account.flag /\ account'.secret = account.secret
         /\ account'.verified = Defaulted(requests[r].copy).verified
         /\ account'.codes = account.codes /\ account'.passkeys = account.passkeys
BY DefaultedType DEF SaveProfile, TwoFactorTypeOK

LEMMA SpendSaves ==
  ASSUME TwoFactorTypeOK, NEW r \in Slots, SpendCode(r)
  PROVE  /\ account' \in Account /\ account'.version = account.version + 1
         /\ account'.flag = account.flag /\ account'.secret = account.secret
         /\ account'.verified = Defaulted(requests[r].copy).verified
         /\ account'.codes = requests[r].copy.codes \ {requests[r].code}
         /\ account'.passkeys = account.passkeys
<1> DEFINE default == Defaulted(requests[r].copy)
           version == account.version + 1
           codes == requests[r].copy.codes \ {requests[r].code}
<1>1. /\ account \in Account /\ default \in Account
      /\ default.flag = account.flag /\ default.secret = account.secret
      /\ default.passkeys = account.passkeys
  BY DefaultedType DEF TwoFactorTypeOK
<1>2. requests[r].copy \in Account
  BY SlotParts DEF SpendCode, Copying
<1>3. account' = [default EXCEPT !.codes = codes, !.version = version]
  BY <1>1, DefaultedType DEF SpendCode
<1>4. version \in Nat
  BY <1>1 DEF Account
<1>5. codes \in SUBSET BackupCode
  BY <1>2 DEF Account
<1> HIDE DEF default, version, codes
<1>6. /\ account' \in Account /\ account'.version = version
      /\ account'.flag = account.flag /\ account'.secret = account.secret
      /\ account'.verified = default.verified /\ account'.codes = codes
      /\ account'.passkeys = account.passkeys
  BY <1>1, <1>3, <1>4, <1>5 DEF Account
<1> QED BY <1>6 DEF default, version, codes

LEMMA PasskeySaves ==
  ASSUME TwoFactorTypeOK, NEW r \in Slots, SavePasskey(r)
  PROVE  /\ account' \in Account /\ account'.version = account.version + 1
         /\ account'.flag = TRUE \/ (requests[r].copy.flag /\ account'.flag = account.flag)
         /\ account'.secret = account.secret /\ account'.codes = account.codes
         /\ account'.verified = Defaulted(requests[r].copy).verified
         /\ account'.passkeys = Append(account.passkeys, NewPasskey(requests[r].of))
<1> DEFINE copy == requests[r].copy
           default == Defaulted(copy)
           version == account.version + 1
           flag == IF copy.flag THEN account.flag ELSE TRUE
           passkeys == Append(account.passkeys, NewPasskey(requests[r].of))
<1>1. /\ account \in Account /\ default \in Account
      /\ default.version = account.version /\ default.flag = account.flag
      /\ default.secret = account.secret /\ default.passkeys = account.passkeys
      /\ default.codes = account.codes
  BY DefaultedType DEF TwoFactorTypeOK
<1>2. NewPasskey(requests[r].of) \in Passkey
  BY SlotParts, NewAccountParts DEF SavePasskey, Referring
<1>3. account' = [default EXCEPT !.passkeys = passkeys, !.flag = flag, !.version = version]
  BY <1>1 DEF SavePasskey
<1>4. version \in Nat
  BY <1>1 DEF Account
<1>5. flag \in BOOLEAN /\ (flag = TRUE \/ (copy.flag /\ flag = account.flag))
  BY <1>1 DEF Account
<1>6. passkeys \in Seq(Passkey)
  <2> DEFINE new == NewPasskey(requests[r].of)
  <2>1. account.passkeys \in Seq(Passkey)
    BY <1>1 DEF Account
  <2>2. new \in Passkey
    BY <1>2
  <2> HIDE DEF new
  <2>3. Append(account.passkeys, new) \in Seq(Passkey)
    BY <2>1, <2>2
  <2> QED BY <2>3 DEF new
<1> HIDE DEF default, version, flag, passkeys
<1>7. /\ account' \in Account /\ account'.version = version
      /\ account'.flag = flag /\ account'.secret = account.secret
      /\ account'.verified = default.verified /\ account'.codes = account.codes
      /\ account'.passkeys = passkeys
  BY <1>1, <1>3, <1>4, <1>5, <1>6 DEF Account
<1> QED BY <1>5, <1>7 DEF default, version, passkeys

LEMMA CountSaves ==
  ASSUME TwoFactorTypeOK, NEW r \in Slots, SaveCount(r)
  PROVE  /\ account' \in Account /\ account'.version = account.version
         /\ account'.flag = account.flag /\ account'.secret = account.secret
         /\ account'.verified = Defaulted(requests[r].copy).verified
         /\ account'.codes = account.codes
         /\ \/ account'.passkeys = account.passkeys
            \/ account'.passkeys = Counted(account.passkeys, requests[r].at, requests[r].count)
<1> DEFINE default == Defaulted(requests[r].copy)
           passkeys == Counted(account.passkeys, requests[r].at, requests[r].count)
<1>1. /\ account \in Account /\ default \in Account
      /\ default.version = account.version /\ default.flag = account.flag
      /\ default.secret = account.secret /\ default.passkeys = account.passkeys
      /\ default.codes = account.codes
  BY DefaultedType DEF TwoFactorTypeOK
<1>2. passkeys \in Seq(Passkey)
  <2>1. account.passkeys \in Seq(Passkey)
    BY <1>1 DEF Account
  <2> QED BY <2>1, SlotParts, CountedType DEF SaveCount
<1>3. account' = default \/ account' = [default EXCEPT !.passkeys = passkeys]
  BY <1>1 DEF SaveCount
<1> HIDE DEF default, passkeys
<1>4. /\ account' \in Account /\ account'.version = account.version
      /\ account'.flag = account.flag /\ account'.secret = account.secret
      /\ account'.verified = default.verified /\ account'.codes = account.codes
      /\ account'.passkeys = account.passkeys \/ account'.passkeys = passkeys
  BY <1>1, <1>2, <1>3 DEF Account
<1> QED BY <1>4 DEF default, passkeys

LEMMA DeleteSaves ==
  ASSUME TwoFactorTypeOK, NEW r \in Slots, DeletePasskey(r)
  PROVE  /\ account' \in Account /\ account'.version = account.version + 1
         /\ account'.flag = account.flag /\ account'.secret = account.secret
         /\ account'.verified = Defaulted(requests[r].copy).verified
         /\ account'.codes = account.codes
         /\ account'.passkeys = Remaining(requests[r].copy.passkeys, requests[r].at)
<1> DEFINE default == Defaulted(requests[r].copy)
           version == account.version + 1
           passkeys == Remaining(requests[r].copy.passkeys, requests[r].at)
<1>1. /\ account \in Account /\ default \in Account
      /\ default.flag = account.flag /\ default.secret = account.secret
      /\ default.codes = account.codes
  BY DefaultedType DEF TwoFactorTypeOK
<1>2. requests[r].copy \in Account /\ requests[r].at \in Nat
  BY SlotParts DEF DeletePasskey, Copying
<1>3. account' = [default EXCEPT !.passkeys = passkeys, !.version = version]
  BY <1>1, DefaultedType DEF DeletePasskey
<1>4. version \in Nat
  BY <1>1 DEF Account
<1>5. passkeys \in Seq(Passkey)
  <2>1. requests[r].copy.passkeys \in Seq(Passkey)
    BY <1>2 DEF Account
  <2> QED BY <1>2, <2>1, RemainingType
<1> HIDE DEF default, version, passkeys
<1>6. /\ account' \in Account /\ account'.version = version
      /\ account'.flag = account.flag /\ account'.secret = account.secret
      /\ account'.verified = default.verified /\ account'.codes = account.codes
      /\ account'.passkeys = passkeys
  BY <1>1, <1>3, <1>4, <1>5 DEF Account
<1> QED BY <1>6 DEF default, version, passkeys

-----------------------------------------------------------------------------
LEMMA ManageShape ==
  ASSUME TwoFactorTypeOK, NEW r \in Slots, Manage(r)
  PROVE  TwoFactorTypeOK'
<1> USE IdleType
<1>1. ASSUME NEW op \in Unversioned \cup Versioned, ReadAccount(r, op)
      PROVE  TwoFactorTypeOK'
  <2> DEFINE request == [op |-> op, id |-> served + 1, copy |-> account]
  <2>1. Become(r, request) /\ served' \in 0 .. MaxRequests /\ served + 1 \in Nat
    BY <1>1, Arrives DEF ReadAccount
  <2>2. request \in Request
    BY <2>1 DEF Request, TwoFactorTypeOK
  <2> HIDE DEF request
  <2> QED BY <1>1, <2>1, <2>2, SlotStep DEF ReadAccount, TwoFactorTypeOK
<1>2. CASE SaveSetup(r)
  BY <1>2, SetupSaves, Continues, SlotStep DEF SaveSetup, End, TwoFactorTypeOK
<1>3. CASE SaveVerified(r)
  BY <1>3, VerifiedSaves, Continues, SlotStep DEF SaveVerified, End, TwoFactorTypeOK
<1>4. CASE SaveCodes(r)
  BY <1>4, CodesSaves, Continues, SlotStep DEF SaveCodes, End, TwoFactorTypeOK
<1>5. CASE SaveDisabled(r)
  BY <1>5, DisabledSaves, Continues, SlotStep DEF SaveDisabled, End, TwoFactorTypeOK
<1>6. CASE SaveProfile(r)
  BY <1>6, ProfileSaves, Continues, SlotStep DEF SaveProfile, End, TwoFactorTypeOK
<1> QED BY <1>1, <1>2, <1>3, <1>4, <1>5, <1>6 DEF Manage

LEMMA LogInShape ==
  ASSUME TwoFactorTypeOK, NEW r \in Slots, LogIn(r)
  PROVE  TwoFactorTypeOK'
<1> USE IdleType
<1>1. CASE AskSecondFactor(r)
  <2> DEFINE request == [op |-> "open", id |-> served + 1]
  <2>1. Become(r, request) /\ served' \in 0 .. MaxRequests /\ served + 1 \in Nat
    BY <1>1, Arrives DEF AskSecondFactor
  <2>2. request \in Request
    BY <2>1 DEF Request
  <2> HIDE DEF request
  <2> QED BY <1>1, <2>1, <2>2, SlotStep DEF AskSecondFactor, TwoFactorTypeOK
<1>2. CASE OpenSession(r)
  <2> DEFINE session == [id |-> requests[r].id, used |-> FALSE]
  <2>1. session \in Session
    BY <1>2, SlotParts DEF OpenSession, Numbered, Session
  <2>2. Become(r, Idle) /\ served' \in 0 .. MaxRequests
    BY <1>2, Continues DEF OpenSession, End
  <2>3. sessions' = sessions \cup {session}
    BY <1>2 DEF OpenSession
  <2> HIDE DEF session
  <2> QED BY <1>2, <2>1, <2>2, <2>3, SlotStep DEF OpenSession, TwoFactorTypeOK
<1>3. ASSUME NEW session \in sessions, FindSession(r, session)
      PROVE  TwoFactorTypeOK'
  <2> DEFINE request == [op |-> "mark", of |-> session.id]
  <2>1. Become(r, request) /\ served' \in 0 .. MaxRequests
    BY <1>3, Arrives DEF FindSession
  <2>2. request \in Request
    BY DEF Request, TwoFactorTypeOK, Session
  <2> HIDE DEF request
  <2> QED BY <1>3, <2>1, <2>2, SlotStep DEF FindSession, TwoFactorTypeOK
<1>4. CASE MarkSession(r)
  <2> DEFINE request == [op |-> "check", of |-> requests[r].of]
  <2>1. Become(r, request) /\ served' \in 0 .. MaxRequests
    BY <1>4, Continues DEF MarkSession
  <2>2. request \in Request
    BY <1>4, SlotParts DEF MarkSession, Request, Referring
  <2>3. sessions' \subseteq Session
    <3> SUFFICES ASSUME NEW session \in sessions
                 PROVE  (IF session.id = requests[r].of THEN [session EXCEPT !.used = TRUE]
                                                        ELSE session) \in Session
      BY <1>4 DEF MarkSession
    <3> QED BY DEF TwoFactorTypeOK, Session
  <2> HIDE DEF request
  <2> QED BY <1>4, <2>1, <2>2, <2>3, SlotStep DEF MarkSession, TwoFactorTypeOK
<1>5. CASE CheckTOTP(r)
  <2> DEFINE request == [op |-> "accept", of |-> requests[r].of, with |-> {}]
  <2>1. Become(r, request) /\ served' \in 0 .. MaxRequests
    BY <1>5, Continues DEF CheckTOTP
  <2>2. request \in Request
    BY <1>5, SlotParts DEF CheckTOTP, Request, Referring
  <2> HIDE DEF request
  <2> QED BY <1>5, <2>1, <2>2, SlotStep DEF CheckTOTP, TwoFactorTypeOK
<1>6. ASSUME NEW code \in account.codes, CheckBackup(r, code)
      PROVE  TwoFactorTypeOK'
  <2> DEFINE request == [op |-> "spend", of |-> requests[r].of, code |-> code, copy |-> account]
  <2>1. Become(r, request) /\ served' \in 0 .. MaxRequests
    BY <1>6, Continues DEF CheckBackup
  <2>2. code \in BackupCode
    BY DEF TwoFactorTypeOK, Account
  <2>3. request \in Request
    BY <1>6, <2>2, SlotParts DEF CheckBackup, Request, Referring, TwoFactorTypeOK
  <2> HIDE DEF request
  <2> QED BY <1>6, <2>1, <2>3, SlotStep DEF CheckBackup, TwoFactorTypeOK
<1>7. CASE SpendCode(r)
  <2> DEFINE request == [op |-> "accept", of |-> requests[r].of, with |-> {requests[r].code}]
  <2>1. Become(r, request) /\ served' \in 0 .. MaxRequests
    BY <1>7, Continues DEF SpendCode
  <2>2. request \in Request
    BY <1>7, SlotParts DEF SpendCode, Request, Referring
  <2> HIDE DEF request
  <2> QED BY <1>7, <2>1, <2>2, SpendSaves, SlotStep DEF SpendCode, TwoFactorTypeOK
<1>8. CASE Accept(r)
  <2>1. /\ requests[r].of \in Nat /\ requests[r].with \in SUBSET BackupCode
        /\ accepted' = Append(accepted, [slot |-> r, of |-> requests[r].of, with |-> requests[r].with])
    BY <1>8, SlotParts DEF Accept, Referring
  <2>2. accepted' \in Seq([slot : Slots, of : Nat, with : SUBSET BackupCode])
    BY <2>1, Appends
  <2>3. Become(r, Idle) /\ served' = served
    BY <1>8, Continues DEF Accept, End
  <2> QED BY <1>8, <2>2, <2>3 DEF Accept, TwoFactorTypeOK, Become
<1> QED BY <1>1, <1>2, <1>3, <1>4, <1>5, <1>6, <1>7, <1>8 DEF LogIn

LEMMA PlaceType ==
  ASSUME TwoFactorTypeOK, NEW i \in DOMAIN account.passkeys
  PROVE  i \in Nat /\ account.passkeys[i] \in Passkey
<1>1. account.passkeys \in Seq(Passkey)
  BY DEF TwoFactorTypeOK, Account
<1> QED BY <1>1

LEMMA UsePasskeyShape ==
  ASSUME TwoFactorTypeOK, NEW r \in Slots, UsePasskey(r)
  PROVE  TwoFactorTypeOK'
<1> USE IdleType
<1>1. ASSUME NEW challenge \in challenges, NEW op \in {"registration", "login"},
             FindChallenge(r, challenge, op)
      PROVE  TwoFactorTypeOK'
  <2> DEFINE request == [op |-> op, of |-> challenge]
  <2>1. Become(r, request) /\ served' \in 0 .. MaxRequests /\ served + 1 \in Nat
    BY <1>1, Arrives DEF FindChallenge
  <2>2. request \in Request
    BY <2>1 DEF Request, TwoFactorTypeOK
  <2> HIDE DEF request
  <2> QED BY <1>1, <2>1, <2>2, SlotStep DEF FindChallenge, TwoFactorTypeOK
<1>2. CASE ReadToRegister(r)
  <2> DEFINE request == [op |-> "register", of |-> requests[r].of, copy |-> account]
  <2>1. Become(r, request) /\ served' \in 0 .. MaxRequests
    BY <1>2, Continues DEF ReadToRegister
  <2>2. request \in Request
    BY <1>2, SlotParts DEF ReadToRegister, Request, Referring, TwoFactorTypeOK
  <2> HIDE DEF request
  <2> QED BY <1>2, <2>1, <2>2, SlotStep DEF ReadToRegister, TwoFactorTypeOK
<1>3. CASE SavePasskey(r)
  <2> DEFINE request == [op |-> "registered", of |-> requests[r].of]
  <2>1. Become(r, request) /\ served' \in 0 .. MaxRequests
    BY <1>3, Continues DEF SavePasskey
  <2>2. request \in Request
    BY <1>3, SlotParts DEF SavePasskey, Request, Referring
  <2> HIDE DEF request
  <2> QED BY <1>3, <2>1, <2>2, PasskeySaves, SlotStep DEF SavePasskey, TwoFactorTypeOK
<1>4. ASSUME NEW i \in DOMAIN account.passkeys, NEW count \in 0 .. MaxCount,
             CheckPasskey(r, i, count)
      PROVE  TwoFactorTypeOK'
  <2> DEFINE request == [op |-> "count", of |-> requests[r].of, at |-> i, count |-> count,
                         copy |-> account]
  <2>1. Become(r, request) /\ served' \in 0 .. MaxRequests
    BY <1>4, Continues DEF CheckPasskey
  <2>2. i \in Nat
    BY PlaceType
  <2>3. request \in Request
    BY <1>4, <2>2, SlotParts DEF CheckPasskey, Request, Referring, TwoFactorTypeOK
  <2> HIDE DEF request
  <2> QED BY <1>4, <2>1, <2>3, SlotStep DEF CheckPasskey, TwoFactorTypeOK
<1>5. CASE SaveCount(r)
  <2> DEFINE request == [op |-> "counted", of |-> requests[r].of]
  <2>1. Become(r, request) /\ served' \in 0 .. MaxRequests
    BY <1>5, Continues DEF SaveCount
  <2>2. request \in Request
    BY <1>5, SlotParts DEF SaveCount, Request, Referring
  <2> HIDE DEF request
  <2> QED BY <1>5, <2>1, <2>2, CountSaves, SlotStep DEF SaveCount, TwoFactorTypeOK
<1>6. CASE DropChallenge(r)
  <2>1. requests[r].of \in Nat
    BY <1>6, SlotParts DEF DropChallenge, Referring
  <2>2. CASE requests[r].op = "registered"
    <3>1. accepted' = Append(accepted, [slot |-> r, of |-> requests[r].of, with |-> {}])
      BY <1>6, <2>2 DEF DropChallenge
    <3> DEFINE with == {}
    <3>2. with \in SUBSET BackupCode /\ accepted' = Append(accepted, [slot |-> r, of |-> requests[r].of, with |-> with])
      BY <3>1
    <3> HIDE DEF with
    <3>3. accepted' \in Seq([slot : Slots, of : Nat, with : SUBSET BackupCode])
      BY <2>1, <3>2, Appends
    <3>4. Become(r, Idle) /\ served' = served
      BY <1>6, <2>2, Continues DEF DropChallenge, End
    <3> QED BY <1>6, <3>3, <3>4 DEF DropChallenge, TwoFactorTypeOK, Become
  <2>3. CASE requests[r].op = "counted"
    <3> DEFINE request == [op |-> "accept", of |-> requests[r].of, with |-> {}]
    <3>1. Become(r, request) /\ served' \in 0 .. MaxRequests /\ accepted' = accepted
      BY <1>6, <2>3, Continues DEF DropChallenge
    <3>2. request \in Request
      BY <2>1 DEF Request
    <3> HIDE DEF request
    <3> QED BY <1>6, <3>1, <3>2, SlotStep DEF DropChallenge, TwoFactorTypeOK
  <2> QED BY <1>6, <2>2, <2>3 DEF DropChallenge
<1>7. ASSUME NEW i \in DOMAIN account.passkeys, FindPasskey(r, i)
      PROVE  TwoFactorTypeOK'
  <2> DEFINE request == [op |-> "delete", at |-> i, copy |-> account]
  <2>1. Become(r, request) /\ served' \in 0 .. MaxRequests
    BY <1>7, Arrives DEF FindPasskey
  <2>2. i \in Nat
    BY PlaceType
  <2>3. request \in Request
    BY <2>2 DEF Request, TwoFactorTypeOK
  <2> HIDE DEF request
  <2> QED BY <1>7, <2>1, <2>3, SlotStep DEF FindPasskey, TwoFactorTypeOK
<1>8. CASE DeletePasskey(r)
  BY <1>8, DeleteSaves, Continues, SlotStep DEF DeletePasskey, End, TwoFactorTypeOK
<1> QED BY <1>1, <1>2, <1>3, <1>4, <1>5, <1>6, <1>7, <1>8 DEF UsePasskey

LEMMA NextShape == TwoFactorTypeOK /\ [Next]_vars => TwoFactorTypeOK'
<1> SUFFICES ASSUME TwoFactorTypeOK, [Next]_vars PROVE TwoFactorTypeOK'
  OBVIOUS
<1>1. ASSUME NEW r \in Slots, Abandon(r)
      PROVE  TwoFactorTypeOK'
  BY <1>1, IdleType, Continues, SlotStep DEF Abandon, End, TwoFactorTypeOK
<1>2. CASE NewChallenge
  <2>1. served' \in 0 .. MaxRequests /\ served + 1 \in Nat
    BY <1>2, TwoFactorAssumption DEF NewChallenge, TwoFactorTypeOK
  <2> QED BY <1>2, <2>1 DEF NewChallenge, TwoFactorTypeOK
<1>3. CASE Expire
  BY <1>3 DEF Expire, TwoFactorTypeOK
<1>4. CASE UNCHANGED vars
  BY <1>4 DEF vars, TwoFactorTypeOK
<1> QED BY <1>1, <1>2, <1>3, <1>4, ManageShape, LogInShape, UsePasskeyShape DEF Next

LEMMA InitShape == Init => TwoFactorTypeOK
<1> SUFFICES ASSUME Init PROVE TwoFactorTypeOK
  OBVIOUS
<1>1. account \in Account
  BY DEF Init, NewAccount, Account
<1>2. requests \in [Slots -> Request]
  BY IdleType DEF Init
<1>3. served \in 0 .. MaxRequests
  BY TwoFactorAssumption DEF Init
<1> QED BY <1>1, <1>2, <1>3 DEF Init, TwoFactorTypeOK

-----------------------------------------------------------------------------
(***************************************************************************)
(* Numbers: the secret, the backup codes or the session that a request     *)
(* will make are not in use before, and no two requests make the same.     *)
(***************************************************************************)
Held(acc, n) ==
  \/ acc.secret = n /\ n # 0
  \/ \E code \in acc.codes : code[1] = n

Mentions(request, n) ==
  \/ Copying(request) /\ Held(request.copy, n)
  \/ Referring(request) /\ request.of = n
  \/ request.op = "spend" /\ request.code[1] = n
  \/ request.op = "accept" /\ \E code \in request.with : code[1] = n

Kept(n) ==
  \/ \E session \in sessions : session.id = n
  \/ n \in challenges
  \/ \E i \in DOMAIN accepted :
       accepted[i].of = n \/ \E code \in accepted[i].with : code[1] = n

Used(n) == Held(account, n) \/ Kept(n) \/ \E s \in Slots : Mentions(requests[s], n)

FreshInv ==
  /\ \A n \in Nat : Used(n) =>
       n <= served /\ \A r \in Slots : Numbered(requests[r]) => requests[r].id # n
  /\ \A r \in Slots : Numbered(requests[r]) => requests[r].id \in 1 .. served
  /\ \A r, s \in Slots :
       r # s /\ Numbered(requests[r]) /\ Numbered(requests[s]) => requests[r].id # requests[s].id

LEMMA UsedStep ==
  ASSUME TwoFactorTypeOK, NEW r \in Slots, NEW request, Become(r, request), NEW extra,
         \A n \in Nat : Held(account', n) => Used(n) \/ n \in extra,
         \A n \in Nat : Kept(n)' => Used(n) \/ n \in extra,
         \A n \in Nat : Mentions(request, n) => Used(n) \/ n \in extra
  PROVE  \A n \in Nat : Used(n)' => Used(n) \/ n \in extra
<1> SUFFICES ASSUME NEW n \in Nat, Used(n)'
             PROVE  Used(n) \/ n \in extra
  OBVIOUS
<1>1. ASSUME NEW s \in Slots, Mentions(requests'[s], n), s # r
      PROVE  Used(n)
  BY <1>1, Becomes DEF Used
<1>2. requests'[r] = request
  BY Becomes
<1>3. Held(account', n) \/ Kept(n)' \/ \E s \in Slots : Mentions(requests'[s], n)
  BY DEF Used
<1> QED BY <1>1, <1>2, <1>3

LEMMA UsedSame ==
  ASSUME TwoFactorTypeOK, NEW r \in Slots, NEW request, Become(r, request),
         \A n \in Nat : Held(account', n) => Used(n),
         \A n \in Nat : Kept(n)' => Used(n),
         \A n \in Nat : Mentions(request, n) => Used(n)
  PROVE  \A n \in Nat : Used(n)' => Used(n)
<1> DEFINE none == {}
<1>1. \A n : n \notin none
  OBVIOUS
<1> HIDE DEF none
<1>2. \A n \in Nat : Used(n)' => Used(n) \/ n \in none
  BY UsedStep
<1> QED BY <1>1, <1>2

\* A step of a request under way, which may use its number up.
LEMMA FreshStays ==
  ASSUME TwoFactorTypeOK, FreshInv, NEW r \in Slots, NEW request, Become(r, request), served' = served,
         Numbered(request) => Numbered(requests[r]) /\ request.id = requests[r].id,
         \A n \in Nat : Used(n)' =>
           Used(n) \/ (Numbered(requests[r]) /\ ~Numbered(request) /\ n = requests[r].id)
  PROVE  FreshInv'
<1>1. \A s \in Slots : Numbered(requests'[s]) =>
        Numbered(requests[s]) /\ requests'[s].id = requests[s].id
  BY Becomes
<1>2. \A s \in Slots : Numbered(requests[s]) => requests[s].id \in 1 .. served
  BY DEF FreshInv
<1>3. ASSUME NEW n \in Nat, Used(n)'
      PROVE  n <= served' /\ \A s \in Slots : Numbered(requests'[s]) => requests'[s].id # n
  <2>1. CASE Used(n)
    BY <1>1, <2>1 DEF FreshInv
  <2>2. CASE Numbered(requests[r]) /\ ~Numbered(request) /\ n = requests[r].id
    <3>1. n <= served
      BY <1>2, <2>2
    <3>2. \A s \in Slots : Numbered(requests[s]) /\ s # r => requests[s].id # n
      BY <2>2 DEF FreshInv
    <3>3. ~Numbered(requests'[r])
      BY <2>2, Becomes
    <3> QED BY <1>1, <3>1, <3>2, <3>3
  <2> QED BY <1>3, <2>1, <2>2
<1>4. \A s \in Slots : Numbered(requests'[s]) => requests'[s].id \in 1 .. served'
  BY <1>1, <1>2
<1>5. ASSUME NEW s \in Slots, NEW t \in Slots, s # t, Numbered(requests'[s]), Numbered(requests'[t])
      PROVE  requests'[s].id # requests'[t].id
  BY <1>1, <1>5 DEF FreshInv
<1> QED BY <1>3, <1>4, <1>5 DEF FreshInv

LEMMA FreshArrives ==
  ASSUME TwoFactorTypeOK, FreshInv, NEW r \in Slots, NEW request, Become(r, request),
         requests[r] = Idle, served' = served + 1,
         Numbered(request) => request.id = served + 1,
         \A n \in Nat : Used(n)' => Used(n)
  PROVE  FreshInv'
<1>1. served \in Nat /\ served + 1 \in Nat
  BY TwoFactorAssumption DEF TwoFactorTypeOK
<1>2. \A s \in Slots : s # r => requests'[s] = requests[s]
  BY Becomes
<1>3. requests'[r] = request
  BY Becomes
<1>4. ASSUME NEW n \in Nat, Used(n)'
      PROVE  n <= served' /\ \A s \in Slots : Numbered(requests'[s]) => requests'[s].id # n
  <2>1. n <= served /\ \A s \in Slots : Numbered(requests[s]) => requests[s].id # n
    BY <1>4 DEF FreshInv
  <2>2. n <= served' /\ n # served + 1
    BY <1>1, <2>1
  <2> QED BY <1>2, <1>3, <2>1, <2>2
<1>5. \A s \in Slots : s # r /\ Numbered(requests'[s]) =>
        requests'[s].id \in 1 .. served' /\ requests'[s].id # served + 1
  BY <1>1, <1>2 DEF FreshInv
<1>6. Numbered(requests'[r]) => requests'[r].id \in 1 .. served' /\ requests'[r].id = served + 1
  BY <1>1, <1>3
<1>7. ASSUME NEW s \in Slots, NEW t \in Slots, s # t, Numbered(requests'[s]), Numbered(requests'[t])
      PROVE  requests'[s].id # requests'[t].id
  <2>1. CASE s # r /\ t # r
    BY <1>2, <1>7, <2>1 DEF FreshInv
  <2> QED BY <1>5, <1>6, <1>7, <2>1
<1> QED BY <1>4, <1>5, <1>6, <1>7 DEF FreshInv

LEMMA CodesAreNumbered == \A n : \A code \in NewCodes(n) : code[1] = n
BY DEF NewCodes

LEMMA IdleNothing ==
  /\ ~Numbered(Idle) /\ ~Referring(Idle) /\ ~Copying(Idle) /\ Idle.op = "idle"
  /\ \A n : ~Mentions(Idle, n)
BY DEF Idle, Numbered, Referring, Copying, ManageOps, Unversioned, Versioned, Mentions

LEMMA InUse ==
  ASSUME NEW n
  PROVE  /\ Held(account, n) => Used(n)
         /\ Kept(n) => Used(n)
         /\ \A r \in Slots : Mentions(requests[r], n) => Used(n)
BY DEF Used

\* A step that touches neither sessions nor challenges nor what was accepted.
LEMMA FreshMoves ==
  ASSUME TwoFactorTypeOK, FreshInv, NEW r \in Slots, NEW request, Continue(r, request),
         UNCHANGED <<sessions, challenges, accepted>>,
         Numbered(request) => Numbered(requests[r]) /\ request.id = requests[r].id,
         \A n \in Nat : Held(account', n) =>
           Used(n) \/ (Numbered(requests[r]) /\ ~Numbered(request) /\ n = requests[r].id),
         \A n \in Nat : Mentions(request, n) => Used(n)
  PROVE  FreshInv'
<1>1. Become(r, request) /\ served' = served
  BY Continues
<1>2. \A n \in Nat : Kept(n)' => Used(n)
  BY InUse DEF Kept
<1>3. CASE Numbered(requests[r]) /\ ~Numbered(request)
  <2>1. \A n \in Nat : Used(n)' => Used(n) \/ n \in {requests[r].id}
    BY <1>1, <1>2, UsedStep
  <2> QED BY <1>1, <1>3, <2>1, FreshStays
<1>4. CASE ~(Numbered(requests[r]) /\ ~Numbered(request))
  <2>1. \A n \in Nat : Used(n)' => Used(n)
    BY <1>1, <1>2, <1>4, UsedSame
  <2> QED BY <1>1, <1>4, <2>1, FreshStays
<1> QED BY <1>3, <1>4

LEMMA FreshBegins ==
  ASSUME TwoFactorTypeOK, FreshInv, NEW r \in Slots, NEW request, Begin(r, request),
         UNCHANGED <<account, sessions, challenges, accepted>>,
         Numbered(request) => request.id = served + 1,
         \A n \in Nat : Mentions(request, n) => Used(n)
  PROVE  FreshInv'
<1>1. Become(r, request) /\ served' = served + 1 /\ requests[r] = Idle
  BY Arrives
<1>2. \A n \in Nat : Kept(n)' => Used(n)
  BY InUse DEF Kept
<1>3. \A n \in Nat : Held(account', n) => Used(n)
  BY InUse
<1>4. \A n \in Nat : Used(n)' => Used(n)
  BY <1>1, <1>2, <1>3, UsedSame
<1> QED BY <1>1, <1>4, FreshArrives

LEMMA ManageFresh ==
  ASSUME TwoFactorTypeOK, FreshInv, NEW r \in Slots, Manage(r)
  PROVE  FreshInv'
<1> USE IdleNothing
<1>1. ASSUME NEW op \in Unversioned \cup Versioned, ReadAccount(r, op)
      PROVE  FreshInv'
  <2> DEFINE request == [op |-> op, id |-> served + 1, copy |-> account]
  <2>1. \A n \in Nat : Mentions(request, n) => Used(n)
    BY InUse DEF Mentions, Referring, Unversioned, Versioned
  <2>2. Numbered(request) => request.id = served + 1
    OBVIOUS
  <2>3. Begin(r, request) /\ UNCHANGED <<account, sessions, challenges, accepted>>
    BY <1>1 DEF ReadAccount
  <2> HIDE DEF request
  <2> QED BY <2>1, <2>2, <2>3, FreshBegins
<1>2. CASE SaveSetup(r)
  <2>1. \A n \in Nat : Held(account', n) => Held(account, n) \/ n = requests[r].id
    BY <1>2, SetupSaves DEF Held
  <2>2. Numbered(requests[r])
    BY <1>2 DEF SaveSetup, Numbered, ManageOps, Unversioned
  <2> QED BY <1>2, <2>1, <2>2, InUse, FreshMoves DEF SaveSetup, End
<1>3. CASE SaveVerified(r)
  <2>1. \A n \in Nat : Held(account', n) => Held(account, n) \/ n = requests[r].id
    BY <1>3, VerifiedSaves, CodesAreNumbered DEF Held
  <2>2. Numbered(requests[r])
    BY <1>3 DEF SaveVerified, Numbered, ManageOps, Versioned
  <2> QED BY <1>3, <2>1, <2>2, InUse, FreshMoves DEF SaveVerified, End
<1>4. CASE SaveCodes(r)
  <2>1. \A n \in Nat : Held(account', n) => Held(account, n) \/ n = requests[r].id
    BY <1>4, CodesSaves, CodesAreNumbered DEF Held
  <2>2. Numbered(requests[r])
    BY <1>4 DEF SaveCodes, Numbered, ManageOps, Versioned
  <2> QED BY <1>4, <2>1, <2>2, InUse, FreshMoves DEF SaveCodes, End
<1>5. CASE SaveDisabled(r)
  <2>1. \A n \in Nat : Held(account', n) => Held(account, n)
    BY <1>5, DisabledSaves DEF Held
  <2> QED BY <1>5, <2>1, InUse, FreshMoves DEF SaveDisabled, End
<1>6. CASE SaveProfile(r)
  <2>1. \A n \in Nat : Held(account', n) => Held(account, n)
    BY <1>6, ProfileSaves DEF Held
  <2> QED BY <1>6, <2>1, InUse, FreshMoves DEF SaveProfile, End
<1> QED BY <1>1, <1>2, <1>3, <1>4, <1>5, <1>6 DEF Manage

LEMMA LogInFresh ==
  ASSUME TwoFactorTypeOK, FreshInv, NEW r \in Slots, LogIn(r)
  PROVE  FreshInv'
<1> USE IdleNothing
<1>1. CASE AskSecondFactor(r)
  <2> DEFINE request == [op |-> "open", id |-> served + 1]
  <2>1. \A n \in Nat : ~Mentions(request, n)
    BY DEF Mentions, Referring, Copying, ManageOps, Unversioned, Versioned
  <2>2. Numbered(request) => request.id = served + 1
    OBVIOUS
  <2>3. Begin(r, request) /\ UNCHANGED <<account, sessions, challenges, accepted>>
    BY <1>1 DEF AskSecondFactor
  <2> HIDE DEF request
  <2> QED BY <2>1, <2>2, <2>3, FreshBegins
<1>2. CASE OpenSession(r)
  <2>1. Become(r, Idle) /\ served' = served
    BY <1>2, Continues DEF OpenSession, End
  <2>2. \A n \in Nat : Kept(n)' => Kept(n) \/ n = requests[r].id
    BY <1>2 DEF OpenSession, Kept
  <2>3. \A n \in Nat : Held(account', n) => Held(account, n)
    BY <1>2 DEF OpenSession
  <2>4. \A n \in Nat : Used(n)' => Used(n) \/ n \in {requests[r].id}
    BY <2>1, <2>2, <2>3, InUse, UsedStep
  <2>5. Numbered(requests[r])
    BY <1>2 DEF OpenSession, Numbered
  <2> QED BY <2>1, <2>4, <2>5, FreshStays
<1>3. ASSUME NEW session \in sessions, FindSession(r, session)
      PROVE  FreshInv'
  <2> DEFINE request == [op |-> "mark", of |-> session.id]
  <2>1. \A n \in Nat : Mentions(request, n) => Used(n)
    BY InUse DEF Mentions, Copying, ManageOps, Unversioned, Versioned, Kept
  <2>2. ~Numbered(request)
    BY DEF Numbered, ManageOps, Unversioned, Versioned
  <2>3. Begin(r, request) /\ UNCHANGED <<account, sessions, challenges, accepted>>
    BY <1>3 DEF FindSession
  <2> HIDE DEF request
  <2> QED BY <2>1, <2>2, <2>3, FreshBegins
<1>4. CASE MarkSession(r)
  <2> DEFINE request == [op |-> "check", of |-> requests[r].of]
  <2>1. \A n \in Nat : Mentions(request, n) => Mentions(requests[r], n)
    BY <1>4 DEF MarkSession, Mentions, Referring, Copying, ManageOps, Unversioned, Versioned
  <2>2. ~Numbered(request)
    BY DEF Numbered, ManageOps, Unversioned, Versioned
  <2>3. Become(r, request) /\ served' = served
    BY <1>4, Continues DEF MarkSession
  <2>4. ASSUME NEW session \in sessions'
        PROVE  \E old \in sessions : session.id = old.id
    <3>1. PICK old \in sessions : session = IF old.id = requests[r].of
                                              THEN [old EXCEPT !.used = TRUE] ELSE old
      BY <1>4 DEF MarkSession
    <3>2. old \in Session
      BY DEF TwoFactorTypeOK
    <3> QED BY <3>1, <3>2 DEF Session
  <2>5. \A n \in Nat : Kept(n)' => Kept(n)
    BY <1>4, <2>4 DEF MarkSession, Kept
  <2>6. \A n \in Nat : Held(account', n) => Held(account, n)
    BY <1>4 DEF MarkSession
  <2> HIDE DEF request
  <2>7. \A n \in Nat : Used(n)' => Used(n)
    BY <2>1, <2>3, <2>5, <2>6, InUse, UsedSame
  <2> QED BY <2>2, <2>3, <2>7, FreshStays
<1>5. CASE CheckTOTP(r)
  <2> DEFINE request == [op |-> "accept", of |-> requests[r].of, with |-> {}]
  <2>1. \A n \in Nat : Mentions(request, n) => Mentions(requests[r], n)
    BY <1>5 DEF CheckTOTP, Mentions, Referring, Copying, ManageOps, Unversioned, Versioned
  <2>2. ~Numbered(request)
    BY DEF Numbered, ManageOps, Unversioned, Versioned
  <2>3. Continue(r, request) /\ UNCHANGED <<account, sessions, challenges, accepted>>
    BY <1>5 DEF CheckTOTP
  <2> HIDE DEF request
  <2> QED BY <2>1, <2>2, <2>3, InUse, FreshMoves
<1>6. ASSUME NEW code \in account.codes, CheckBackup(r, code)
      PROVE  FreshInv'
  <2> DEFINE request == [op |-> "spend", of |-> requests[r].of, code |-> code, copy |-> account]
  <2>1. \A n \in Nat : Mentions(request, n) => Mentions(requests[r], n) \/ Held(account, n)
    BY <1>6 DEF CheckBackup, Mentions, Referring, Held
  <2>2. ~Numbered(request)
    BY DEF Numbered, ManageOps, Unversioned, Versioned
  <2>3. Continue(r, request) /\ UNCHANGED <<account, sessions, challenges, accepted>>
    BY <1>6 DEF CheckBackup
  <2> HIDE DEF request
  <2> QED BY <2>1, <2>2, <2>3, InUse, FreshMoves
<1>7. CASE SpendCode(r)
  <2> DEFINE request == [op |-> "accept", of |-> requests[r].of, with |-> {requests[r].code}]
  <2>1. \A n \in Nat : Mentions(request, n) => Mentions(requests[r], n)
    BY <1>7 DEF SpendCode, Mentions, Referring, Copying, ManageOps, Unversioned, Versioned
  <2>2. ~Numbered(request)
    BY DEF Numbered, ManageOps, Unversioned, Versioned
  <2>3. Continue(r, request) /\ UNCHANGED <<sessions, challenges, accepted>>
    BY <1>7 DEF SpendCode
  <2>4. \A n \in Nat : Held(account', n) => Held(account, n) \/ Mentions(requests[r], n)
    BY <1>7, SpendSaves DEF SpendCode, Held, Mentions, Copying
  <2> HIDE DEF request
  <2> QED BY <2>1, <2>2, <2>3, <2>4, InUse, FreshMoves
<1>8. CASE Accept(r)
  <2>1. Become(r, Idle) /\ served' = served
    BY <1>8, Continues DEF Accept, End
  <2>2. \A n \in Nat : Held(account', n) => Held(account, n)
    BY <1>8 DEF Accept
  <2>3. ASSUME NEW n \in Nat, Kept(n)'
        PROVE  Kept(n) \/ Mentions(requests[r], n)
    <3>1. /\ requests[r].of \in Nat /\ requests[r].with \in SUBSET BackupCode
          /\ accepted' = Append(accepted, [slot |-> r, of |-> requests[r].of, with |-> requests[r].with])
      BY <1>8, SlotParts DEF Accept, Referring
    <3>2. \A i \in DOMAIN accepted' :
            \/ accepted'[i].of = requests[r].of /\ accepted'[i].with = requests[r].with
            \/ i \in DOMAIN accepted /\ accepted'[i] = accepted[i]
      BY <3>1, Appends
    <3> QED BY <1>8, <2>3, <3>2 DEF Accept, Kept, Mentions, Referring
  <2>4. \A n \in Nat : Used(n)' => Used(n)
    BY <2>1, <2>2, <2>3, InUse, UsedSame
  <2> QED BY <2>1, <2>4, FreshStays
<1> QED BY <1>1, <1>2, <1>3, <1>4, <1>5, <1>6, <1>7, <1>8 DEF LogIn

LEMMA UsePasskeyFresh ==
  ASSUME TwoFactorTypeOK, FreshInv, NEW r \in Slots, UsePasskey(r)
  PROVE  FreshInv'
<1> USE IdleNothing
<1>1. ASSUME NEW challenge \in challenges, NEW op \in {"registration", "login"},
             FindChallenge(r, challenge, op)
      PROVE  FreshInv'
  <2> DEFINE request == [op |-> op, of |-> challenge]
  <2>1. \A n \in Nat : Mentions(request, n) => Used(n)
    BY InUse DEF Mentions, Copying, ManageOps, Unversioned, Versioned, Kept
  <2>2. ~Numbered(request)
    BY DEF Numbered, ManageOps, Unversioned, Versioned
  <2>3. Begin(r, request) /\ UNCHANGED <<account, sessions, challenges, accepted>>
    BY <1>1 DEF FindChallenge
  <2> HIDE DEF request
  <2> QED BY <2>1, <2>2, <2>3, FreshBegins
<1>2. CASE ReadToRegister(r)
  <2> DEFINE request == [op |-> "register", of |-> requests[r].of, copy |-> account]
  <2>1. \A n \in Nat : Mentions(request, n) => Mentions(requests[r], n) \/ Held(account, n)
    BY <1>2 DEF ReadToRegister, Mentions, Referring
  <2>2. ~Numbered(request)
    BY DEF Numbered, ManageOps, Unversioned, Versioned
  <2>3. Continue(r, request) /\ UNCHANGED <<account, sessions, challenges, accepted>>
    BY <1>2 DEF ReadToRegister
  <2> HIDE DEF request
  <2> QED BY <2>1, <2>2, <2>3, InUse, FreshMoves
<1>3. CASE SavePasskey(r)
  <2> DEFINE request == [op |-> "registered", of |-> requests[r].of]
  <2>1. \A n \in Nat : Mentions(request, n) => Mentions(requests[r], n)
    BY <1>3 DEF SavePasskey, Mentions, Referring, Copying, ManageOps, Unversioned, Versioned
  <2>2. ~Numbered(request)
    BY DEF Numbered, ManageOps, Unversioned, Versioned
  <2>3. Continue(r, request) /\ UNCHANGED <<sessions, challenges, accepted>>
    BY <1>3 DEF SavePasskey
  <2>4. \A n \in Nat : Held(account', n) => Held(account, n)
    BY <1>3, PasskeySaves DEF Held
  <2> HIDE DEF request
  <2> QED BY <2>1, <2>2, <2>3, <2>4, InUse, FreshMoves
<1>4. ASSUME NEW i \in DOMAIN account.passkeys, NEW count \in 0 .. MaxCount,
             CheckPasskey(r, i, count)
      PROVE  FreshInv'
  <2> DEFINE request == [op |-> "count", of |-> requests[r].of, at |-> i, count |-> count,
                         copy |-> account]
  <2>1. \A n \in Nat : Mentions(request, n) => Mentions(requests[r], n) \/ Held(account, n)
    BY <1>4 DEF CheckPasskey, Mentions, Referring
  <2>2. ~Numbered(request)
    BY DEF Numbered, ManageOps, Unversioned, Versioned
  <2>3. Continue(r, request) /\ UNCHANGED <<account, sessions, challenges, accepted>>
    BY <1>4 DEF CheckPasskey
  <2> HIDE DEF request
  <2> QED BY <2>1, <2>2, <2>3, InUse, FreshMoves
<1>5. CASE SaveCount(r)
  <2> DEFINE request == [op |-> "counted", of |-> requests[r].of]
  <2>1. \A n \in Nat : Mentions(request, n) => Mentions(requests[r], n)
    BY <1>5 DEF SaveCount, Mentions, Referring, Copying, ManageOps, Unversioned, Versioned
  <2>2. ~Numbered(request)
    BY DEF Numbered, ManageOps, Unversioned, Versioned
  <2>3. Continue(r, request) /\ UNCHANGED <<sessions, challenges, accepted>>
    BY <1>5 DEF SaveCount
  <2>4. \A n \in Nat : Held(account', n) => Held(account, n)
    BY <1>5, CountSaves DEF Held
  <2> HIDE DEF request
  <2> QED BY <2>1, <2>2, <2>3, <2>4, InUse, FreshMoves
<1>6. CASE DropChallenge(r)
  <2> DEFINE request == [op |-> "accept", of |-> requests[r].of, with |-> {}]
  <2>1. \A n \in Nat : Mentions(request, n) => Mentions(requests[r], n)
    BY <1>6 DEF DropChallenge, Mentions, Referring, Copying, ManageOps, Unversioned, Versioned
  <2>2. ~Numbered(request)
    BY DEF Numbered, ManageOps, Unversioned, Versioned
  <2> HIDE DEF request
  <2>3. PICK next \in {Idle, request} : Continue(r, next)
    BY <1>6 DEF DropChallenge, End, request
  <2>4. Become(r, next) /\ served' = served /\ ~Numbered(next)
    BY <2>2, <2>3, Continues
  <2>5. ASSUME NEW n \in Nat, Kept(n)'
        PROVE  Kept(n) \/ Mentions(requests[r], n)
    <3>1. CASE accepted' = accepted
      BY <1>6, <2>5, <3>1 DEF DropChallenge, Kept
    <3>2. CASE requests[r].op = "registered"
      <4>1. /\ requests[r].of \in Nat
            /\ accepted' = Append(accepted, [slot |-> r, of |-> requests[r].of, with |-> {}])
        BY <1>6, <3>2, SlotParts DEF DropChallenge, Referring
      <4>2. \A i \in DOMAIN accepted' :
              \/ accepted'[i].of = requests[r].of /\ accepted'[i].with = {}
              \/ i \in DOMAIN accepted /\ accepted'[i] = accepted[i]
        BY <4>1, Appends
      <4> QED BY <1>6, <2>5, <3>2, <4>2 DEF DropChallenge, Kept, Mentions, Referring
    <3> QED BY <1>6, <3>1, <3>2 DEF DropChallenge
  <2>6. \A n \in Nat : Held(account', n) => Held(account, n)
    BY <1>6 DEF DropChallenge
  <2>7. \A n \in Nat : Used(n)' => Used(n)
    BY <2>1, <2>4, <2>5, <2>6, InUse, UsedSame
  <2> QED BY <2>4, <2>7, FreshStays
<1>7. ASSUME NEW i \in DOMAIN account.passkeys, FindPasskey(r, i)
      PROVE  FreshInv'
  <2> DEFINE request == [op |-> "delete", at |-> i, copy |-> account]
  <2>1. \A n \in Nat : Mentions(request, n) => Held(account, n)
    BY DEF Mentions, Referring
  <2>2. ~Numbered(request)
    BY DEF Numbered, ManageOps, Unversioned, Versioned
  <2>3. Begin(r, request) /\ UNCHANGED <<account, sessions, challenges, accepted>>
    BY <1>7 DEF FindPasskey
  <2> HIDE DEF request
  <2> QED BY <2>1, <2>2, <2>3, InUse, FreshBegins
<1>8. CASE DeletePasskey(r)
  <2>1. \A n \in Nat : Held(account', n) => Held(account, n)
    BY <1>8, DeleteSaves DEF Held
  <2> QED BY <1>8, <2>1, InUse, FreshMoves DEF DeletePasskey, End
<1> QED BY <1>1, <1>2, <1>3, <1>4, <1>5, <1>6, <1>7, <1>8 DEF UsePasskey

LEMMA NextFresh == TwoFactorTypeOK /\ FreshInv /\ [Next]_vars => FreshInv'
<1> SUFFICES ASSUME TwoFactorTypeOK, FreshInv, [Next]_vars PROVE FreshInv'
  OBVIOUS
<1>1. ASSUME NEW r \in Slots, Abandon(r)
      PROVE  FreshInv'
  BY <1>1, IdleNothing, InUse, FreshMoves DEF Abandon, End
<1>2. CASE NewChallenge
  <2>1. served \in Nat /\ served' = served + 1 /\ served + 1 \in Nat
    BY <1>2, TwoFactorAssumption DEF NewChallenge, TwoFactorTypeOK
  <2>2. \A n \in Nat : Kept(n)' => Kept(n) \/ n = served + 1
    BY <1>2 DEF NewChallenge, Kept
  <2>3. \A n \in Nat : Used(n)' => Used(n) \/ n = served + 1
    BY <1>2, <2>2 DEF NewChallenge, Used
  <2>4. \A s \in Slots : Numbered(requests[s]) => requests[s].id \in 1 .. served' /\ requests[s].id # served + 1
    BY <2>1 DEF FreshInv
  <2>5. \A n \in Nat : Used(n)' =>
          n <= served' /\ \A s \in Slots : Numbered(requests[s]) => requests[s].id # n
    BY <2>1, <2>3, <2>4 DEF FreshInv
  <2>6. requests' = requests
    BY <1>2 DEF NewChallenge
  <2> QED BY <2>4, <2>5, <2>6 DEF FreshInv
<1>3. CASE Expire
  <2>1. \A n \in Nat : Kept(n)' => Kept(n)
    BY <1>3 DEF Expire, Kept
  <2>2. \A n \in Nat : Used(n)' => Used(n)
    BY <1>3, <2>1 DEF Expire, Used
  <2> QED BY <1>3, <2>2 DEF Expire, FreshInv
<1>4. CASE UNCHANGED vars
  BY <1>4 DEF vars, FreshInv, Used, Kept
<1> QED BY <1>1, <1>2, <1>3, <1>4, ManageFresh, LogInFresh, UsePasskeyFresh DEF Next

LEMMA InitFresh == Init => FreshInv
<1> SUFFICES ASSUME Init PROVE FreshInv
  OBVIOUS
<1>1. \A r \in Slots : requests[r] = Idle
  BY DEF Init
<1>2. \A n \in Nat : ~Used(n)
  BY <1>1, IdleNothing DEF Init, Used, Kept, Held, NewAccount
<1> QED BY <1>1, <1>2, IdleNothing DEF FreshInv

-----------------------------------------------------------------------------
(***************************************************************************)
(* Copies: what a handler holds was the account once, and as long as the   *)
(* version is the same nobody has verified the secret since.               *)
(***************************************************************************)
CopyOK(acc, request) ==
  /\ Copying(request) =>
       /\ request.copy.version <= acc.version
       /\ request.copy.version = acc.version /\ acc.verified = "yes"
            => request.copy.verified = "yes"
  /\ request.op \in {"verify", "disable", "regenerate"} => request.copy.secret # 0
  /\ request.op = "spend" => request.code \in request.copy.codes
  /\ request.op = "count" => request.count \in Counts(request.copy.passkeys[request.at])

CopyInv == \A r \in Slots : CopyOK(account, requests[r])

\* What every save does to the version, and to the verification.
Onward ==
  /\ account' \in Account /\ account'.version >= account.version
  /\ account'.version = account.version /\ account'.verified = "yes" => account.verified = "yes"

LEMMA CopyStep ==
  ASSUME TwoFactorTypeOK, CopyInv, NEW r \in Slots, NEW request, Become(r, request),
         Onward, CopyOK(account', request)
  PROVE  CopyInv'
<1>1. ASSUME NEW s \in Slots
      PROVE  CopyOK(account', requests'[s])
  <2>1. CASE s = r
    BY <2>1, Becomes
  <2>2. CASE s # r
    <3>1. requests'[s] = requests[s] /\ CopyOK(account, requests[s])
      BY <2>2, Becomes DEF CopyInv
    <3>2. Copying(requests[s]) => requests[s].copy \in Account
      BY SlotParts
    <3>3. account.version \in Nat /\ account'.version \in Nat
      BY DEF TwoFactorTypeOK, Onward, Account
    <3>4. Copying(requests[s]) => requests[s].copy.version \in Nat
      BY <3>2 DEF Account
    <3> DEFINE request1 == requests[s]
               old == account
               new == account'
    <3>5. /\ CopyOK(old, request1) /\ old.version \in Nat /\ new.version \in Nat
          /\ Copying(request1) => request1.copy.version \in Nat
          /\ new.version >= old.version
          /\ new.version = old.version /\ new.verified = "yes" => old.verified = "yes"
      BY <3>1, <3>3, <3>4 DEF Onward
    <3> HIDE DEF request1, old, new
    <3>6. CopyOK(new, request1)
      BY <3>5 DEF CopyOK
    <3> QED BY <3>1, <3>6 DEF new, request1
  <2> QED BY <2>1, <2>2
<1> QED BY <1>1 DEF CopyInv

LEMMA IdleCopies == \A acc : CopyOK(acc, Idle)
BY IdleNothing DEF CopyOK

LEMMA SameOnward ==
  ASSUME TwoFactorTypeOK, UNCHANGED account
  PROVE  Onward
<1>1. account \in Account /\ account.version \in Nat
  BY DEF TwoFactorTypeOK, Account
<1> QED BY <1>1 DEF Onward

LEMMA ManageCopies ==
  ASSUME TwoFactorTypeOK, CopyInv, NEW r \in Slots, Manage(r)
  PROVE  CopyInv'
<1> USE IdleCopies
<1>0. account \in Account /\ account.version \in Nat
  BY DEF TwoFactorTypeOK, Account
<1>1. ASSUME NEW op \in Unversioned \cup Versioned, ReadAccount(r, op)
      PROVE  CopyInv'
  <2> DEFINE request == [op |-> op, id |-> served + 1, copy |-> account]
  <2>1. Become(r, request) /\ account' = account
    BY <1>1, Arrives DEF ReadAccount
  <2>2. CopyOK(account, request)
    <3>1. op \in {"verify", "disable", "regenerate"} => account.secret # 0
      BY <1>1 DEF ReadAccount
    <3>2. op \notin {"spend", "count"} /\ request.op = op /\ request.copy = account
      BY DEF Unversioned, Versioned
    <3> HIDE DEF request
    <3> QED BY <1>0, <3>1, <3>2 DEF CopyOK, CopyInv
  <2> HIDE DEF request
  <2> QED BY <2>1, <2>2, SameOnward, CopyStep DEF CopyInv
<1>2. CASE SaveSetup(r)
  <2>1. Onward
    BY <1>0, <1>2, SetupSaves DEF Onward
  <2> QED BY <1>2, <2>1, Continues, CopyStep DEF SaveSetup, End, CopyInv
<1>3. CASE SaveVerified(r)
  <2>1. Onward
    <3>1. /\ account' \in Account /\ account'.version = account.version + 1
      BY <1>3, VerifiedSaves
    <3>2. account'.version >= account.version /\ account'.version # account.version
      BY <1>0, <3>1
    <3> QED BY <3>1, <3>2 DEF Onward
  <2> QED BY <1>3, <2>1, Continues, CopyStep DEF SaveVerified, End, CopyInv
<1>4. CASE SaveCodes(r)
  <2>1. Onward
    BY <1>0, <1>4, CodesSaves DEF Onward
  <2> QED BY <1>4, <2>1, Continues, CopyStep DEF SaveCodes, End, CopyInv
<1>5. CASE SaveDisabled(r)
  <2>1. Onward
    BY <1>0, <1>5, DisabledSaves DEF Onward
  <2> QED BY <1>5, <2>1, Continues, CopyStep DEF SaveDisabled, End, CopyInv
<1>6. CASE SaveProfile(r)
  <2>1. Onward
    BY <1>0, <1>6, ProfileSaves, DefaultedType DEF Onward
  <2> QED BY <1>6, <2>1, Continues, CopyStep DEF SaveProfile, End, CopyInv
<1> QED BY <1>1, <1>2, <1>3, <1>4, <1>5, <1>6 DEF Manage

\* A request that keeps no copy.
LEMMA Copyless ==
  ASSUME NEW request, ~Copying(request)
  PROVE  \A acc : CopyOK(acc, request)
BY DEF Copying, CopyOK, ManageOps, Unversioned, Versioned

LEMMA LogInCopies ==
  ASSUME TwoFactorTypeOK, CopyInv, NEW r \in Slots, LogIn(r)
  PROVE  CopyInv'
<1> USE IdleCopies
<1>0. account \in Account /\ account.version \in Nat
  BY DEF TwoFactorTypeOK, Account
<1>1. CASE AskSecondFactor(r)
  <2> DEFINE request == [op |-> "open", id |-> served + 1]
  <2>1. ~Copying(request)
    BY DEF Copying, ManageOps, Unversioned, Versioned
  <2>2. Become(r, request) /\ account' = account
    BY <1>1, Arrives DEF AskSecondFactor
  <2> HIDE DEF request
  <2> QED BY <2>1, <2>2, Copyless, SameOnward, CopyStep DEF CopyInv
<1>2. CASE OpenSession(r) \/ Accept(r)
  BY <1>2, Continues, SameOnward, CopyStep DEF OpenSession, Accept, End, CopyInv
<1>3. ASSUME NEW session \in sessions, FindSession(r, session)
      PROVE  CopyInv'
  <2> DEFINE request == [op |-> "mark", of |-> session.id]
  <2>1. ~Copying(request)
    BY DEF Copying, ManageOps, Unversioned, Versioned
  <2>2. Become(r, request) /\ account' = account
    BY <1>3, Arrives DEF FindSession
  <2> HIDE DEF request
  <2> QED BY <2>1, <2>2, Copyless, SameOnward, CopyStep DEF CopyInv
<1>4. CASE MarkSession(r)
  <2> DEFINE request == [op |-> "check", of |-> requests[r].of]
  <2>1. ~Copying(request)
    BY DEF Copying, ManageOps, Unversioned, Versioned
  <2>2. Become(r, request) /\ account' = account
    BY <1>4, Continues DEF MarkSession
  <2> HIDE DEF request
  <2> QED BY <2>1, <2>2, Copyless, SameOnward, CopyStep DEF CopyInv
<1>5. CASE CheckTOTP(r)
  <2> DEFINE request == [op |-> "accept", of |-> requests[r].of, with |-> {}]
  <2>1. ~Copying(request)
    BY DEF Copying, ManageOps, Unversioned, Versioned
  <2>2. Become(r, request) /\ account' = account
    BY <1>5, Continues DEF CheckTOTP
  <2> HIDE DEF request
  <2> QED BY <2>1, <2>2, Copyless, SameOnward, CopyStep DEF CopyInv
<1>6. ASSUME NEW code \in account.codes, CheckBackup(r, code)
      PROVE  CopyInv'
  <2> DEFINE request == [op |-> "spend", of |-> requests[r].of, code |-> code, copy |-> account]
  <2>1. Become(r, request) /\ account' = account
    BY <1>6, Continues DEF CheckBackup
  <2>2. request.op = "spend" /\ request.code = code /\ request.copy = account
    OBVIOUS
  <2> HIDE DEF request
  <2>3. CopyOK(account, request)
    BY <1>0, <2>2 DEF CopyOK, CopyInv
  <2> QED BY <2>1, <2>3, SameOnward, CopyStep DEF CopyInv
<1>7. CASE SpendCode(r)
  <2> DEFINE request == [op |-> "accept", of |-> requests[r].of, with |-> {requests[r].code}]
  <2>1. ~Copying(request)
    BY DEF Copying, ManageOps, Unversioned, Versioned
  <2>2. Become(r, request)
    BY <1>7, Continues DEF SpendCode
  <2>3. Onward
    BY <1>0, <1>7, SpendSaves DEF Onward
  <2> HIDE DEF request
  <2> QED BY <2>1, <2>2, <2>3, Copyless, CopyStep DEF CopyInv
<1> QED BY <1>1, <1>2, <1>3, <1>4, <1>5, <1>6, <1>7 DEF LogIn

LEMMA UsePasskeyCopies ==
  ASSUME TwoFactorTypeOK, CopyInv, NEW r \in Slots, UsePasskey(r)
  PROVE  CopyInv'
<1> USE IdleCopies
<1>0. account \in Account /\ account.version \in Nat
  BY DEF TwoFactorTypeOK, Account
<1>1. ASSUME NEW challenge \in challenges, NEW op \in {"registration", "login"},
             FindChallenge(r, challenge, op)
      PROVE  CopyInv'
  <2> DEFINE request == [op |-> op, of |-> challenge]
  <2>1. ~Copying(request)
    BY DEF Copying, ManageOps, Unversioned, Versioned
  <2>2. Become(r, request) /\ account' = account
    BY <1>1, Arrives DEF FindChallenge
  <2> HIDE DEF request
  <2> QED BY <2>1, <2>2, Copyless, SameOnward, CopyStep DEF CopyInv
<1>2. CASE ReadToRegister(r)
  <2> DEFINE request == [op |-> "register", of |-> requests[r].of, copy |-> account]
  <2>1. Become(r, request) /\ account' = account
    BY <1>2, Continues DEF ReadToRegister
  <2>2. request.op = "register" /\ request.copy = account
    OBVIOUS
  <2> HIDE DEF request
  <2>3. CopyOK(account, request)
    BY <1>0, <2>2 DEF CopyOK, CopyInv
  <2> QED BY <2>1, <2>3, SameOnward, CopyStep DEF CopyInv
<1>3. CASE SavePasskey(r)
  <2> DEFINE request == [op |-> "registered", of |-> requests[r].of]
  <2>1. ~Copying(request)
    BY DEF Copying, ManageOps, Unversioned, Versioned
  <2>2. Become(r, request)
    BY <1>3, Continues DEF SavePasskey
  <2>3. Onward
    <3>1. account' \in Account /\ account'.version = account.version + 1
      BY <1>3, PasskeySaves
    <3>2. account'.version >= account.version /\ account'.version # account.version
      BY <1>0, <3>1
    <3> QED BY <3>1, <3>2 DEF Onward
  <2> HIDE DEF request
  <2> QED BY <2>1, <2>2, <2>3, Copyless, CopyStep
<1>4. ASSUME NEW i \in DOMAIN account.passkeys, NEW count \in 0 .. MaxCount,
             CheckPasskey(r, i, count)
      PROVE  CopyInv'
  <2> DEFINE request == [op |-> "count", of |-> requests[r].of, at |-> i, count |-> count,
                         copy |-> account]
  <2>1. Become(r, request) /\ account' = account
    BY <1>4, Continues DEF CheckPasskey
  <2>2. request.op = "count" /\ request.copy = account /\ request.at = i /\ request.count = count
    OBVIOUS
  <2>3. count \in Counts(account.passkeys[i])
    BY <1>4 DEF CheckPasskey
  <2> HIDE DEF request
  <2>4. CopyOK(account, request)
    BY <1>0, <2>2, <2>3 DEF CopyOK, CopyInv
  <2> QED BY <2>1, <2>4, SameOnward, CopyStep DEF CopyInv
<1>5. CASE SaveCount(r)
  <2> DEFINE request == [op |-> "counted", of |-> requests[r].of]
  <2>1. ~Copying(request)
    BY DEF Copying, ManageOps, Unversioned, Versioned
  <2>2. Become(r, request)
    BY <1>5, Continues DEF SaveCount
  <2>3. Onward
    BY <1>0, <1>5, CountSaves, DefaultedType DEF Onward
  <2> HIDE DEF request
  <2> QED BY <2>1, <2>2, <2>3, Copyless, CopyStep
<1>6. CASE DropChallenge(r)
  <2> DEFINE request == [op |-> "accept", of |-> requests[r].of, with |-> {}]
  <2>1. ~Copying(request)
    BY DEF Copying, ManageOps, Unversioned, Versioned
  <2> HIDE DEF request
  <2>2. PICK next \in {Idle, request} : Continue(r, next)
    BY <1>6 DEF DropChallenge, End, request
  <2>3. Become(r, next) /\ account' = account /\ CopyOK(account, next)
    BY <1>6, <2>1, <2>2, Continues, Copyless DEF DropChallenge
  <2> QED BY <2>3, SameOnward, CopyStep DEF CopyInv
<1>7. ASSUME NEW i \in DOMAIN account.passkeys, FindPasskey(r, i)
      PROVE  CopyInv'
  <2> DEFINE request == [op |-> "delete", at |-> i, copy |-> account]
  <2>1. Become(r, request) /\ account' = account
    BY <1>7, Arrives DEF FindPasskey
  <2>2. request.op = "delete" /\ request.copy = account
    OBVIOUS
  <2> HIDE DEF request
  <2>3. CopyOK(account, request)
    BY <1>0, <2>2 DEF CopyOK, CopyInv
  <2> QED BY <2>1, <2>3, SameOnward, CopyStep DEF CopyInv
<1>8. CASE DeletePasskey(r)
  <2>1. Onward
    BY <1>0, <1>8, DeleteSaves DEF Onward
  <2> QED BY <1>8, <2>1, Continues, CopyStep DEF DeletePasskey, End
<1> QED BY <1>1, <1>2, <1>3, <1>4, <1>5, <1>6, <1>7, <1>8 DEF UsePasskey

LEMMA NextCopies == TwoFactorTypeOK /\ CopyInv /\ [Next]_vars => CopyInv'
<1> SUFFICES ASSUME TwoFactorTypeOK, CopyInv, [Next]_vars PROVE CopyInv'
  OBVIOUS
<1>1. ASSUME NEW r \in Slots, Abandon(r)
      PROVE  CopyInv'
  BY <1>1, IdleCopies, Continues, SameOnward, CopyStep DEF Abandon, End, CopyInv
<1>2. CASE NewChallenge \/ Expire \/ UNCHANGED vars
  <2>1. account' = account /\ requests' = requests
    BY <1>2 DEF NewChallenge, Expire, vars
  <2> QED BY <2>1 DEF CopyInv
<1> QED BY <1>1, <1>2, ManageCopies, LogInCopies, UsePasskeyCopies DEF Next

LEMMA InitCopies == Init => CopyInv
BY IdleCopies DEF Init, CopyInv

TypeInv == TwoFactorTypeOK /\ FreshInv /\ CopyInv

LEMMA AlwaysTyped == Spec => []TypeInv
<1>1. Init => TypeInv
  BY InitShape, InitFresh, InitCopies DEF TypeInv
<1>2. TypeInv /\ [Next]_vars => TypeInv'
  BY NextShape, NextFresh, NextCopies DEF TypeInv
<1> QED BY <1>1, <1>2, PTL DEF Spec

\* The account, what login has handed out and what requests keep hold their
\* shape, although passkeys are written from copies: sign counts set by their
\* place, a list with one left out (twoFactorController.ts, User.ts).
THEOREM TwoFactorTypeCorrect == Spec => []TwoFactorTypeOK
<1>1. TypeInv => TwoFactorTypeOK
  BY DEF TypeInv
<1> QED BY <1>1, AlwaysTyped, PTL

-----------------------------------------------------------------------------
(***************************************************************************)
(* Factors: a save of a copy that still is the account does no harm.       *)
(***************************************************************************)
Harm ==
  \/ Exposed' /\ ~Exposed
  \/ Unbacked' /\ ~Unbacked
  \/ Forgotten
  \/ CountedBack

Explained(r) == Outdated(requests[r]) \/ (Unbacked' /\ Unbacks(requests[r]))

LEMMA SamePasskeys ==
  ASSUME TwoFactorTypeOK, account'.passkeys = account.passkeys
  PROVE  ~CountedBack
<1> SUFFICES ASSUME NEW i \in DOMAIN account.passkeys
             PROVE  ~(account.passkeys[i].count < account.passkeys[i].count)
  BY DEF CountedBack
<1>1. account.passkeys[i].count \in Nat
  BY PlaceType, TwoFactorAssumption DEF Passkey
<1> QED BY <1>1

LEMMA SameHarmless ==
  ASSUME TwoFactorTypeOK, UNCHANGED account
  PROVE  ~Harm
BY SamePasskeys DEF Harm, Exposed, Unbacked, HasFactor, Forgotten

LEMMA ManageExplained ==
  ASSUME TypeInv, NEW r \in Slots, Manage(r), Harm
  PROVE  requests'[r] # requests[r] /\ Explained(r)
<1> USE DEF TypeInv
<1>0. account \in Account
  BY DEF TwoFactorTypeOK
<1>1. ASSUME NEW op \in Unversioned \cup Versioned, ReadAccount(r, op)
      PROVE  FALSE
  BY <1>1, SameHarmless DEF ReadAccount
<1>2. ASSUME SaveSetup(r)
      PROVE  Explained(r)
  <2>1. Numbered(requests[r]) /\ requests[r].op = "setup"
    BY <1>2 DEF SaveSetup, Numbered, ManageOps, Unversioned
  <2>2. requests[r].id # 0
    BY <2>1 DEF FreshInv
  <2>3. account.secret # 0 => account.secret # requests[r].id
    <3>1. account.secret \in Nat
      BY <1>0 DEF Account
    <3>2. account.secret # 0 => Used(account.secret)
      BY DEF Used, Held
    <3> QED BY <2>1, <3>1, <3>2 DEF FreshInv
  <2>4. ~CountedBack /\ ~Forgotten
    BY <1>2, <2>2, <2>3, SetupSaves, SamePasskeys DEF Forgotten
  <2>5. Exposed' => Exposed
    BY <1>2, SetupSaves DEF Exposed, HasFactor
  <2> QED BY <2>1, <2>4, <2>5 DEF Harm, Explained, Unbacks
<1>3. ASSUME SaveVerified(r), requests[r].copy = account
      PROVE  FALSE
  <2>1. account.secret # 0
    BY <1>3 DEF SaveVerified, CopyInv, CopyOK
  <2>2. ~CountedBack
    BY <1>3, VerifiedSaves, SamePasskeys
  <2>3. account'.flag = TRUE /\ account'.verified = "yes" /\ account'.secret = account.secret
    BY <1>3, VerifiedSaves
  <2> QED BY <2>1, <2>2, <2>3 DEF Harm, Exposed, Unbacked, HasFactor, Forgotten
<1>4. ASSUME SaveCodes(r)
      PROVE  FALSE
  <2>1. ~CountedBack
    BY <1>4, CodesSaves, SamePasskeys
  <2> QED BY <1>4, <2>1, CodesSaves DEF Harm, Exposed, Unbacked, HasFactor, Forgotten
<1>5. ASSUME SaveDisabled(r)
      PROVE  Explained(r)
  <2>1. requests[r].op = "disable"
    BY <1>5 DEF SaveDisabled
  <2>2. CASE requests[r].copy # account
    BY <2>1, <2>2 DEF Explained, Outdated, Unversioned
  <2>3. CASE requests[r].copy = account
    <3>1. /\ account'.flag = StaysOn(account) /\ account'.secret = 0
          /\ account'.passkeys = account.passkeys
      BY <1>5, <2>3, DisabledSaves
    <3>2. ~CountedBack /\ ~Forgotten
      BY <3>1, SamePasskeys DEF Forgotten
    <3>3. account.passkeys = <<>> => DOMAIN account.passkeys = {}
      OBVIOUS
    <3>4. ~Exposed'
      BY <3>1, <3>3 DEF Exposed, HasFactor, StaysOn
    <3>5. Unbacked' => account.passkeys # <<>>
      BY <3>1 DEF Unbacked, StaysOn
    <3> QED BY <2>1, <2>3, <3>2, <3>4, <3>5 DEF Harm, Explained, Unbacks
  <2> QED BY <2>2, <2>3
<1>6. ASSUME SaveProfile(r), requests[r].copy = account
      PROVE  FALSE
  <2>1. account'.verified = "yes" <=> account.verified = "yes"
    BY <1>0, <1>6, ProfileSaves, DefaultedType
  <2>2. ~CountedBack
    BY <1>6, ProfileSaves, SamePasskeys
  <2> QED BY <1>6, <2>1, <2>2, ProfileSaves DEF Harm, Exposed, Unbacked, HasFactor, Forgotten
<1>7. SaveSetup(r) \/ SaveVerified(r) \/ SaveDisabled(r) \/ SaveProfile(r)
  BY <1>1, <1>4 DEF Manage
<1>8. requests[r].op \in Unversioned \cup Versioned
  BY <1>7 DEF SaveSetup, SaveVerified, SaveDisabled, SaveProfile, Unversioned, Versioned
<1>9. Explained(r)
  BY <1>2, <1>3, <1>5, <1>6, <1>7, <1>8 DEF Explained, Outdated
<1>10. requests'[r] = Idle
  BY <1>7, Continues, Becomes DEF SaveSetup, SaveVerified, SaveDisabled, SaveProfile, End
<1>11. requests'[r] # requests[r]
  BY <1>8, <1>10, IdleNothing DEF Unversioned, Versioned
<1> QED BY <1>9, <1>11

LEMMA LogInHarmless ==
  ASSUME TypeInv, NEW r \in Slots, LogIn(r)
  PROVE  ~Harm
<1> USE DEF TypeInv
<1>0. account \in Account
  BY DEF TwoFactorTypeOK
<1>1. CASE account' = account
  BY <1>1, SameHarmless
<1>2. CASE SpendCode(r)
  <2>1. requests[r].op = "spend" /\ Copying(requests[r])
    BY <1>2 DEF SpendCode, Copying
  <2>2. account.verified = "yes" => requests[r].copy.verified = "yes"
    BY <1>2, <2>1 DEF SpendCode, Current, CopyInv, CopyOK
  <2>3. account.verified = "yes" <=> account'.verified = "yes"
    BY <1>0, <1>2, <2>2, SpendSaves, DefaultedType
  <2>4. ~CountedBack
    BY <1>2, SpendSaves, SamePasskeys
  <2> QED BY <1>2, <2>3, <2>4, SpendSaves DEF Harm, Exposed, Unbacked, HasFactor, Forgotten
<1> QED BY <1>1, <1>2 DEF LogIn, AskSecondFactor, OpenSession, FindSession, MarkSession, CheckTOTP,
                          CheckBackup, Accept

LEMMA UsePasskeyExplained ==
  ASSUME TypeInv, NEW r \in Slots, UsePasskey(r), Harm
  PROVE  requests'[r] # requests[r] /\ Explained(r)
<1> USE DEF TypeInv
<1>0. account \in Account /\ account.passkeys \in Seq(Passkey)
  BY DEF TwoFactorTypeOK, Account
<1>1. account' # account
  BY SameHarmless
<1>2. SavePasskey(r) \/ SaveCount(r) \/ DeletePasskey(r)
  BY <1>1 DEF UsePasskey, FindChallenge, ReadToRegister, CheckPasskey, DropChallenge, FindPasskey
<1>3. ASSUME requests[r].copy = account
      PROVE  /\ account'.verified = "yes" <=> account.verified = "yes"
             /\ account'.secret = account.secret /\ ~Forgotten
  <2>1. account'.verified = Defaulted(account).verified /\ account'.secret = account.secret
    BY <1>2, <1>3, PasskeySaves, CountSaves, DeleteSaves
  <2> QED BY <1>0, <2>1, DefaultedType DEF Forgotten
<1>4. ASSUME SavePasskey(r), requests[r].copy = account
      PROVE  FALSE
  <2> DEFINE added == NewPasskey(requests[r].of)
             last == Len(account.passkeys) + 1
  <2>1. account'.flag = TRUE /\ account'.passkeys = Append(account.passkeys, added)
    BY <1>4, PasskeySaves
  <2>2. added \in Passkey /\ added.key
    BY <1>4, SlotParts, NewAccountParts DEF SavePasskey, Referring, NewPasskey
  <2> HIDE DEF added
  <2>3. last \in DOMAIN account'.passkeys /\ account'.passkeys[last] = added
    BY <1>0, <2>1, <2>2
  <2>4. HasFactor'
    BY <2>2, <2>3 DEF HasFactor
  <2>5. ~CountedBack
    <3> SUFFICES ASSUME NEW i \in DOMAIN account.passkeys
                 PROVE  ~(account'.passkeys[i].count < account.passkeys[i].count)
      BY DEF CountedBack
    <3>1. account'.passkeys[i] = account.passkeys[i]
      BY <1>0, <2>1, <2>2
    <3>2. account.passkeys[i].count \in Nat
      BY PlaceType, TwoFactorAssumption DEF Passkey
    <3> QED BY <3>1, <3>2
  <2> QED BY <1>3, <1>4, <2>1, <2>4, <2>5 DEF Harm, Exposed, Unbacked
<1>5. ASSUME SaveCount(r), requests[r].copy = account
      PROVE  FALSE
  <2> DEFINE at == requests[r].at
             count == requests[r].count
             counted == Counted(account.passkeys, at, count)
  <2>1. count \in Counts(account.passkeys[at])
    BY <1>5 DEF SaveCount, CopyInv, CopyOK
  <2>2. /\ account'.passkeys = account.passkeys \/ account'.passkeys = counted
        /\ account'.flag = account.flag
    BY <1>5, CountSaves
  <2>3. at \in Nat /\ count \in 0 .. MaxCount
    BY <1>5, SlotParts DEF SaveCount
  <2>4. /\ DOMAIN counted = DOMAIN account.passkeys
        /\ \A j \in DOMAIN account.passkeys :
             /\ counted[j].key = account.passkeys[j].key
             /\ counted[j].count = IF j = at THEN count ELSE account.passkeys[j].count
    BY <1>0, <2>3, CountedType
  <2> HIDE DEF counted, at, count
  <2>5. ~CountedBack
    <3>1. CASE account'.passkeys = account.passkeys
      BY <3>1, SamePasskeys
    <3>2. CASE account'.passkeys = counted
      <4> SUFFICES ASSUME NEW i \in DOMAIN account.passkeys
                   PROVE  ~(counted[i].count < account.passkeys[i].count)
        BY <3>2 DEF CountedBack
      <4>1. account.passkeys[i].count \in Nat
        BY PlaceType, TwoFactorAssumption DEF Passkey
      <4>2. CASE i = at
        BY <2>1, <2>3, <2>4, <4>1, <4>2, TwoFactorAssumption DEF Counts
      <4> QED BY <2>4, <4>1, <4>2
    <3> QED BY <2>2, <3>1, <3>2
  <2>6. HasFactor' <=> HasFactor
    BY <1>3, <1>5, <2>2, <2>4 DEF HasFactor
  <2> QED BY <1>3, <1>5, <2>2, <2>5, <2>6 DEF Harm, Exposed, Unbacked
<1>6. ASSUME DeletePasskey(r), requests[r].copy = account
      PROVE  Unbacked' /\ Unbacks(requests[r])
  <2>1. requests[r].at \in Nat /\ requests[r].op = "delete"
    BY <1>6, SlotParts DEF DeletePasskey
  <2>2. account'.flag = account.flag /\ \A i \in DOMAIN account'.passkeys : ~account'.passkeys[i].key
    BY <1>0, <1>6, <2>1, DeleteSaves, RemainingType
  <2>3. ~CountedBack
    BY <2>2 DEF CountedBack
  <2>4. HasFactor' => HasFactor
    BY <1>3, <1>6, <2>2 DEF HasFactor
  <2> QED BY <1>3, <1>6, <2>1, <2>2, <2>3, <2>4 DEF Harm, Exposed, Unbacks
<1>7. requests[r].op \in {"register", "count", "delete"}
  BY <1>2 DEF SavePasskey, SaveCount, DeletePasskey
<1>8. Explained(r)
  BY <1>2, <1>4, <1>5, <1>6, <1>7 DEF Explained, Outdated
<1>9. requests'[r] # requests[r]
  <2> DEFINE registered == [op |-> "registered", of |-> requests[r].of]
             counted == [op |-> "counted", of |-> requests[r].of]
  <2>1. registered.op = "registered" /\ counted.op = "counted"
    OBVIOUS
  <2>2. Become(r, registered) \/ Become(r, counted) \/ Become(r, Idle)
    BY <1>2, Continues DEF SavePasskey, SaveCount, DeletePasskey, End
  <2> HIDE DEF registered, counted
  <2>3. requests'[r] \in {registered, counted, Idle}
    BY <2>2, Becomes
  <2> QED BY <1>7, <2>1, <2>3, IdleNothing
<1> QED BY <1>8, <1>9

LEMMA StepExplained ==
  ASSUME TypeInv, [Next]_vars, Harm
  PROVE  \E r \in Slots : requests'[r] # requests[r] /\ Explained(r)
<1>1. ASSUME NEW r \in Slots
      PROVE  ~Abandon(r)
  BY SameHarmless DEF Abandon, TypeInv
<1>2. ~NewChallenge /\ ~Expire /\ ~UNCHANGED vars
  BY SameHarmless DEF NewChallenge, Expire, vars, TypeInv
<1>3. \E r \in Slots : Manage(r) \/ LogIn(r) \/ UsePasskey(r)
  BY <1>1, <1>2 DEF Next
<1> QED BY <1>3, ManageExplained, LogInHarmless, UsePasskeyExplained

\* As long as a handler's copy is still the account, what it saves never turns
\* the flag off beside a factor and keeps a confirmed secret confirmed and a sign
\* count where it was or higher; a flag without a factor is left only by a new
\* setup, by deleting any passkey, whose others lose their public keys, and by
\* disabling the secret beside passkeys that lost theirs (twoFactorController.ts).
THEOREM FactorsExplained == Spec => FactorsAreExplained
<1>1. TypeInv /\ [Next]_vars =>
        [Harm => \E r \in Slots : requests'[r] # requests[r] /\ Explained(r)]_vars
  BY StepExplained
<1>2. TypeInv /\ [Next]_vars =>
        [ (Exposed' /\ ~Exposed) \/ (Unbacked' /\ ~Unbacked) \/ Forgotten \/ CountedBack
          => \E r \in Slots :
               /\ requests'[r] # requests[r]
               /\ Outdated(requests[r]) \/ (Unbacked' /\ Unbacks(requests[r])) ]_vars
  BY <1>1 DEF Harm, Explained
<1> QED BY <1>2, AlwaysTyped, PTL DEF Spec, FactorsAreExplained

-----------------------------------------------------------------------------
(***************************************************************************)
(* Codes: what a login was accepted with, or is about to be, is neither    *)
(* stored nor in a copy that can still be saved.                           *)
(***************************************************************************)
Carried(request) == IF request.op = "accept" THEN request.with ELSE {}

Gone(c) ==
  \/ \E i \in DOMAIN accepted : c \in accepted[i].with
  \/ \E r \in Slots : c \in Carried(requests[r])

\* Nobody who presents a code has it once it is gone.
Unpresented(version, request, c) ==
  request.op = "spend" /\ request.copy.version = version => c \notin request.copy.codes

GoneInv ==
  \A c \in BackupCode : Gone(c) =>
    c \notin account.codes /\ \A r \in Slots : Unpresented(account.version, requests[r], c)

OnceInv ==
  \A c \in BackupCode :
    /\ \A i, j \in DOMAIN accepted : i # j => ~(c \in accepted[i].with /\ c \in accepted[j].with)
    /\ \A r, s \in Slots : r # s => ~(c \in Carried(requests[r]) /\ c \in Carried(requests[s]))
    /\ \A i \in DOMAIN accepted, r \in Slots :
         ~(c \in accepted[i].with /\ c \in Carried(requests[r]))

SpentInv == GoneInv /\ OnceInv

LEMMA IdleCarries == \A c : c \notin Carried(Idle) /\ \A version : Unpresented(version, Idle, c)
BY IdleNothing DEF Carried, Unpresented

\* A login ends with its codes, a registration with none.
Ended(r, with) ==
  /\ requests'[r] = Idle /\ \A s \in Slots : s # r => requests'[s] = requests[s]
  /\ \E last \in DOMAIN accepted' :
       /\ accepted'[last].slot = r /\ accepted'[last].of = requests[r].of
       /\ accepted'[last].with = with
       /\ \A i \in DOMAIN accepted' : i # last => i \in DOMAIN accepted /\ accepted'[i] = accepted[i]

LEMMA Accepts ==
  ASSUME TwoFactorTypeOK, NEW r \in Slots, Accept(r)
  PROVE  requests[r].op = "accept" /\ Ended(r, requests[r].with)
<1>1. /\ requests[r].of \in Nat /\ requests[r].with \in SUBSET BackupCode
      /\ accepted' = Append(accepted, [slot |-> r, of |-> requests[r].of, with |-> requests[r].with])
  BY SlotParts DEF Accept, Referring
<1>2. requests[r].op = "accept" /\ requests'[r] = Idle
      /\ \A s \in Slots : s # r => requests'[s] = requests[s]
  BY Continues, Becomes DEF Accept, End
<1> QED BY <1>1, <1>2, Appends DEF Ended

LEMMA Registers ==
  ASSUME TwoFactorTypeOK, NEW r \in Slots, DropChallenge(r), requests[r].op = "registered"
  PROVE  Ended(r, {})
<1> DEFINE with == {}
<1>1. /\ requests[r].of \in Nat /\ with \in SUBSET BackupCode
      /\ accepted' = Append(accepted, [slot |-> r, of |-> requests[r].of, with |-> with])
  BY SlotParts DEF DropChallenge, Referring
<1>2. requests'[r] = Idle /\ \A s \in Slots : s # r => requests'[s] = requests[s]
  BY Continues, Becomes DEF DropChallenge, End
<1> HIDE DEF with
<1>3. Ended(r, with)
  BY <1>1, <1>2, Appends DEF Ended
<1> QED BY <1>3 DEF with

\* A step by which no code goes.
LEMMA GoneSame ==
  ASSUME TwoFactorTypeOK, NEW r \in Slots, NEW request, Become(r, request), accepted' = accepted,
         \A c : c \notin Carried(request)
  PROVE  \A c : Gone(c)' => Gone(c)
<1>1. \A c : \A s \in Slots : c \in Carried(requests'[s]) => c \in Carried(requests[s])
  BY Becomes
<1> QED BY <1>1 DEF Gone

LEMMA SpentSame ==
  ASSUME TwoFactorTypeOK, CopyInv, SpentInv, NEW r \in Slots, NEW request, Become(r, request),
         accepted' = accepted, \A c : c \notin Carried(request),
         account' \in Account,
         account'.version = account.version \/ account'.version = account.version + 1,
         \A c \in BackupCode : Gone(c) =>
           c \notin account'.codes /\ Unpresented(account'.version, request, c)
  PROVE  SpentInv'
<1>1. \A s \in Slots : s # r => requests'[s] = requests[s]
  BY Becomes
<1>2. requests'[r] = request
  BY Becomes
<1>3. ASSUME NEW c \in BackupCode, Gone(c), NEW s \in Slots
      PROVE  Unpresented(account'.version, requests'[s], c)
  <2>1. CASE s = r
    BY <1>2, <1>3, <2>1
  <2>2. CASE s # r /\ requests[s].op = "spend"
    <3>1. CopyOK(account, requests[s]) /\ Copying(requests[s]) /\ requests'[s] = requests[s]
      BY <1>1, <2>2 DEF CopyInv, Copying
    <3>2. requests[s].copy.version <= account.version
      BY <3>1 DEF CopyOK
    <3>3. account.version \in Nat /\ requests[s].copy.version \in Nat
      BY <3>1, SlotParts DEF TwoFactorTypeOK, Account
    <3>4. requests[s].copy.version = account'.version => account'.version = account.version
      BY <3>2, <3>3
    <3>5. Unpresented(account.version, requests[s], c)
      BY <1>3 DEF SpentInv, GoneInv
    <3> QED BY <3>1, <3>4, <3>5 DEF Unpresented
  <2>3. CASE s # r /\ requests[s].op # "spend"
    BY <1>1, <2>3 DEF Unpresented
  <2> QED BY <2>1, <2>2, <2>3
<1>4. GoneInv'
  BY <1>3, GoneSame DEF GoneInv
<1>5. \A c : \A s \in Slots : c \in Carried(requests'[s]) => c \in Carried(requests[s])
  BY <1>1, <1>2
<1>6. OnceInv'
  BY <1>5 DEF OnceInv, SpentInv
<1> QED BY <1>4, <1>6 DEF SpentInv

\* Codes that are made now are not gone.
LEMMA NewNotGone ==
  ASSUME TwoFactorTypeOK, FreshInv, NEW r \in Slots, Numbered(requests[r]), NEW c \in BackupCode, Gone(c)
  PROVE  c \notin NewCodes(requests[r].id)
<1>1. c[1] \in Nat
  BY DEF BackupCode
<1>2. Used(c[1])
  BY DEF Gone, Carried, Used, Kept, Mentions
<1> QED BY <1>1, <1>2, CodesAreNumbered DEF FreshInv

LEMMA ManageSpent ==
  ASSUME TypeInv, SpentInv, NEW r \in Slots, Manage(r)
  PROVE  SpentInv'
<1> USE IdleCarries DEF TypeInv
<1>0. account \in Account /\ \A c \in BackupCode : Gone(c) => c \notin account.codes
  BY DEF TwoFactorTypeOK, SpentInv, GoneInv
<1>1. ASSUME NEW op \in Unversioned \cup Versioned, ReadAccount(r, op)
      PROVE  SpentInv'
  <2> DEFINE request == [op |-> op, id |-> served + 1, copy |-> account]
  <2>1. request.op \notin {"accept", "spend"}
    BY DEF Unversioned, Versioned
  <2>2. Become(r, request) /\ UNCHANGED <<account, accepted>>
    BY <1>1, Arrives DEF ReadAccount
  <2> HIDE DEF request
  <2> QED BY <1>0, <2>1, <2>2, SpentSame DEF Carried, Unpresented
<1>2. CASE SaveSetup(r)
  BY <1>0, <1>2, SetupSaves, Continues, SpentSame DEF SaveSetup, End
<1>3. CASE SaveVerified(r)
  <2>1. Numbered(requests[r])
    BY <1>3 DEF SaveVerified, Numbered, ManageOps, Versioned
  <2>2. /\ account' \in Account /\ account'.version = account.version + 1
        /\ account'.codes = NewCodes(requests[r].id)
    BY <1>3, VerifiedSaves
  <2> QED BY <1>3, <2>1, <2>2, NewNotGone, Continues, SpentSame DEF SaveVerified, End
<1>4. CASE SaveCodes(r)
  <2>1. Numbered(requests[r])
    BY <1>4 DEF SaveCodes, Numbered, ManageOps, Versioned
  <2>2. /\ account' \in Account /\ account'.version = account.version + 1
        /\ account'.codes = NewCodes(requests[r].id)
    BY <1>4, CodesSaves
  <2> QED BY <1>4, <2>1, <2>2, NewNotGone, Continues, SpentSame DEF SaveCodes, End
<1>5. CASE SaveDisabled(r)
  BY <1>5, DisabledSaves, Continues, SpentSame DEF SaveDisabled, End
<1>6. CASE SaveProfile(r)
  BY <1>0, <1>6, ProfileSaves, Continues, SpentSame DEF SaveProfile, End
<1> QED BY <1>1, <1>2, <1>3, <1>4, <1>5, <1>6 DEF Manage

LEMMA SpendSpent ==
  ASSUME TypeInv, SpentInv, NEW r \in Slots, SpendCode(r)
  PROVE  SpentInv'
<1> USE DEF TypeInv
<1> DEFINE code == requests[r].code
           request == [op |-> "accept", of |-> requests[r].of, with |-> {code}]
<1>0. request.op = "accept" /\ Carried(request) = {code}
  BY DEF Carried
<1>1. Become(r, request) /\ accepted' = accepted
  BY Continues DEF SpendCode
<1>2. /\ requests[r].op = "spend" /\ Copying(requests[r])
      /\ requests[r].copy.version = account.version
  BY DEF SpendCode, Copying, Current
<1>3. code \in BackupCode /\ code \in requests[r].copy.codes
  BY <1>2, SlotParts DEF CopyInv, CopyOK
<1>4. account'.version = account.version + 1 /\ account'.codes = requests[r].copy.codes \ {code}
  BY SpendSaves
<1> HIDE DEF request, code
<1>5. \A c \in BackupCode : Gone(c) => c \notin requests[r].copy.codes /\ c # code
  BY <1>2, <1>3 DEF SpentInv, GoneInv, Unpresented
<1>6. requests'[r] = request /\ \A s \in Slots : s # r => requests'[s] = requests[s]
  BY <1>1, Becomes
<1>7. \A c \in BackupCode : Gone(c)' => Gone(c) \/ c = code
  BY <1>0, <1>1, <1>6 DEF Gone
<1>8. ASSUME NEW s \in Slots
      PROVE  ~(requests'[s].op = "spend" /\ requests'[s].copy.version = account'.version)
  <2>1. CASE s = r
    BY <1>0, <1>6, <2>1
  <2>2. CASE s # r /\ requests[s].op = "spend"
    <3>1. CopyOK(account, requests[s]) /\ Copying(requests[s]) /\ requests'[s] = requests[s]
      BY <1>6, <2>2 DEF CopyInv, Copying
    <3>2. requests[s].copy.version <= account.version
      BY <3>1 DEF CopyOK
    <3>3. account.version \in Nat /\ requests[s].copy.version \in Nat
      BY <3>1, SlotParts DEF TwoFactorTypeOK, Account
    <3> QED BY <1>4, <3>1, <3>2, <3>3
  <2> QED BY <1>6, <2>1, <2>2
<1>9. GoneInv'
  BY <1>4, <1>5, <1>7, <1>8 DEF GoneInv, Unpresented
<1>10. ~Gone(code)
  BY <1>3, <1>5
<1>11. \A c \in BackupCode : \A s \in Slots :
         c \in Carried(requests'[s]) => IF s = r THEN c = code ELSE c \in Carried(requests[s])
  BY <1>0, <1>6
<1>12. OnceInv'
  BY <1>1, <1>10, <1>11 DEF OnceInv, SpentInv, Gone
<1> QED BY <1>9, <1>12 DEF SpentInv

LEMMA EndedSpent ==
  ASSUME TypeInv, SpentInv, NEW r \in Slots, Ended(r, Carried(requests[r])), UNCHANGED account
  PROVE  SpentInv'
<1> USE DEF TypeInv
<1>1. PICK last \in DOMAIN accepted' :
        /\ accepted'[last].with = Carried(requests[r])
        /\ \A i \in DOMAIN accepted' : i # last => i \in DOMAIN accepted /\ accepted'[i] = accepted[i]
  BY DEF Ended
<1>2. requests'[r] = Idle /\ \A s \in Slots : s # r => requests'[s] = requests[s]
  BY DEF Ended
<1>3. accepted'[last].with = Carried(requests[r])
  BY <1>1
<1>4. account' = account
  OBVIOUS
<1>5. \A c : \A s \in Slots : c \in Carried(requests'[s]) => s # r /\ c \in Carried(requests[s])
  BY <1>2, IdleCarries
<1>6. \A c : Gone(c)' => Gone(c)
  BY <1>1, <1>3, <1>5 DEF Gone
<1>7. GoneInv'
  BY <1>2, <1>4, <1>6, IdleCarries DEF GoneInv, SpentInv
<1>8. ASSUME NEW c \in BackupCode
      PROVE  /\ \A i, j \in DOMAIN accepted' :
                  i # j => ~(c \in accepted'[i].with /\ c \in accepted'[j].with)
             /\ \A s, t \in Slots :
                  s # t => ~(c \in Carried(requests'[s]) /\ c \in Carried(requests'[t]))
             /\ \A i \in DOMAIN accepted', s \in Slots :
                  ~(c \in accepted'[i].with /\ c \in Carried(requests'[s]))
  <2>1. /\ \A i, j \in DOMAIN accepted : i # j => ~(c \in accepted[i].with /\ c \in accepted[j].with)
        /\ \A s, t \in Slots : s # t => ~(c \in Carried(requests[s]) /\ c \in Carried(requests[t]))
        /\ \A i \in DOMAIN accepted, s \in Slots :
             ~(c \in accepted[i].with /\ c \in Carried(requests[s]))
    BY DEF SpentInv, OnceInv
  <2> QED BY <1>1, <1>3, <1>5, <2>1
<1>9. OnceInv'
  BY <1>8 DEF OnceInv
<1> QED BY <1>7, <1>9 DEF SpentInv

LEMMA LogInSpent ==
  ASSUME TypeInv, SpentInv, NEW r \in Slots, LogIn(r)
  PROVE  SpentInv'
<1> USE IdleCarries DEF TypeInv
<1>0. account \in Account /\ \A c \in BackupCode : Gone(c) => c \notin account.codes
  BY DEF TwoFactorTypeOK, SpentInv, GoneInv
<1>1. CASE AskSecondFactor(r)
  <2> DEFINE request == [op |-> "open", id |-> served + 1]
  <2>1. request.op = "open"
    OBVIOUS
  <2>2. Become(r, request) /\ UNCHANGED <<account, accepted>>
    BY <1>1, Arrives DEF AskSecondFactor
  <2> HIDE DEF request
  <2> QED BY <1>0, <2>1, <2>2, SpentSame DEF Carried, Unpresented
<1>2. CASE OpenSession(r)
  BY <1>0, <1>2, Continues, SpentSame DEF OpenSession, End
<1>3. ASSUME NEW session \in sessions, FindSession(r, session)
      PROVE  SpentInv'
  <2> DEFINE request == [op |-> "mark", of |-> session.id]
  <2>1. request.op = "mark"
    OBVIOUS
  <2>2. Become(r, request) /\ UNCHANGED <<account, accepted>>
    BY <1>3, Arrives DEF FindSession
  <2> HIDE DEF request
  <2> QED BY <1>0, <2>1, <2>2, SpentSame DEF Carried, Unpresented
<1>4. CASE MarkSession(r)
  <2> DEFINE request == [op |-> "check", of |-> requests[r].of]
  <2>1. request.op = "check"
    OBVIOUS
  <2>2. Become(r, request) /\ UNCHANGED <<account, accepted>>
    BY <1>4, Continues DEF MarkSession
  <2> HIDE DEF request
  <2> QED BY <1>0, <2>1, <2>2, SpentSame DEF Carried, Unpresented
<1>5. CASE CheckTOTP(r)
  <2> DEFINE request == [op |-> "accept", of |-> requests[r].of, with |-> {}]
  <2>1. request.op = "accept" /\ \A c : c \notin request.with
    OBVIOUS
  <2>2. Become(r, request) /\ UNCHANGED <<account, accepted>>
    BY <1>5, Continues DEF CheckTOTP
  <2> HIDE DEF request
  <2> QED BY <1>0, <2>1, <2>2, SpentSame DEF Carried, Unpresented
<1>6. ASSUME NEW code \in account.codes, CheckBackup(r, code)
      PROVE  SpentInv'
  <2> DEFINE request == [op |-> "spend", of |-> requests[r].of, code |-> code, copy |-> account]
  <2>1. request.op = "spend" /\ request.copy = account
    OBVIOUS
  <2>2. Become(r, request) /\ UNCHANGED <<account, accepted>>
    BY <1>6, Continues DEF CheckBackup
  <2> HIDE DEF request
  <2> QED BY <1>0, <2>1, <2>2, SpentSame DEF Carried, Unpresented
<1>7. CASE Accept(r)
  BY <1>7, Accepts, EndedSpent DEF Carried, Accept
<1> QED BY <1>1, <1>2, <1>3, <1>4, <1>5, <1>6, <1>7, SpendSpent DEF LogIn

LEMMA UsePasskeySpent ==
  ASSUME TypeInv, SpentInv, NEW r \in Slots, UsePasskey(r)
  PROVE  SpentInv'
<1> USE IdleCarries DEF TypeInv
<1>0. account \in Account /\ \A c \in BackupCode : Gone(c) => c \notin account.codes
  BY DEF TwoFactorTypeOK, SpentInv, GoneInv
<1> DEFINE Plain(request) == request.op \notin {"spend", "accept"}
<1>1. ASSUME NEW request, Become(r, request), UNCHANGED <<account, accepted>>, Plain(request)
      PROVE  SpentInv'
  BY <1>0, <1>1, SpentSame DEF Carried, Unpresented
<1>2. ASSUME NEW challenge \in challenges, NEW op \in {"registration", "login"},
             FindChallenge(r, challenge, op)
      PROVE  SpentInv'
  <2> DEFINE request == [op |-> op, of |-> challenge]
  <2>1. Plain(request)
    OBVIOUS
  <2> HIDE DEF request, Plain
  <2> QED BY <1>1, <1>2, <2>1, Arrives DEF FindChallenge, request
<1>3. CASE ReadToRegister(r)
  <2> DEFINE request == [op |-> "register", of |-> requests[r].of, copy |-> account]
  <2>1. Plain(request)
    OBVIOUS
  <2> HIDE DEF request, Plain
  <2> QED BY <1>1, <1>3, <2>1, Continues DEF ReadToRegister, request
<1>4. CASE SavePasskey(r)
  <2> DEFINE request == [op |-> "registered", of |-> requests[r].of]
  <2>1. request.op = "registered"
    OBVIOUS
  <2>2. Become(r, request) /\ accepted' = accepted
    BY <1>4, Continues DEF SavePasskey
  <2> HIDE DEF request
  <2> QED BY <1>0, <1>4, <2>1, <2>2, PasskeySaves, SpentSame DEF Carried, Unpresented
<1>5. ASSUME NEW i \in DOMAIN account.passkeys, NEW count \in 0 .. MaxCount,
             CheckPasskey(r, i, count)
      PROVE  SpentInv'
  <2> DEFINE request == [op |-> "count", of |-> requests[r].of, at |-> i, count |-> count,
                         copy |-> account]
  <2>1. Plain(request)
    OBVIOUS
  <2> HIDE DEF request, Plain
  <2> QED BY <1>1, <1>5, <2>1, Continues DEF CheckPasskey, request
<1>6. CASE SaveCount(r)
  <2> DEFINE request == [op |-> "counted", of |-> requests[r].of]
  <2>1. request.op = "counted"
    OBVIOUS
  <2>2. Become(r, request) /\ accepted' = accepted
    BY <1>6, Continues DEF SaveCount
  <2> HIDE DEF request
  <2> QED BY <1>0, <1>6, <2>1, <2>2, CountSaves, SpentSame DEF Carried, Unpresented
<1>7. CASE DropChallenge(r)
  <2>1. CASE requests[r].op = "registered"
    BY <1>7, <2>1, Registers, EndedSpent DEF Carried, DropChallenge
  <2>2. CASE requests[r].op = "counted"
    <3> DEFINE request == [op |-> "accept", of |-> requests[r].of, with |-> {}]
    <3>1. request.op = "accept" /\ \A c : c \notin request.with
      OBVIOUS
    <3>2. Become(r, request) /\ UNCHANGED <<account, accepted>>
      BY <1>7, <2>2, Continues DEF DropChallenge
    <3> HIDE DEF request
    <3> QED BY <1>0, <3>1, <3>2, SpentSame DEF Carried, Unpresented
  <2> QED BY <1>7, <2>1, <2>2 DEF DropChallenge
<1>8. ASSUME NEW i \in DOMAIN account.passkeys, FindPasskey(r, i)
      PROVE  SpentInv'
  <2> DEFINE request == [op |-> "delete", at |-> i, copy |-> account]
  <2>1. Plain(request)
    OBVIOUS
  <2> HIDE DEF request, Plain
  <2> QED BY <1>1, <1>8, <2>1, Arrives DEF FindPasskey, request
<1>9. CASE DeletePasskey(r)
  BY <1>0, <1>9, DeleteSaves, Continues, SpentSame DEF DeletePasskey, End
<1> QED BY <1>2, <1>3, <1>4, <1>5, <1>6, <1>7, <1>8, <1>9 DEF UsePasskey

LEMMA NextSpent == TypeInv /\ SpentInv /\ [Next]_vars => SpentInv'
<1> SUFFICES ASSUME TypeInv, SpentInv, [Next]_vars PROVE SpentInv'
  OBVIOUS
<1>1. ASSUME NEW r \in Slots, Abandon(r)
      PROVE  SpentInv'
  <2>1. account \in Account /\ \A c \in BackupCode : Gone(c) => c \notin account.codes
    BY DEF TypeInv, TwoFactorTypeOK, SpentInv, GoneInv
  <2> QED BY <1>1, <2>1, IdleCarries, Continues, SpentSame DEF Abandon, End, TypeInv
<1>2. CASE NewChallenge \/ Expire \/ UNCHANGED vars
  <2>1. UNCHANGED <<account, requests, accepted>>
    BY <1>2 DEF NewChallenge, Expire, vars
  <2> QED BY <2>1 DEF SpentInv, GoneInv, OnceInv, Gone
<1> QED BY <1>1, <1>2, ManageSpent, LogInSpent, UsePasskeySpent DEF Next

LEMMA InitSpent == Init => SpentInv
BY IdleCarries DEF Init, SpentInv, GoneInv, OnceInv, Gone

-----------------------------------------------------------------------------
(***************************************************************************)
(* Sessions and challenges: which was accepted once opens no other door.   *)
(***************************************************************************)
IsSession(ses, n) == \E session \in ses : session.id = n

\* Nobody who comes now can log in with it.
Closed(ses, chs, n) == n \notin chs /\ \A session \in ses : session.id = n => session.used

PasskeyOps == {"registration", "login", "register", "count", "registered", "counted"}

SlotOK(ses, chs, request) ==
  /\ request.op = "mark" => request.of \notin chs
  /\ request.op \in PasskeyOps => ~IsSession(ses, request.of)
  /\ request.op \in {"check", "spend", "accept"} => Closed(ses, chs, request.of)

Apart(ses, chs) == \A n \in chs : ~IsSession(ses, n)

SlotInv ==
  /\ Apart(sessions, challenges)
  /\ \A r \in Slots : SlotOK(sessions, challenges, requests[r])
  /\ \A i \in DOMAIN accepted :
       /\ Closed(sessions, challenges, accepted[i].of)
       /\ Referring(requests[accepted[i].slot]) =>
            requests[accepted[i].slot].of # accepted[i].of
  /\ \A i, j \in DOMAIN accepted :
       i # j /\ accepted[i].of = accepted[j].of => accepted[i].slot # accepted[j].slot

\* What was made before is not made again, and what was spent stays spent.
Sheltered ==
  \A n \in Nat : Used(n) =>
    /\ n \in challenges' => n \in challenges
    /\ IsSession(sessions', n) => IsSession(sessions, n)
    /\ Closed(sessions, challenges, n) => Closed(sessions', challenges', n)

LEMMA IdleSlot == \A ses, chs : SlotOK(ses, chs, Idle)
BY IdleNothing DEF SlotOK, PasskeyOps

\* Who is accepted is typed, and what it is accepted for is in use.
LEMMA AcceptedParts ==
  ASSUME TwoFactorTypeOK, NEW i \in DOMAIN accepted
  PROVE  /\ accepted[i].slot \in Slots /\ accepted[i].of \in Nat /\ Used(accepted[i].of)
         /\ accepted[i].with \subseteq BackupCode
<1> DEFINE Login == [slot : Slots, of : Nat, with : SUBSET BackupCode]
<1>1. accepted \in Seq(Login)
  BY DEF TwoFactorTypeOK
<1> HIDE DEF Login
<1>2. accepted[i] \in Login
  BY <1>1
<1>3. accepted[i].slot \in Slots /\ accepted[i].of \in Nat /\ accepted[i].with \subseteq BackupCode
  BY <1>2 DEF Login
<1> QED BY <1>3 DEF Used, Kept

LEMMA ShelteredSlot ==
  ASSUME TwoFactorTypeOK, Sheltered, NEW r \in Slots, SlotOK(sessions, challenges, requests[r])
  PROVE  SlotOK(sessions', challenges', requests[r])
<1>1. CASE Referring(requests[r])
  <2>1. requests[r].of \in Nat /\ Used(requests[r].of)
    BY <1>1, SlotParts DEF Used, Mentions
  <2> QED BY <2>1 DEF Sheltered, SlotOK
<1>2. CASE ~Referring(requests[r])
  BY <1>2 DEF SlotOK, Referring, PasskeyOps
<1> QED BY <1>1, <1>2

LEMMA SlotsStep ==
  ASSUME TwoFactorTypeOK, SlotInv, accepted' = accepted, Sheltered, Apart(sessions', challenges'),
         \A s \in Slots : requests'[s] # requests[s] =>
           /\ SlotOK(sessions', challenges', requests'[s])
           /\ Referring(requests'[s]) =>
                \/ Referring(requests[s]) /\ requests'[s].of = requests[s].of
                \/ ~Closed(sessions, challenges, requests'[s].of)
  PROVE  SlotInv'
<1>1. \A s \in Slots : SlotOK(sessions', challenges', requests'[s])
  BY ShelteredSlot DEF SlotInv
<1>2. ASSUME NEW i \in DOMAIN accepted
      PROVE  /\ Closed(sessions', challenges', accepted[i].of)
             /\ Referring(requests'[accepted[i].slot]) =>
                  requests'[accepted[i].slot].of # accepted[i].of
  <2>1. /\ Closed(sessions, challenges, accepted[i].of)
        /\ Referring(requests[accepted[i].slot]) => requests[accepted[i].slot].of # accepted[i].of
    BY DEF SlotInv
  <2>2. accepted[i].slot \in Slots /\ accepted[i].of \in Nat /\ Used(accepted[i].of)
    BY AcceptedParts
  <2> QED BY <2>1, <2>2 DEF Sheltered
<1>3. \A i, j \in DOMAIN accepted :
        i # j /\ accepted[i].of = accepted[j].of => accepted[i].slot # accepted[j].slot
  BY DEF SlotInv
<1> QED BY <1>1, <1>2, <1>3 DEF SlotInv

\* A step that leaves sessions and challenges alone.
LEMMA SlotsMove ==
  ASSUME TwoFactorTypeOK, SlotInv, NEW r \in Slots, NEW request, Become(r, request),
         UNCHANGED <<sessions, challenges, accepted>>,
         SlotOK(sessions, challenges, request),
         Referring(request) =>
           \/ Referring(requests[r]) /\ request.of = requests[r].of
           \/ ~Closed(sessions, challenges, request.of)
  PROVE  SlotInv'
<1>1. requests'[r] = request /\ \A s \in Slots : s # r => requests'[s] = requests[s]
  BY Becomes
<1>2. Sheltered /\ Apart(sessions', challenges')
  BY DEF Sheltered, SlotInv
<1> QED BY <1>1, <1>2, SlotsStep

LEMMA ManageSlots ==
  ASSUME TypeInv, SlotInv, NEW r \in Slots, Manage(r)
  PROVE  SlotInv'
<1> USE IdleNothing, IdleSlot DEF TypeInv
<1>1. ASSUME NEW op \in Unversioned \cup Versioned, ReadAccount(r, op)
      PROVE  SlotInv'
  <2> DEFINE request == [op |-> op, id |-> served + 1, copy |-> account]
  <2>1. ~Referring(request)
    BY DEF Referring, Unversioned, Versioned
  <2>2. SlotOK(sessions, challenges, request)
    BY DEF SlotOK, PasskeyOps, Unversioned, Versioned
  <2>3. Become(r, request) /\ UNCHANGED <<sessions, challenges, accepted>>
    BY <1>1, Arrives DEF ReadAccount
  <2> HIDE DEF request
  <2> QED BY <2>1, <2>2, <2>3, SlotsMove
<1>2. CASE SaveSetup(r) \/ SaveVerified(r) \/ SaveCodes(r) \/ SaveDisabled(r) \/ SaveProfile(r)
  <2>1. Become(r, Idle) /\ UNCHANGED <<sessions, challenges, accepted>>
    BY <1>2, Continues DEF SaveSetup, SaveVerified, SaveCodes, SaveDisabled, SaveProfile, End
  <2> QED BY <2>1, SlotsMove
<1> QED BY <1>1, <1>2 DEF Manage

\* A session's number is its request's, which nobody has used.
LEMMA OpenSlots ==
  ASSUME TypeInv, SlotInv, NEW r \in Slots, OpenSession(r)
  PROVE  SlotInv'
<1> USE DEF TypeInv
<1> DEFINE session == [id |-> requests[r].id, used |-> FALSE]
<1>1. Numbered(requests[r])
  BY DEF OpenSession, Numbered
<1>2. requests[r].id \in Nat /\ ~Used(requests[r].id)
  BY <1>1, SlotParts DEF FreshInv
<1>3. session.id = requests[r].id
  OBVIOUS
<1>4. sessions' = sessions \cup {session} /\ UNCHANGED <<challenges, accepted>>
  BY DEF OpenSession
<1> HIDE DEF session
<1>5. \A n \in Nat : Used(n) => (IsSession(sessions', n) => IsSession(sessions, n))
  BY <1>2, <1>3, <1>4 DEF IsSession
<1>6. \A n \in Nat : Used(n) /\ Closed(sessions, challenges, n) => Closed(sessions', challenges', n)
  BY <1>2, <1>3, <1>4 DEF Closed
<1>7. Sheltered
  BY <1>4, <1>5, <1>6 DEF Sheltered
<1>8. Apart(sessions', challenges')
  <2>1. \A n \in challenges : n \in Nat /\ Used(n)
    BY DEF TwoFactorTypeOK, Used, Kept
  <2> QED BY <1>4, <1>5, <2>1 DEF SlotInv, Apart
<1>9. requests'[r] = Idle /\ \A s \in Slots : s # r => requests'[s] = requests[s]
  BY Continues, Becomes DEF OpenSession, End
<1> QED BY <1>4, <1>7, <1>8, <1>9, IdleNothing, IdleSlot, SlotsStep

LEMMA MarkSlots ==
  ASSUME TypeInv, SlotInv, NEW r \in Slots, MarkSession(r)
  PROVE  SlotInv'
<1> USE DEF TypeInv
<1> DEFINE request == [op |-> "check", of |-> requests[r].of]
<1>1. request.op = "check" /\ request.of = requests[r].of
  OBVIOUS
<1>2. Become(r, request) /\ UNCHANGED <<challenges, accepted>>
  BY Continues DEF MarkSession
<1> HIDE DEF request
<1>3. requests[r].op = "mark" /\ Referring(requests[r])
  BY DEF MarkSession, Referring
<1>4. ASSUME NEW session \in sessions'
      PROVE  \E old \in sessions :
               /\ session.id = old.id /\ (old.used => session.used)
               /\ session.id = requests[r].of => session.used
  <2>1. PICK old \in sessions : session = IF old.id = requests[r].of
                                            THEN [old EXCEPT !.used = TRUE] ELSE old
    BY DEF MarkSession
  <2>2. old \in Session
    BY DEF TwoFactorTypeOK
  <2>3. CASE old.id = requests[r].of
    <3>1. session = [old EXCEPT !.used = TRUE]
      BY <2>1, <2>3
    <3>2. session.id = old.id /\ session.used = TRUE
      BY <2>2, <3>1 DEF Session
    <3> QED BY <3>2
  <2>4. CASE old.id # requests[r].of
    BY <2>1, <2>4
  <2> QED BY <2>3, <2>4
<1>5. \A n : IsSession(sessions', n) => IsSession(sessions, n)
  BY <1>4 DEF IsSession
<1>6. \A n : Closed(sessions, challenges, n) => Closed(sessions', challenges', n)
  BY <1>2, <1>4 DEF Closed
<1>7. Sheltered /\ Apart(sessions', challenges')
  BY <1>2, <1>5, <1>6 DEF Sheltered, Apart, SlotInv
<1>8. SlotOK(sessions', challenges', request)
  <2>1. requests[r].of \notin challenges
    BY <1>3 DEF SlotInv, SlotOK
  <2>2. Closed(sessions', challenges', request.of)
    BY <1>1, <1>2, <1>4, <2>1 DEF Closed
  <2> QED BY <1>1, <2>2 DEF SlotOK, PasskeyOps
<1>9. requests'[r] = request /\ \A s \in Slots : s # r => requests'[s] = requests[s]
  BY <1>2, Becomes
<1> QED BY <1>1, <1>2, <1>3, <1>7, <1>8, <1>9, SlotsStep

LEMMA EndedSlots ==
  ASSUME TypeInv, SlotInv, NEW r \in Slots, NEW with, Ended(r, with), Referring(requests[r]),
         Sheltered, Apart(sessions', challenges'), Closed(sessions', challenges', requests[r].of)
  PROVE  SlotInv'
<1> USE DEF TypeInv
<1>1. PICK last \in DOMAIN accepted' :
        /\ accepted'[last].slot = r /\ accepted'[last].of = requests[r].of
        /\ \A i \in DOMAIN accepted' : i # last => i \in DOMAIN accepted /\ accepted'[i] = accepted[i]
  BY DEF Ended
<1>2. requests'[r] = Idle /\ \A s \in Slots : s # r => requests'[s] = requests[s]
  BY DEF Ended
<1>3. \A s \in Slots : s # r => SlotOK(sessions', challenges', requests[s])
  BY ShelteredSlot DEF SlotInv
<1>4. \A s \in Slots : SlotOK(sessions', challenges', requests'[s])
  BY <1>2, <1>3, IdleSlot
<1>5. ASSUME NEW i \in DOMAIN accepted'
      PROVE  /\ Closed(sessions', challenges', accepted'[i].of)
             /\ Referring(requests'[accepted'[i].slot]) =>
                  requests'[accepted'[i].slot].of # accepted'[i].of
  <2>1. CASE i = last
    BY <1>1, <1>2, <2>1, IdleNothing
  <2>2. CASE i # last
    <3>1. i \in DOMAIN accepted /\ accepted'[i] = accepted[i]
      BY <1>1, <2>2
    <3>2. accepted[i].slot \in Slots /\ accepted[i].of \in Nat /\ Used(accepted[i].of)
      BY <3>1, AcceptedParts
    <3>3. /\ Closed(sessions, challenges, accepted[i].of)
          /\ Referring(requests[accepted[i].slot]) => requests[accepted[i].slot].of # accepted[i].of
      BY <3>1 DEF SlotInv
    <3>4. Closed(sessions', challenges', accepted[i].of)
      BY <3>2, <3>3 DEF Sheltered
    <3> QED BY <1>2, <3>1, <3>2, <3>3, <3>4, IdleNothing
  <2> QED BY <2>1, <2>2
<1>6. ASSUME NEW i \in DOMAIN accepted', i # last, accepted'[i].of = accepted'[last].of
      PROVE  accepted'[i].slot # r
  <2>1. i \in DOMAIN accepted /\ accepted'[i] = accepted[i]
    BY <1>1, <1>6
  <2>2. Referring(requests[accepted[i].slot]) => requests[accepted[i].slot].of # accepted[i].of
    BY <2>1 DEF SlotInv
  <2> QED BY <1>1, <1>6, <2>1, <2>2
<1>7. ASSUME NEW i \in DOMAIN accepted', NEW j \in DOMAIN accepted', i # j,
             accepted'[i].of = accepted'[j].of
      PROVE  accepted'[i].slot # accepted'[j].slot
  <2>1. CASE i = last \/ j = last
    BY <1>1, <1>6, <1>7, <2>1
  <2>2. CASE i # last /\ j # last
    <3>1. /\ i \in DOMAIN accepted /\ accepted'[i] = accepted[i]
          /\ j \in DOMAIN accepted /\ accepted'[j] = accepted[j]
      BY <1>1, <2>2
    <3> QED BY <1>7, <3>1 DEF SlotInv
  <2> QED BY <2>1, <2>2
<1> QED BY <1>4, <1>5, <1>7 DEF SlotInv

LEMMA AcceptSlots ==
  ASSUME TypeInv, SlotInv, NEW r \in Slots, Accept(r)
  PROVE  SlotInv'
<1> USE DEF TypeInv
<1>1. requests[r].op = "accept" /\ Ended(r, requests[r].with) /\ UNCHANGED <<sessions, challenges>>
  BY Accepts DEF Accept
<1>2. Closed(sessions, challenges, requests[r].of) /\ Referring(requests[r])
  BY <1>1 DEF SlotInv, SlotOK, Referring
<1>3. Sheltered /\ Apart(sessions', challenges')
  BY <1>1 DEF Sheltered, SlotInv
<1> QED BY <1>1, <1>2, <1>3, EndedSlots

LEMMA LogInSlots ==
  ASSUME TypeInv, SlotInv, NEW r \in Slots, LogIn(r)
  PROVE  SlotInv'
<1> USE DEF TypeInv
<1>1. CASE AskSecondFactor(r)
  <2> DEFINE request == [op |-> "open", id |-> served + 1]
  <2>1. request.op = "open"
    OBVIOUS
  <2>2. Become(r, request) /\ UNCHANGED <<sessions, challenges, accepted>>
    BY <1>1, Arrives DEF AskSecondFactor
  <2> HIDE DEF request
  <2> QED BY <2>1, <2>2, SlotsMove DEF SlotOK, Referring, PasskeyOps
<1>2. ASSUME NEW session \in sessions, FindSession(r, session)
      PROVE  SlotInv'
  <2> DEFINE request == [op |-> "mark", of |-> session.id]
  <2>1. request.op = "mark" /\ request.of = session.id
    OBVIOUS
  <2>2. Become(r, request) /\ UNCHANGED <<sessions, challenges, accepted>>
    BY <1>2, Arrives DEF FindSession
  <2> HIDE DEF request
  <2>3. request.of \notin challenges
    BY <2>1 DEF SlotInv, Apart, IsSession
  <2>4. ~Closed(sessions, challenges, request.of)
    BY <1>2, <2>1 DEF FindSession, Closed
  <2> QED BY <2>1, <2>2, <2>3, <2>4, SlotsMove DEF SlotOK, PasskeyOps
<1>3. CASE CheckTOTP(r)
  <2> DEFINE request == [op |-> "accept", of |-> requests[r].of, with |-> {}]
  <2>1. request.op = "accept" /\ request.of = requests[r].of
    OBVIOUS
  <2>2. Become(r, request) /\ UNCHANGED <<sessions, challenges, accepted>>
    BY <1>3, Continues DEF CheckTOTP
  <2> HIDE DEF request
  <2>3. requests[r].op = "check"
    BY <1>3 DEF CheckTOTP
  <2> QED BY <2>1, <2>2, <2>3, SlotsMove DEF SlotInv, SlotOK, Referring, PasskeyOps
<1>4. ASSUME NEW code \in account.codes, CheckBackup(r, code)
      PROVE  SlotInv'
  <2> DEFINE request == [op |-> "spend", of |-> requests[r].of, code |-> code, copy |-> account]
  <2>1. request.op = "spend" /\ request.of = requests[r].of
    OBVIOUS
  <2>2. Become(r, request) /\ UNCHANGED <<sessions, challenges, accepted>>
    BY <1>4, Continues DEF CheckBackup
  <2> HIDE DEF request
  <2>3. requests[r].op = "check"
    BY <1>4 DEF CheckBackup
  <2> QED BY <2>1, <2>2, <2>3, SlotsMove DEF SlotInv, SlotOK, Referring, PasskeyOps
<1>5. CASE SpendCode(r)
  <2> DEFINE request == [op |-> "accept", of |-> requests[r].of, with |-> {requests[r].code}]
  <2>1. request.op = "accept" /\ request.of = requests[r].of
    OBVIOUS
  <2>2. Become(r, request) /\ UNCHANGED <<sessions, challenges, accepted>>
    BY <1>5, Continues DEF SpendCode
  <2> HIDE DEF request
  <2>3. requests[r].op = "spend"
    BY <1>5 DEF SpendCode
  <2> QED BY <2>1, <2>2, <2>3, SlotsMove DEF SlotInv, SlotOK, Referring, PasskeyOps
<1> QED BY <1>1, <1>2, <1>3, <1>4, <1>5, OpenSlots, MarkSlots, AcceptSlots DEF LogIn

LEMMA DropSlots ==
  ASSUME TypeInv, SlotInv, NEW r \in Slots, DropChallenge(r)
  PROVE  SlotInv'
<1> USE DEF TypeInv
<1>1. /\ challenges' = challenges \ {requests[r].of} /\ UNCHANGED sessions
      /\ requests[r].op \in {"registered", "counted"} /\ Referring(requests[r])
  BY DEF DropChallenge, Referring
<1>2. Sheltered /\ Apart(sessions', challenges')
  BY <1>1 DEF Sheltered, Closed, SlotInv, Apart
<1>3. Closed(sessions', challenges', requests[r].of)
  BY <1>1 DEF SlotInv, SlotOK, PasskeyOps, IsSession, Closed
<1>4. CASE requests[r].op = "registered"
  BY <1>1, <1>2, <1>3, <1>4, Registers, EndedSlots
<1>5. CASE requests[r].op = "counted"
  <2> DEFINE request == [op |-> "accept", of |-> requests[r].of, with |-> {}]
  <2>1. request.op = "accept" /\ request.of = requests[r].of
    OBVIOUS
  <2>2. Become(r, request) /\ accepted' = accepted
    BY <1>5, Continues DEF DropChallenge
  <2> HIDE DEF request
  <2>3. SlotOK(sessions', challenges', request)
    BY <1>3, <2>1 DEF SlotOK, PasskeyOps
  <2>4. requests'[r] = request /\ \A s \in Slots : s # r => requests'[s] = requests[s]
    BY <2>2, Becomes
  <2> QED BY <1>1, <1>2, <2>1, <2>2, <2>3, <2>4, SlotsStep
<1> QED BY <1>1, <1>4, <1>5

LEMMA UsePasskeySlots ==
  ASSUME TypeInv, SlotInv, NEW r \in Slots, UsePasskey(r)
  PROVE  SlotInv'
<1> USE DEF TypeInv
\* A request that goes on with its challenge.
<1>1. ASSUME NEW request, Become(r, request), UNCHANGED <<sessions, challenges, accepted>>,
             requests[r].op \in PasskeyOps, request.op \in PasskeyOps, request.of = requests[r].of
      PROVE  SlotInv'
  <2>1. SlotOK(sessions, challenges, request)
    BY <1>1 DEF SlotInv, SlotOK, PasskeyOps
  <2>2. Referring(requests[r])
    BY <1>1 DEF PasskeyOps, Referring
  <2> QED BY <1>1, <2>1, <2>2, SlotsMove
<1>2. ASSUME NEW challenge \in challenges, NEW op \in {"registration", "login"},
             FindChallenge(r, challenge, op)
      PROVE  SlotInv'
  <2> DEFINE request == [op |-> op, of |-> challenge]
  <2>1. request.op \in {"registration", "login"} /\ request.of = challenge
    OBVIOUS
  <2>2. Become(r, request) /\ UNCHANGED <<sessions, challenges, accepted>>
    BY <1>2, Arrives DEF FindChallenge
  <2> HIDE DEF request
  <2>3. ~Closed(sessions, challenges, request.of) /\ ~IsSession(sessions, request.of)
    BY <2>1 DEF Closed, SlotInv, Apart
  <2> QED BY <2>1, <2>2, <2>3, SlotsMove DEF SlotOK
<1>3. CASE ReadToRegister(r)
  <2> DEFINE request == [op |-> "register", of |-> requests[r].of, copy |-> account]
  <2>1. request.op \in PasskeyOps /\ request.of = requests[r].of /\ requests[r].op \in PasskeyOps
    BY <1>3 DEF ReadToRegister, PasskeyOps
  <2>2. Become(r, request) /\ UNCHANGED <<sessions, challenges, accepted>>
    BY <1>3, Continues DEF ReadToRegister
  <2> HIDE DEF request
  <2> QED BY <1>1, <2>1, <2>2
<1>4. CASE SavePasskey(r)
  <2> DEFINE request == [op |-> "registered", of |-> requests[r].of]
  <2>1. request.op \in PasskeyOps /\ request.of = requests[r].of /\ requests[r].op \in PasskeyOps
    BY <1>4 DEF SavePasskey, PasskeyOps
  <2>2. Become(r, request) /\ UNCHANGED <<sessions, challenges, accepted>>
    BY <1>4, Continues DEF SavePasskey
  <2> HIDE DEF request
  <2> QED BY <1>1, <2>1, <2>2
<1>5. ASSUME NEW i \in DOMAIN account.passkeys, NEW count \in 0 .. MaxCount,
             CheckPasskey(r, i, count)
      PROVE  SlotInv'
  <2> DEFINE request == [op |-> "count", of |-> requests[r].of, at |-> i, count |-> count,
                         copy |-> account]
  <2>1. request.op \in PasskeyOps /\ request.of = requests[r].of /\ requests[r].op \in PasskeyOps
    BY <1>5 DEF CheckPasskey, PasskeyOps
  <2>2. Become(r, request) /\ UNCHANGED <<sessions, challenges, accepted>>
    BY <1>5, Continues DEF CheckPasskey
  <2> HIDE DEF request
  <2> QED BY <1>1, <2>1, <2>2
<1>6. CASE SaveCount(r)
  <2> DEFINE request == [op |-> "counted", of |-> requests[r].of]
  <2>1. request.op \in PasskeyOps /\ request.of = requests[r].of /\ requests[r].op \in PasskeyOps
    BY <1>6 DEF SaveCount, PasskeyOps
  <2>2. Become(r, request) /\ UNCHANGED <<sessions, challenges, accepted>>
    BY <1>6, Continues DEF SaveCount
  <2> HIDE DEF request
  <2> QED BY <1>1, <2>1, <2>2
<1>7. ASSUME NEW i \in DOMAIN account.passkeys, FindPasskey(r, i)
      PROVE  SlotInv'
  <2> DEFINE request == [op |-> "delete", at |-> i, copy |-> account]
  <2>1. request.op = "delete"
    OBVIOUS
  <2>2. Become(r, request) /\ UNCHANGED <<sessions, challenges, accepted>>
    BY <1>7, Arrives DEF FindPasskey
  <2> HIDE DEF request
  <2> QED BY <2>1, <2>2, SlotsMove DEF SlotOK, Referring, PasskeyOps
<1>8. CASE DeletePasskey(r)
  BY <1>8, IdleNothing, IdleSlot, Continues, SlotsMove DEF DeletePasskey, End
<1> QED BY <1>2, <1>3, <1>4, <1>5, <1>6, <1>7, <1>8, DropSlots DEF UsePasskey

LEMMA NextSlots == TypeInv /\ SlotInv /\ [Next]_vars => SlotInv'
<1> SUFFICES ASSUME TypeInv, SlotInv, [Next]_vars PROVE SlotInv'
  OBVIOUS
<1> USE DEF TypeInv
<1>1. ASSUME NEW r \in Slots, Abandon(r)
      PROVE  SlotInv'
  BY <1>1, IdleNothing, IdleSlot, Continues, SlotsMove DEF Abandon, End
<1>2. CASE NewChallenge
  <2> DEFINE new == served + 1
  <2>1. new \in Nat /\ \A n \in Nat : Used(n) => n # new
    BY <1>2, TwoFactorAssumption DEF NewChallenge, TwoFactorTypeOK, FreshInv
  <2>2. challenges' = challenges \cup {new} /\ UNCHANGED <<sessions, requests, accepted>>
    BY <1>2 DEF NewChallenge
  <2> HIDE DEF new
  <2>3. Sheltered
    BY <2>1, <2>2 DEF Sheltered, Closed
  <2>4. Apart(sessions', challenges')
    <3>1. ~IsSession(sessions, new)
      BY <2>1 DEF IsSession, Used, Kept
    <3> QED BY <2>2, <3>1 DEF SlotInv, Apart
  <2> QED BY <2>2, <2>3, <2>4, SlotsStep
<1>3. CASE Expire
  <2>1. /\ sessions' \subseteq sessions /\ challenges' \subseteq challenges
        /\ UNCHANGED <<requests, accepted>>
    BY <1>3 DEF Expire
  <2>2. Sheltered /\ Apart(sessions', challenges')
    BY <2>1 DEF Sheltered, Closed, IsSession, SlotInv, Apart
  <2> QED BY <2>1, <2>2, SlotsStep
<1>4. CASE UNCHANGED vars
  BY <1>4 DEF vars, SlotInv
<1> QED BY <1>1, <1>2, <1>3, <1>4, ManageSlots, LogInSlots, UsePasskeySlots DEF Next

LEMMA InitSlots == Init => SlotInv
BY IdleSlot DEF Init, SlotInv, Apart

\* A backup code is accepted once, and neither a two-factor session nor a
\* challenge logs in or registers who comes after it did so once: sessions are
\* marked used before the code is looked at, a challenge is deleted before the
\* login or the registration is completed, and a list of codes is only saved to
\* the version it was read from (twoFactorController.ts).
THEOREM LoginsSpent == Spec => []LoginsAreSpent
<1>1. Init => TypeInv /\ SpentInv /\ SlotInv
  BY InitShape, InitFresh, InitCopies, InitSpent, InitSlots DEF TypeInv
<1>2. TypeInv /\ SpentInv /\ SlotInv /\ [Next]_vars => (TypeInv /\ SpentInv /\ SlotInv)'
  BY NextShape, NextFresh, NextCopies, NextSpent, NextSlots DEF TypeInv
<1>3. TypeInv /\ SpentInv /\ SlotInv => LoginsAreSpent
  <2> SUFFICES ASSUME TypeInv, SpentInv, SlotInv, NEW i \in DOMAIN accepted,
                      NEW j \in DOMAIN accepted, i # j
               PROVE  /\ accepted[i].with \cap accepted[j].with = {}
                      /\ accepted[i].of = accepted[j].of => accepted[i].slot # accepted[j].slot
    BY DEF LoginsAreSpent
  <2>1. accepted[i].with \subseteq BackupCode
    BY AcceptedParts DEF TypeInv
  <2>2. accepted[i].with \cap accepted[j].with = {}
    BY <2>1 DEF SpentInv, OnceInv
  <2> QED BY <2>2 DEF SlotInv
<1> QED BY <1>1, <1>2, <1>3, PTL DEF Spec
=============================================================================
