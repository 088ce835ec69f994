------------------------------ MODULE SessionsProofs ------------------------------
(****************************************************************************)
(* Users and Sessions for any number of concurrent requests, devices and    *)
(* budgets, any limit of failures and any window.                           *)
(*                                                                          *)
(* None of the properties is inductive. A request acts on what an earlier   *)
(* step of it read, so the invariant says of every request which steps its  *)
(* operation can be at (StepOK), what it was given and that this is still   *)
(* true (Given), what it has read or written (Holding), and what the        *)
(* administrators had decided when it began (Decided, Refused). It rests on *)
(* what is shared only growing (Grows): what a request knows of a session,  *)
(* a token or a device cannot be taken back by another's step.              *)
(****************************************************************************)
EXTENDS Sessions, TLAPS
--------------------------------------------------------------------------------
(* The inductive invariant. *)

DeviceRow == [revoked : BOOLEAN, wiped : BOOLEAN, delivered : BOOLEAN]
SessionRow == [dev : Devices, token : Nat, expires : Nat, revoked : BOOLEAN, flow : Nat]

\* The account: its row is well formed, a code that has let a request in is used up for
\* as long as its set is stored, and the counter of failures is the number of them.
UsedUp ==
  /\ accepted \in Seq(Nat \X RecoveryCodes)
  /\ \A i \in DOMAIN accepted : accepted[i][1] = codes.set => accepted[i][2] \in codes.used
AccountOK == UsersTypeOK /\ UsedUp /\ RecoveryWorks /\ LockoutCounts

\* A device has the session i.
Owns(d, i) == i \in DOMAIN session /\ session[i].dev = d

\* The token was issued, and only to the device d.
Tracks(d, token) ==
  /\ token \in 1..fresh.token
  /\ \A i \in DOMAIN session : session[i].token = token => session[i].dev = d

\* The rows of devices and of sessions, and what browsers hold.
DevicesOK ==
  /\ device \in [Devices -> DeviceRow \cup {None}]
  /\ \A d \in Devices : Registered(d) /\ device[d].delivered => device[d].wiped
SessionsOK ==
  /\ session \in Seq(SessionRow)
  /\ \A i \in DOMAIN session : /\ session[i].token \in 1..fresh.token
                               /\ session[i].expires <= now + SessionTTL
                               /\ session[i].flow <= flow
JarOK ==
  /\ DOMAIN jar = Devices
  /\ \A d \in Devices : jar[d] # None => Owns(d, jar[d].sess) /\ Tracks(d, jar[d].token)
RowsOK == DevicesOK /\ SessionsOK /\ JarOK

\* The provider, and which of its sign-ins have given a session.
ProviderOK ==
  /\ flow \in Nat
  /\ spent \subseteq [flow : 1..flow, at : 0..now]
  /\ provider \in [key : Nat, cached : Nat, fetched : Nat, redeemed : SUBSET (1..flow)]
  /\ \A i \in DOMAIN session : session[i].flow # 0 => session[i].flow \in provider.redeemed
  /\ \A i, j \in DOMAIN session : session[i].flow # 0 /\ session[i].flow = session[j].flow => i = j

\* What a caller presented: the step of a code is at most one ahead, a set of recovery
\* codes was generated.
Presented(k) ==
  /\ k.kind = "totp" => k.step \in 1..now + 1
  /\ k.kind = "recovery" => k.set \in 1..fresh.set /\ k.code \in RecoveryCodes

Proving == {"verify", "factor", "failed", "clear"}
Issuing == {"device", "insert", "register"}

\* The steps each operation goes through.
StepOK(r) ==
  /\ r.op \in {"login", "oidc", "refresh"} \cup Authenticated
  /\ r.op = "login" => r.at \in Proving \cup Issuing \cup {"answer"}
  /\ r.op = "oidc" => r.at \in Issuing \cup {"callback", "exchange", "resolve", "link", "answer"}
  /\ r.op = "refresh" => r.at \in {"refresh", "recheck", "extend", "deliver", "answer"}
  /\ r.op = "call" => r.at \in {"session", "check", "deliver", "answer"}
  /\ r.op = "logout" => r.at \in {"session", "check", "deliver", "revoke", "answer"}
  /\ r.op = "confirm" => r.at \in {"session", "check", "deliver", "confirm", "enable", "answer"}
  /\ r.op = "enroll" => r.at \in Proving \cup {"session", "check", "deliver", "caller", "start",
                                               "enroll", "answer"}
  /\ r.op = "disable" => r.at \in Proving \cup {"session", "check", "deliver", "caller", "disable",
                                                "answer"}

\* What a request was given when it began.
Given(r) ==
  /\ {"op", "at", "dev", "out", "wipedOut"} \subseteq DOMAIN r /\ r.dev \in Devices
  /\ r.op = "login" => {"creds", "flow"} \subseteq DOMAIN r /\ r.flow = 0 /\ Presented(r.creds)
  /\ r.op = "oidc" => /\ {"flow", "subject", "verified"} \subseteq DOMAIN r
                      /\ r.flow \in 1..flow /\ r.subject \in Subjects
  /\ r.op = "refresh" => "sess" \in DOMAIN r /\ Owns(r.dev, r.sess)
  /\ r.op \in Authenticated => /\ {"creds", "token", "again"} \subseteq DOMAIN r
                               /\ Presented(r.creds) /\ Tracks(r.dev, r.token)
  /\ r.op = "confirm" => r.creds.kind = "totp"

\* An administrator's decisions stay.
Decided(r) ==
  /\ r.wipedOut \subseteq r.out
  /\ \A d \in r.out : d \in Devices /\ (Revoked(d) \/ Wiped(d))
  /\ \A d \in r.wipedOut : Wiped(d)

\* What it has read or written so far.
Holding(r) ==
  /\ r.at \in {"factor", "failed"} => {"u", "t"} \subseteq DOMAIN r /\ r.t \in 1..now
  /\ r.at \in {"check", "revoke"} => "sess" \in DOMAIN r /\ Owns(r.dev, r.sess)
  /\ r.at = "register" \/ (r.at = "answer" /\ r.op \in {"login", "oidc", "refresh"})
       => /\ {"sess", "token"} \subseteq DOMAIN r
          /\ Owns(r.dev, r.sess) /\ Tracks(r.dev, r.token)
  /\ r.at = "deliver" => Wiped(r.dev)

\* One that began after the administrator acted has not got past the check of its device.
Refused(r) ==
  /\ r.op \in {"login", "oidc"} /\ r.at \in {"insert", "register", "answer"} => r.dev \notin r.out
  /\ r.op = "refresh" /\ r.at \in {"extend", "answer"} => r.dev \notin r.out
  /\ r.op \in Authenticated /\ r.at \notin {"session", "check", "deliver"} => r.dev \notin r.wipedOut

RequestOK(c) ==
  req[c] # Idle => /\ StepOK(req[c]) /\ Given(req[c]) /\ Decided(req[c])
                   /\ Holding(req[c]) /\ Refused(req[c])

\* A request that the provider has redeemed a code for, and that has given no session yet.
Redeemed(c) == req[c].op = "oidc" /\ req[c].at \in {"resolve", "link", "device", "insert"}
FlowsOK ==
  /\ \A c \in Clients : Redeemed(c) =>
       /\ req[c].flow \in provider.redeemed
       /\ \A i \in DOMAIN session : session[i].flow # req[c].flow
  /\ \A c, d \in Clients : Redeemed(c) /\ Redeemed(d) /\ req[c].flow = req[d].flow => c = d

RequestsOK == DOMAIN req = Clients /\ \A c \in Clients : RequestOK(c)

IInv == AccountOK /\ RowsOK /\ ProviderOK /\ RequestsOK /\ FlowsOK
--------------------------------------------------------------------------------
USE UsersAssumption, SessionsAssumption

(* How the steps change a request. *)

LEMMA GotoKeeps ==
  ASSUME DOMAIN req = Clients, NEW c \in Clients, NEW step, Goto(c, step),
         {"op", "at", "dev", "out", "wipedOut"} \subseteq DOMAIN req[c]
  PROVE  /\ DOMAIN req' = Clients
         /\ \A d \in Clients : d # c => req'[d] = req[d]
         /\ DOMAIN req'[c] = DOMAIN req[c] /\ req'[c].at = step
         /\ \A f \in DOMAIN req[c] : f # "at" => req'[c][f] = req[c][f]
  BY DEF Goto

LEMMA EndKeeps ==
  ASSUME DOMAIN req = Clients, NEW c \in Clients, End(c)
  PROVE  /\ DOMAIN req' = Clients /\ req'[c] = Idle
         /\ \A d \in Clients : d # c => req'[d] = req[d]
  BY DEF End

LEMMA AmendKeeps ==
  ASSUME DOMAIN req = Clients, NEW c \in Clients, NEW more, req' = [req EXCEPT ![c] = Amend(@, more)]
  PROVE  /\ DOMAIN req' = Clients
         /\ \A d \in Clients : d # c => req'[d] = req[d]
         /\ DOMAIN req'[c] = DOMAIN req[c] \cup DOMAIN more
         /\ \A f \in DOMAIN more : req'[c][f] = more[f]
         /\ \A f \in DOMAIN req[c] : f \notin DOMAIN more => req'[c][f] = req[c][f]
  BY DEF Amend

LEMMA RequestBegins ==
  ASSUME DOMAIN req = Clients, NEW c \in Clients, NEW op, NEW d, NEW step, NEW more,
         Request(c, op, d, step, more)
  PROVE  /\ DOMAIN req' = Clients
         /\ \A e \in Clients : e # c => req'[e] = req[e]
         /\ {"op", "at", "dev", "out", "wipedOut"} \cup DOMAIN more = DOMAIN req'[c]
         /\ req'[c].op = op /\ req'[c].at = step /\ req'[c].dev = d
         /\ req'[c].out = {x \in Devices : Revoked(x) \/ Wiped(x)}
         /\ req'[c].wipedOut = {x \in Devices : Wiped(x)}
         /\ \A f \in DOMAIN more \ {"op", "at", "dev", "out", "wipedOut"} : req'[c][f] = more[f]
  BY DEF Request, Amend

LEMMA SpendType ==
  ASSUME UsersTypeOK, NEW k \in Kinds, Spend(k)
  PROVE  left' \in [Kinds -> Nat]
  BY DEF UsersTypeOK, Spend

\* A request that is being served is not idle.
LEMMA Serving ==
  ASSUME NEW c \in Clients, NEW step, req[c].at = step, step # "idle"
  PROVE  req[c] # Idle
  BY DEF Idle
--------------------------------------------------------------------------------
LEMMA InitIInv == Init => IInv
<1> SUFFICES ASSUME Init PROVE IInv
  OBVIOUS
<1>1. AccountOK
  <2>1. PICK enrolled \in BOOLEAN, password \in BOOLEAN :
          /\ user = [password |-> password, oidc |-> None, secret |-> IF enrolled THEN 1 ELSE 0,
                     enabled |-> enrolled, last |-> IF enrolled THEN 1 ELSE 0, failures |-> 0,
                     locked |-> 0]
          /\ codes = [set |-> IF enrolled THEN 1 ELSE 0, used |-> {}]
          /\ fresh = [secret |-> IF enrolled THEN 1 ELSE 0, set |-> IF enrolled THEN 1 ELSE 0,
                      token |-> 1]
    BY DEF Init, UsersInit, NoFactor, Amend
  <2>2. now = 2 /\ accepted = <<>> /\ failed = 0 /\ left \in [Kinds -> Nat]
    BY DEF Init, UsersInit
  <2> QED BY <2>1, <2>2 DEF AccountOK, UsedUp, UsersTypeOK, RecoveryWorks, LockoutCounts
<1>2. RowsOK
  BY DEF Init, UsersInit, RowsOK, DevicesOK, SessionsOK, JarOK, DeviceRow, SessionRow, NewDevice, Registered, Owns, Tracks
<1>3. ProviderOK
  BY DEF Init, UsersInit, ProviderOK
<1>4. RequestsOK
  BY DEF Init, UsersInit, RequestsOK, RequestOK
<1>5. FlowsOK
  BY DEF Init, UsersInit, FlowsOK, Redeemed, Idle
<1> QED BY <1>1, <1>2, <1>3, <1>4, <1>5 DEF IInv
--------------------------------------------------------------------------------
(* The account. *)

\* The steps that leave the account alone but may let time pass or spend a budget.
LEMMA AccountRests ==
  ASSUME AccountOK, UNCHANGED account, now' \in Nat, now <= now', left' \in [Kinds -> Nat]
  PROVE  AccountOK'
  BY SMTT(40) DEF AccountOK, UsersTypeOK, UsedUp, account, RecoveryWorks, LockoutCounts

\* Tokens are generated from the same counters.
LEMMA AccountKeepsToken ==
  ASSUME AccountOK, UNCHANGED <<now, user, codes, accepted, failed, left>>,
         fresh' = [fresh EXCEPT !.token = @ + 1]
  PROVE  AccountOK'
<1>1. fresh' \in [secret : Nat, set : Nat, token : Nat] /\ fresh'.secret = fresh.secret /\ fresh'.set = fresh.set
  BY DEF AccountOK, UsersTypeOK
<1>2. UsersTypeOK'
  BY <1>1 DEF AccountOK, UsersTypeOK
<1> QED BY <1>2 DEF AccountOK, UsedUp, RecoveryWorks, LockoutCounts

LEMMA Appended ==
  ASSUME NEW S, NEW s \in Seq(S), NEW e \in S
  PROVE  /\ Append(s, e) \in Seq(S) /\ Len(s) \in Nat /\ Len(Append(s, e)) = Len(s) + 1
         /\ DOMAIN s = 1..Len(s) /\ DOMAIN Append(s, e) = 1..Len(s) + 1
         /\ Append(s, e)[Len(s) + 1] = e
         /\ \A i \in 1..Len(s) : Append(s, e)[i] = s[i]
  OBVIOUS

LEMMA ConsumeKeepsAccount ==
  ASSUME AccountOK, RequestsOK, NEW c \in Clients, ConsumeRecoveryCode(c)
  PROVE  AccountOK'
<1> DEFINE k == req[c].creds
           consumed == k.set = codes.set /\ k.code \notin codes.used
<1>0. fresh.set \in Nat
  BY DEF AccountOK, UsersTypeOK
<1>1. k.set \in 1..fresh.set /\ k.code \in RecoveryCodes
  BY Serving DEF RequestsOK, RequestOK, ConsumeRecoveryCode, StepOK, Given, Issuing, Presented,
                 Authenticated
<1>2. CASE ~consumed
  BY <1>2 DEF ConsumeRecoveryCode, AccountOK, UsersTypeOK, UsedUp, RecoveryWorks, LockoutCounts
<1>3. CASE consumed
  <2>1. /\ codes' = [codes EXCEPT !.used = @ \cup {k.code}]
        /\ accepted' = Append(accepted, <<k.set, k.code>>)
        /\ UNCHANGED <<now, user, fresh, failed, left>>
    BY <1>3 DEF ConsumeRecoveryCode
  <2>2. \A i \in DOMAIN accepted : accepted[i] # <<k.set, k.code>>
    BY <1>3 DEF AccountOK, UsedUp
  <2> HIDE DEF k
  <2>2a. <<k.set, k.code>> \in Nat \X RecoveryCodes
    BY <1>1, <1>0
  <2>3. /\ accepted' \in Seq(Nat \X RecoveryCodes)
        /\ \A i \in DOMAIN accepted' : \/ i \in DOMAIN accepted /\ accepted'[i] = accepted[i]
                                       \/ i = Len(accepted) + 1 /\ accepted'[i] = <<k.set, k.code>>
    <3> DEFINE e == <<k.set, k.code>>
    <3> HIDE DEF e
    <3>1. e \in Nat \X RecoveryCodes /\ accepted' = Append(accepted, e) /\ accepted \in Seq(Nat \X RecoveryCodes)
      BY <2>1, <2>2a DEF AccountOK, UsedUp, e
    <3>2. /\ accepted' \in Seq(Nat \X RecoveryCodes)
          /\ \A i \in DOMAIN accepted' : \/ i \in DOMAIN accepted /\ accepted'[i] = accepted[i]
                                         \/ i = Len(accepted) + 1 /\ accepted'[i] = e
      BY <3>1, Appended
    <3> QED BY <3>2 DEF e
  <2>4. codes' \in [set : 0..fresh.set, used : SUBSET RecoveryCodes]
        /\ codes'.set = codes.set /\ codes'.used = codes.used \cup {k.code}
    BY <1>1, <2>1 DEF AccountOK, UsersTypeOK
  <2>5. \A i \in DOMAIN accepted' : accepted'[i] \in (1..fresh.set) \X RecoveryCodes
    <3> SUFFICES ASSUME NEW i \in DOMAIN accepted'
                 PROVE  accepted'[i] \in (1..fresh.set) \X RecoveryCodes
      OBVIOUS
    <3>1. <<k.set, k.code>> \in (1..fresh.set) \X RecoveryCodes
      BY <1>1
    <3>2. i \in DOMAIN accepted => accepted[i] \in (1..fresh.set) \X RecoveryCodes
      BY DEF AccountOK, UsersTypeOK
    <3> QED BY <2>3, <3>1, <3>2
  <2>6. UsersTypeOK'
    BY <2>1, <2>4, <2>5 DEF AccountOK, UsersTypeOK
  <2>7. RecoveryWorks'
    <3>2. \A i, j \in DOMAIN accepted' : accepted'[i] = accepted'[j] => i = j
      BY <2>2, <2>3 DEF AccountOK, RecoveryWorks
    <3> QED BY <3>2, <2>1, <2>4 DEF AccountOK, RecoveryWorks
  <2>8. LockoutCounts'
    BY <2>1 DEF AccountOK, LockoutCounts
  <2>9. UsedUp'
    <3>1. ASSUME NEW i \in DOMAIN accepted', accepted'[i][1] = codes'.set
          PROVE  accepted'[i][2] \in codes'.used
      <4>1. CASE i \in DOMAIN accepted /\ accepted'[i] = accepted[i]
        BY <2>4, <3>1, <4>1 DEF AccountOK, UsedUp
      <4>2. CASE accepted'[i] = <<k.set, k.code>>
        BY <2>4, <4>2
      <4> QED BY <2>3, <4>1, <4>2
    <3> QED BY <2>3, <3>1 DEF UsedUp
  <2> QED BY <2>6, <2>7, <2>8, <2>9 DEF AccountOK
<1> QED BY <1>2, <1>3

\* The other steps that write the row of the user.
LEMMA UserStepKeepsAccount ==
  ASSUME AccountOK, RequestsOK, NEW c \in Clients, UsersStep(c)
  PROVE  AccountOK'
<1>0. /\ fresh \in [secret : Nat, set : Nat, token : Nat] /\ now \in Nat /\ failed \in Nat
      /\ user = [password |-> user.password, oidc |-> user.oidc, secret |-> user.secret,
                 enabled |-> user.enabled, last |-> user.last, failures |-> user.failures,
                 locked |-> user.locked]
      /\ user.password \in BOOLEAN /\ user.oidc \in Subjects \cup {None}
      /\ user.secret \in 0..fresh.secret /\ user.enabled \in BOOLEAN /\ user.last \in 0..now + 1
      /\ user.failures \in Nat /\ user.locked \in 0..now + LockoutWindow
      /\ codes \in [set : 0..fresh.set, used : SUBSET RecoveryCodes]
  BY DEF AccountOK, UsersTypeOK
<1>1. CASE verify(c) \/ totpEnroll(c) \/ totpDisable(c) \/ StartTOTPEnrollment(c) \/ ConfirmTOTPEnrollment(c)
  <2>1. UNCHANGED <<now, account, left>>
    BY <1>1 DEF verify, totpEnroll, totpDisable, StartTOTPEnrollment, ConfirmTOTPEnrollment
  <2> QED BY <2>1, AccountRests DEF AccountOK, UsersTypeOK
<1>2. CASE ConsumeRecoveryCode(c)
  BY <1>2, ConsumeKeepsAccount
<1>3. CASE SetTOTPLastCounter(c)
  <2>1. req[c].creds.kind = "totp" => req[c].creds.step \in 1..now + 1
    BY <1>3, Serving DEF RequestsOK, RequestOK, SetTOTPLastCounter, StepOK, Given, Issuing,
                         Presented, Authenticated
  <2>2. UNCHANGED <<now, codes, fresh, accepted, failed, left>>
    BY <1>3 DEF SetTOTPLastCounter
  <2>3. user' \in [password : BOOLEAN, oidc : Subjects \cup {None}, secret : 0..fresh.secret,
                   enabled : BOOLEAN, last : 0..now + 1, failures : Nat, locked : 0..now + LockoutWindow]
        /\ user'.enabled = user.enabled /\ user'.failures = user.failures /\ user'.locked = user.locked
    BY <1>3, <2>1 DEF SetTOTPLastCounter, ValidateTOTP, AccountOK, UsersTypeOK
  <2>4. UsersTypeOK'
    BY <2>2, <2>3 DEF AccountOK, UsersTypeOK
  <2> QED BY <2>2, <2>3, <2>4 DEF AccountOK, UsedUp, RecoveryWorks, LockoutCounts
<1>4. CASE recordTOTPFailure(c)
  <2>1. req[c].t \in 1..now
    BY <1>4, Serving DEF RequestsOK, RequestOK, recordTOTPFailure, Holding
  <2> DEFINE locked == IF user.failures + 1 >= MaxFailedAttempts THEN req[c].t + LockoutWindow ELSE user.locked
  <2>2. locked \in 0..now + LockoutWindow
    BY <1>0, <2>1
  <2>3. UNCHANGED <<now, codes, fresh, accepted, left>> /\ failed' = failed + 1
    BY <1>4 DEF recordTOTPFailure
  <2>4. user' = [user EXCEPT !.failures = @ + 1, !.locked = locked]
    BY <1>4 DEF recordTOTPFailure
  <2>5. failed + 1 >= MaxFailedAttempts => locked # 0
    BY <1>0, <2>1 DEF AccountOK, LockoutCounts
  <2> HIDE DEF locked
  <2>6. user' = [password |-> user.password, oidc |-> user.oidc, secret |-> user.secret,
                 enabled |-> user.enabled, last |-> user.last, failures |-> user.failures + 1,
                 locked |-> locked]
    BY <1>0, <2>4
  <2>7. UsersTypeOK'
    <3>1. user' \in [password : BOOLEAN, oidc : Subjects \cup {None}, secret : 0..fresh'.secret,
                   enabled : BOOLEAN, last : 0..now + 1, failures : Nat, locked : 0..now + LockoutWindow]
      BY <1>0, <2>2, <2>3, <2>6
    <3> QED BY <2>3, <3>1 DEF AccountOK, UsersTypeOK
  <2>8. LockoutCounts'
    BY <2>3, <2>5, <2>6 DEF AccountOK, LockoutCounts
  <2> QED BY <2>3, <2>6, <2>7, <2>8 DEF AccountOK, UsedUp, RecoveryWorks
<1>5. CASE clearTOTPFailures(c)
  <2>1. user' = [password |-> user.password, oidc |-> user.oidc, secret |-> user.secret,
                 enabled |-> user.enabled, last |-> user.last, failures |-> 0, locked |-> 0]
    BY <1>0, <1>5 DEF clearTOTPFailures
  <2>2. UNCHANGED <<now, codes, fresh, accepted, left>> /\ failed' = 0
    BY <1>5 DEF clearTOTPFailures
  <2>3. UsersTypeOK'
    <3>1. user' \in [password : BOOLEAN, oidc : Subjects \cup {None}, secret : 0..fresh'.secret,
                   enabled : BOOLEAN, last : 0..now + 1, failures : Nat, locked : 0..now + LockoutWindow]
      BY <1>0, <2>1, <2>2
    <3> QED BY <2>2, <3>1 DEF AccountOK, UsersTypeOK
  <2> QED BY <2>1, <2>2, <2>3 DEF AccountOK, UsedUp, RecoveryWorks, LockoutCounts
<1>6. CASE StoreSecret(c)
  <2>1. /\ user' = [password |-> user.password, oidc |-> user.oidc, secret |-> fresh.secret + 1,
                    enabled |-> FALSE, last |-> user.last, failures |-> user.failures,
                    locked |-> user.locked]
        /\ UNCHANGED <<now, codes, accepted, failed, left>>
    BY <1>0, <1>6 DEF StoreSecret
  <2>2. /\ fresh' \in [secret : Nat, set : Nat, token : Nat]
        /\ fresh'.secret = fresh.secret + 1 /\ fresh'.set = fresh.set
    BY <1>0, <1>6 DEF StoreSecret
  <2>3. UsersTypeOK'
    <3>1. user' \in [password : BOOLEAN, oidc : Subjects \cup {None}, secret : 0..fresh'.secret,
                   enabled : BOOLEAN, last : 0..now + 1, failures : Nat, locked : 0..now + LockoutWindow]
      BY <1>0, <2>1, <2>2
    <3> QED BY <2>1, <2>2, <3>1 DEF AccountOK, UsersTypeOK
  <2> QED BY <2>1, <2>3 DEF AccountOK, UsedUp, RecoveryWorks, LockoutCounts
<1>7. CASE Enable(c)
  <2>1. req[c].creds.step \in 1..now + 1
    BY <1>7, Serving DEF RequestsOK, RequestOK, Enable, StepOK, Given, Proving, Issuing, Presented,
                         Authenticated
  <2>2. /\ user' = [password |-> user.password, oidc |-> user.oidc, secret |-> user.secret,
                    enabled |-> TRUE, last |-> req[c].creds.step, failures |-> user.failures,
                    locked |-> user.locked]
        /\ UNCHANGED <<now, accepted, failed, left>>
    BY <1>0, <1>7 DEF Enable
  <2>3. /\ fresh' \in [secret : Nat, set : Nat, token : Nat]
        /\ fresh'.secret = fresh.secret /\ fresh'.set = fresh.set + 1
        /\ codes' = [set |-> fresh.set + 1, used |-> {}]
    BY <1>0, <1>7 DEF Enable, newRecoveryCodes
  <2>4. UsersTypeOK'
    <3>1. user' \in [password : BOOLEAN, oidc : Subjects \cup {None}, secret : 0..fresh'.secret,
                   enabled : BOOLEAN, last : 0..now + 1, failures : Nat, locked : 0..now + LockoutWindow]
      BY <1>0, <2>1, <2>2, <2>3
    <3>2. codes' \in [set : 0..fresh'.set, used : SUBSET RecoveryCodes]
      BY <1>0, <2>3
    <3>3. \A i \in DOMAIN accepted' : accepted'[i] \in (1..fresh'.set) \X RecoveryCodes
      BY <1>0, <2>2, <2>3 DEF AccountOK, UsersTypeOK
    <3> QED BY <2>2, <2>3, <3>1, <3>2, <3>3 DEF AccountOK, UsersTypeOK
  <2>5. \A i \in DOMAIN accepted' : accepted'[i][1] # codes'.set
    BY <1>0, <2>2, <2>3 DEF AccountOK, UsersTypeOK
  <2>6. codes'.set # 0
    BY <1>0, <2>3
  <2> QED BY <2>2, <2>4, <2>5, <2>6 DEF AccountOK, UsedUp, RecoveryWorks, LockoutCounts
<1>8. CASE DisableTOTP(c)
  <2>1. /\ user' = [password |-> user.password, oidc |-> user.oidc, secret |-> 0, enabled |-> FALSE,
                    last |-> 0, failures |-> 0, locked |-> 0]
        /\ codes' = [set |-> 0, used |-> {}] /\ failed' = 0
        /\ UNCHANGED <<now, fresh, accepted, left>>
    BY <1>0, <1>8 DEF DisableTOTP, NoCodes, NoFactor, Amend
  <2>2. UsersTypeOK'
    <3>1. user' \in [password : BOOLEAN, oidc : Subjects \cup {None}, secret : 0..fresh'.secret,
                   enabled : BOOLEAN, last : 0..now + 1, failures : Nat, locked : 0..now + LockoutWindow]
      BY <1>0, <2>1
    <3>2. codes' \in [set : 0..fresh'.set, used : SUBSET RecoveryCodes]
      BY <1>0, <2>1
    <3> QED BY <2>1, <3>1, <3>2 DEF AccountOK, UsersTypeOK
  <2>3. \A i \in DOMAIN accepted' : accepted'[i][1] # codes'.set
    BY <1>0, <2>1 DEF AccountOK, UsersTypeOK
  <2> QED BY <2>1, <2>2, <2>3 DEF AccountOK, UsedUp, RecoveryWorks, LockoutCounts
<1> QED
  BY <1>1, <1>2, <1>3, <1>4, <1>5, <1>6, <1>7, <1>8 DEF UsersStep, secondFactor

LEMMA AccountStep ==
  ASSUME IInv, [Next]_vars
  PROVE  AccountOK'
<1> USE DEF IInv
<1>0. now \in Nat /\ left \in [Kinds -> Nat]
  BY DEF AccountOK, UsersTypeOK
<1>1. ASSUME NEW c \in Clients, UsersStep(c)
      PROVE  AccountOK'
  BY <1>1, UserStepKeepsAccount
<1>2. ASSUME NEW c \in Clients, login(c) \/ authenticate(c) \/ refresh(c) \/ callback(c)
      PROVE  AccountOK'
  <2>1. UNCHANGED <<now, account>> /\ \E k \in Kinds : Spend(k)
    BY <1>2 DEF login, authenticate, refresh, callback, Request, Authenticated, Kinds
  <2> QED BY <1>0, <2>1, SpendType, AccountRests DEF AccountOK
<1>3. ASSUME NEW c \in Clients,
             \/ validateSession(c) \/ checkDevice(c) \/ MarkWipeDelivered(c) \/ ReadRefresh(c)
             \/ RefreshCheck(c) \/ RevokeSession(c) \/ IssueSession(c) \/ RegisterDevice(c)
             \/ answer(c) \/ consume(c) \/ Exchange(c) \/ ResolveOIDCUser(c)
      PROVE  AccountOK'
  <2>1. UNCHANGED <<now, account, left>>
    BY <1>3 DEF validateSession, checkDevice, MarkWipeDelivered, ReadRefresh, RefreshCheck,
                RevokeSession, IssueSession, RegisterDevice, answer, consume, Exchange, ResolveOIDCUser
  <2> QED BY <1>0, <2>1, AccountRests
<1>4. ASSUME NEW c \in Clients, RefreshSession(c) \/ InsertSession(c)
      PROVE  AccountOK'
  BY <1>4, AccountKeepsToken DEF RefreshSession, InsertSession
<1>5. ASSUME NEW c \in Clients, LinkOIDCIdentity(c)
      PROVE  AccountOK'
  <2>1. req[c].subject \in Subjects
    BY <1>5, Serving DEF RequestsOK, RequestOK, LinkOIDCIdentity, StepOK, Given, Proving, Issuing,
                         Authenticated
  <2> QED BY <1>5, <2>1 DEF LinkOIDCIdentity, AccountOK, UsersTypeOK, UsedUp, RecoveryWorks, LockoutCounts
<1>6. CASE \/ (\E c \in Clients : Fail(c)) \/ (\E d \in Devices : WipeDevice(d) \/ RevokeDevice(d))
           \/ start \/ Tick \/ RotateKey \/ Restart
  <2>1. UNCHANGED account /\ now' \in {now, now + 1} /\ \E k \in Kinds : Spend(k)
    BY <1>6 DEF Fail, WipeDevice, RevokeDevice, start, Tick, RotateKey, Restart, Kinds
  <2> QED BY <1>0, <2>1, SpendType, AccountRests DEF AccountOK
<1>7. CASE UNCHANGED vars
  BY <1>0, <1>7, AccountRests DEF vars
<1> QED BY <1>1, <1>2, <1>3, <1>4, <1>5, <1>6, <1>7 DEF Next, SessionsStep
--------------------------------------------------------------------------------
(* The rows of sessions and devices. *)

\* What is shared only grows: time, generated values and sign-ins, the sessions and what
\* they belong to, what an administrator decided of a device. A token is never used again.
Grows ==
  /\ now <= now' /\ fresh.set <= fresh'.set /\ fresh.token <= fresh'.token /\ flow <= flow'
  /\ \A i \in DOMAIN session : i \in DOMAIN session' /\ session'[i].dev = session[i].dev
                               /\ session'[i].flow = session[i].flow
  /\ \A i \in DOMAIN session' :
       session'[i].token <= fresh.token => i \in DOMAIN session /\ session[i].token = session'[i].token
  /\ \A d \in Devices : (Wiped(d) => Wiped(d)') /\ (Revoked(d) => Revoked(d)')

\* The bounds of IInv are numbers.
LEMMA Numbers ==
  ASSUME AccountOK, ProviderOK
  PROVE  now \in Nat /\ fresh.token \in Nat /\ fresh.set \in Nat /\ flow \in Nat
  BY DEF AccountOK, UsersTypeOK, ProviderOK

LEMMA Elements ==
  ASSUME NEW S, NEW s \in Seq(S)
  PROVE  Len(s) \in Nat /\ DOMAIN s = 1..Len(s) /\ \A i \in DOMAIN s : s[i] \in S
  OBVIOUS

\* The columns of a session are numbers.
LEMMA SessionColumns ==
  ASSUME SessionsOK, NEW i \in DOMAIN session
  PROVE  /\ session[i] \in SessionRow /\ session[i].dev \in Devices /\ session[i].token \in Nat
         /\ session[i].expires \in Nat /\ session[i].flow \in Nat /\ session[i].revoked \in BOOLEAN
<1>1. session[i] \in SessionRow
  BY Elements DEF SessionsOK
<1> QED BY <1>1 DEF SessionRow

\* What a browser holds stays its own.
LEMMA JarGrows ==
  ASSUME AccountOK, AccountOK', ProviderOK, Grows, JarOK, jar' = jar
  PROVE  JarOK'
<1> SUFFICES ASSUME NEW d \in Devices, jar[d] # None
             PROVE  /\ jar[d].sess \in DOMAIN session' /\ session'[jar[d].sess].dev = d
                    /\ jar[d].token \in 1..fresh'.token
                    /\ \A i \in DOMAIN session' : session'[i].token = jar[d].token => session'[i].dev = d
  BY DEF JarOK, Owns, Tracks
<1>1. /\ jar[d].sess \in DOMAIN session /\ session[jar[d].sess].dev = d
      /\ jar[d].token \in 1..fresh.token
      /\ \A i \in DOMAIN session : session[i].token = jar[d].token => session[i].dev = d
  BY DEF JarOK, Owns, Tracks
<1>2. fresh.token \in Nat /\ fresh'.token \in Nat
  BY DEF AccountOK, UsersTypeOK
<1> QED BY <1>1, <1>2 DEF Grows

\* The steps that write none of it.
LEMMA RowsRest ==
  ASSUME IInv, AccountOK', UNCHANGED <<device, session, jar>>, now <= now', flow <= flow',
         fresh.set <= fresh'.set, fresh.token <= fresh'.token, flow' \in Nat
  PROVE  Grows /\ RowsOK'
<1>1. Grows
  BY DEF Grows, Wiped, Revoked, Registered, IInv, RowsOK, SessionsOK
<1>2. now \in Nat /\ now' \in Nat /\ fresh.token \in Nat /\ fresh'.token \in Nat /\ flow \in Nat
  BY Numbers DEF IInv, AccountOK, UsersTypeOK
<1>3. SessionsOK'
  BY <1>2, SessionColumns, SMTT(40) DEF IInv, RowsOK, SessionsOK
<1> QED BY <1>1, <1>3, JarGrows DEF IInv, RowsOK, DevicesOK, Registered

\* A step that writes one session.
LEMMA SessionsWritten ==
  ASSUME IInv, AccountOK', UNCHANGED <<now, device, jar, flow>>, fresh.set <= fresh'.set,
         session' \in Seq(SessionRow), fresh.token <= fresh'.token,
         \A i \in DOMAIN session : i \in DOMAIN session' /\ session'[i].dev = session[i].dev
                                   /\ session'[i].flow = session[i].flow,
         \A i \in DOMAIN session' :
            \/ /\ i \in DOMAIN session /\ session'[i].token = session[i].token
               /\ session'[i].expires = session[i].expires
            \/ /\ session'[i].token = fresh.token + 1 /\ fresh'.token = fresh.token + 1
               /\ session'[i].expires = now + SessionTTL /\ session'[i].flow <= flow
  PROVE  Grows /\ RowsOK'
<1>1. Grows
  BY Numbers DEF Grows, Wiped, Revoked, Registered, IInv
<1>2. now \in Nat /\ fresh.token \in Nat /\ fresh'.token \in Nat /\ flow \in Nat
  BY Numbers DEF IInv, AccountOK, UsersTypeOK
<1>3. SessionsOK'
  <2>1. \A i \in DOMAIN session' : /\ session'[i].token \in 1..fresh'.token
                                   /\ session'[i].expires <= now + SessionTTL
                                   /\ session'[i].flow <= flow
    <3> SUFFICES ASSUME NEW i \in DOMAIN session'
                 PROVE  /\ session'[i].token \in 1..fresh'.token
                        /\ session'[i].expires <= now + SessionTTL
                        /\ session'[i].flow <= flow
      OBVIOUS
    <3>1. CASE i \in DOMAIN session /\ session'[i].token = session[i].token
               /\ session'[i].expires = session[i].expires
      <4>1. SessionsOK
        BY DEF IInv, RowsOK
      <4> QED BY <1>2, <3>1, <4>1, SessionColumns DEF SessionsOK
    <3>2. CASE /\ session'[i].token = fresh.token + 1 /\ fresh'.token = fresh.token + 1
               /\ session'[i].expires = now + SessionTTL /\ session'[i].flow <= flow
      BY <1>2, <3>2
    <3> QED BY <3>1, <3>2
  <2> QED BY <2>1 DEF SessionsOK
<1> QED BY <1>1, <1>3, JarGrows DEF IInv, RowsOK, DevicesOK, Registered

\* A step that writes one device.
LEMMA DeviceWritten ==
  ASSUME IInv, AccountOK', UNCHANGED <<now, fresh, session, jar, flow>>,
         NEW d \in Devices, NEW row \in DeviceRow, device' = [device EXCEPT ![d] = row],
         Wiped(d) => row.wiped, Revoked(d) => row.revoked, row.delivered => row.wiped
  PROVE  Grows /\ RowsOK'
<1>0. row # None
  BY DEF DeviceRow
<1>1. /\ device' \in [Devices -> DeviceRow \cup {None}]
      /\ \A e \in Devices : e # d => device'[e] = device[e]
      /\ device'[d] = row
  BY DEF IInv, RowsOK, DevicesOK
<1>2. Grows
  <2>1. \A e \in Devices : (Wiped(e) => Wiped(e)') /\ (Revoked(e) => Revoked(e)')
    BY <1>0, <1>1 DEF Wiped, Revoked, Registered
  <2> QED BY <2>1, Numbers DEF Grows, IInv
<1>3. \A e \in Devices : Registered(e)' /\ device'[e].delivered => device'[e].wiped
  BY <1>1 DEF IInv, RowsOK, DevicesOK, Registered
<1> QED BY <1>1, <1>2, <1>3, JarGrows DEF IInv, RowsOK, DevicesOK, SessionsOK

LEMMA ElementWritten ==
  ASSUME NEW S, NEW s \in Seq(S), NEW k \in DOMAIN s, NEW e \in S
  PROVE  /\ [s EXCEPT ![k] = e] \in Seq(S) /\ DOMAIN [s EXCEPT ![k] = e] = DOMAIN s
         /\ [s EXCEPT ![k] = e][k] = e
         /\ \A i \in DOMAIN s : i # k => [s EXCEPT ![k] = e][i] = s[i]
  OBVIOUS

\* The forms of a request that has a session.
LEMMA HasSession ==
  ASSUME RequestsOK, NEW c \in Clients, req[c].at \in {"check", "revoke", "extend", "register"}
  PROVE  req[c].dev \in Devices /\ Owns(req[c].dev, req[c].sess)
<1>1. req[c] # Idle
  BY DEF Idle
<1> QED BY <1>1 DEF RequestsOK, RequestOK, StepOK, Given, Holding, Proving, Issuing, Authenticated

LEMMA RowsStep ==
  ASSUME IInv, AccountOK', [Next]_vars
  PROVE  Grows /\ RowsOK'
<1> DEFINE Same == UNCHANGED <<device, session, jar>>
<1>0. /\ now \in Nat /\ fresh.token \in Nat /\ fresh.set \in Nat /\ fresh.secret \in Nat /\ flow \in Nat
      /\ fresh = [secret |-> fresh.secret, set |-> fresh.set, token |-> fresh.token]
  BY DEF IInv, AccountOK, UsersTypeOK, ProviderOK
<1>a. AccountOK /\ ProviderOK /\ RequestsOK /\ DevicesOK /\ SessionsOK /\ JarOK
  BY DEF IInv, RowsOK
<1>1. ASSUME NEW c \in Clients, UsersStep(c), UNCHANGED <<device, session, jar, flow>>
      PROVE  Grows /\ RowsOK'
  <2>1. now' = now /\ fresh.set <= fresh'.set /\ fresh.token <= fresh'.token
    BY <1>0, <1>1 DEF UsersStep, account, verify, secondFactor, ConsumeRecoveryCode, SetTOTPLastCounter,
                 recordTOTPFailure, clearTOTPFailures, totpEnroll, totpDisable, StartTOTPEnrollment,
                 StoreSecret, ConfirmTOTPEnrollment, Enable, DisableTOTP
  <2> QED BY <1>0, <1>1, <2>1, RowsRest
<1>2. ASSUME NEW c \in Clients,
             \/ login(c) \/ authenticate(c) \/ refresh(c) \/ callback(c) \/ validateSession(c)
             \/ checkDevice(c) \/ ReadRefresh(c) \/ RefreshCheck(c) \/ IssueSession(c) \/ consume(c)
             \/ Exchange(c) \/ ResolveOIDCUser(c) \/ LinkOIDCIdentity(c) \/ Fail(c)
      PROVE  Grows /\ RowsOK'
  <2>1. UNCHANGED <<now, fresh, device, session, jar, flow>>
    BY <1>2 DEF account, login, authenticate, refresh, callback, validateSession, checkDevice,
                ReadRefresh, RefreshCheck, IssueSession, consume, Exchange, ResolveOIDCUser,
                LinkOIDCIdentity, Fail
  <2> QED BY <1>0, <2>1, RowsRest
<1>3. CASE start \/ Tick \/ RotateKey \/ Restart \/ UNCHANGED vars
  <2>1. /\ UNCHANGED <<fresh, device, session, jar>>
        /\ now' \in {now, now + 1} /\ flow' \in {flow, flow + 1}
    BY <1>3 DEF account, start, Tick, RotateKey, Restart, vars
  <2> QED BY <1>0, <2>1, RowsRest
<1>4. ASSUME NEW c \in Clients, RefreshSession(c)
      PROVE  Grows /\ RowsOK'
  <2> DEFINE k == req[c].sess
  <2>1. k \in DOMAIN session
    BY <1>4, <1>a, HasSession DEF RefreshSession, Owns
  <2>2. /\ session' = [session EXCEPT ![k] = Amend(@, [token |-> fresh.token + 1, expires |-> now + SessionTTL])]
        /\ UNCHANGED <<now, device, jar, flow>>
        /\ fresh' = [fresh EXCEPT !.token = @ + 1]
    BY <1>4 DEF RefreshSession
  <2>3. fresh'.token = fresh.token + 1 /\ fresh'.set = fresh.set
    BY <1>0, <2>2
  <2> HIDE DEF k
  <2> DEFINE e == [dev |-> session[k].dev, token |-> fresh.token + 1, expires |-> now + SessionTTL,
                   revoked |-> session[k].revoked, flow |-> session[k].flow]
  <2>4. session[k] = [dev |-> session[k].dev, token |-> session[k].token, expires |-> session[k].expires,
                      revoked |-> session[k].revoked, flow |-> session[k].flow]
    BY <1>a, <2>1, SessionColumns DEF SessionRow
  <2>5. e \in SessionRow
    BY <1>0, <1>a, <2>1, SessionColumns DEF SessionRow
  <2>6. session' = [session EXCEPT ![k] = e]
    <3>1. Amend(session[k], [token |-> fresh.token + 1, expires |-> now + SessionTTL]) = e
      BY <2>4 DEF Amend
    <3> QED BY <2>1, <2>2, <3>1
  <2>7. e.dev = session[k].dev /\ e.token = fresh.token + 1 /\ e.expires = now + SessionTTL
        /\ e.flow = session[k].flow
    OBVIOUS
  <2> HIDE DEF e
  <2>8. session \in Seq(SessionRow) /\ session[k].flow <= flow
    BY <1>a, <2>1 DEF SessionsOK
  <2>9. /\ session' \in Seq(SessionRow) /\ DOMAIN session' = DOMAIN session /\ session'[k] = e
        /\ \A i \in DOMAIN session : i # k => session'[i] = session[i]
    BY <2>1, <2>5, <2>6, <2>8, ElementWritten
  <2> QED BY <1>0, <2>2, <2>3, <2>7, <2>8, <2>9, SessionsWritten, SMTT(40)
<1>5. ASSUME NEW c \in Clients, RevokeSession(c)
      PROVE  Grows /\ RowsOK'
  <2> DEFINE k == req[c].sess
  <2>1. k \in DOMAIN session
    BY <1>5, <1>a, HasSession DEF RevokeSession, Owns
  <2>2. /\ session' = [session EXCEPT ![k].revoked = TRUE]
        /\ UNCHANGED <<now, fresh, device, jar, flow>>
    BY <1>5 DEF RevokeSession, account
  <2> HIDE DEF k
  <2> DEFINE e == [session[k] EXCEPT !.revoked = TRUE]
  <2>3. /\ e \in SessionRow /\ e.dev = session[k].dev /\ e.token = session[k].token
        /\ e.expires = session[k].expires /\ e.flow = session[k].flow
    BY <1>a, <2>1, SessionColumns DEF SessionRow
  <2>4. session' = [session EXCEPT ![k] = e]
    BY <2>1, <2>2
  <2> HIDE DEF e
  <2>5. session \in Seq(SessionRow)
    BY <1>a DEF SessionsOK
  <2>6. /\ session' \in Seq(SessionRow) /\ DOMAIN session' = DOMAIN session /\ session'[k] = e
        /\ \A i \in DOMAIN session : i # k => session'[i] = session[i]
    BY <2>1, <2>3, <2>4, <2>5, ElementWritten
  <2> QED BY <1>0, <2>2, <2>3, <2>6, SessionsWritten
<1>6. ASSUME NEW c \in Clients, InsertSession(c)
      PROVE  Grows /\ RowsOK'
  <2>1. req[c].dev \in Devices /\ req[c].flow \in 0..flow
    <3>1. req[c] # Idle /\ req[c].at = "insert"
      BY <1>6, Serving DEF InsertSession
    <3>2. req[c].op \in {"login", "oidc"} /\ Given(req[c])
      BY <1>a, <3>1 DEF RequestsOK, RequestOK, StepOK, Proving, Authenticated
    <3> QED BY <1>0, <3>2 DEF Given
  <2> DEFINE e == [dev |-> req[c].dev, token |-> fresh.token + 1, expires |-> now + SessionTTL,
                   revoked |-> FALSE, flow |-> req[c].flow]
  <2>2. /\ session' = Append(session, e)
        /\ UNCHANGED <<now, device, jar, flow>>
        /\ fresh' = [fresh EXCEPT !.token = @ + 1]
    BY <1>6 DEF InsertSession
  <2>3. fresh'.token = fresh.token + 1 /\ fresh'.set = fresh.set
    BY <1>0, <2>2
  <2>4. /\ e \in SessionRow /\ e.token = fresh.token + 1 /\ e.expires = now + SessionTTL
        /\ e.flow <= flow
    BY <1>0, <2>1 DEF SessionRow
  <2> HIDE DEF e
  <2>5. session \in Seq(SessionRow)
    BY <1>a DEF SessionsOK
  <2>6. /\ session' \in Seq(SessionRow) /\ DOMAIN session \subseteq DOMAIN session'
        /\ \A i \in DOMAIN session : session'[i] = session[i]
        /\ \A i \in DOMAIN session' : i \in DOMAIN session \/ session'[i] = e
    BY <2>2, <2>4, <2>5, Appended
  <2> QED BY <1>0, <2>2, <2>3, <2>4, <2>6, SessionsWritten, SMTT(40)
<1>7. ASSUME NEW c \in Clients, MarkWipeDelivered(c)
      PROVE  Grows /\ RowsOK'
  <2>1. req[c].dev \in Devices /\ Wiped(req[c].dev)
    BY <1>7, <1>a, Serving DEF MarkWipeDelivered, RequestsOK, RequestOK, Given, Holding
  <2>2. PICK d \in Devices : d = req[c].dev
    BY <2>1
  <2> DEFINE row == [device[d] EXCEPT !.delivered = TRUE]
  <2>3. device[d] \in DeviceRow /\ device[d].wiped
    BY <1>a, <2>1, <2>2 DEF DevicesOK, Wiped, Registered
  <2>4. row \in DeviceRow /\ row.wiped = device[d].wiped /\ row.revoked = device[d].revoked
    BY <2>3 DEF DeviceRow
  <2>5. device' = [device EXCEPT ![d] = row] /\ UNCHANGED <<now, fresh, session, jar, flow>>
    BY <1>7, <2>2 DEF MarkWipeDelivered, account
  <2> HIDE DEF row
  <2> QED BY <2>3, <2>4, <2>5, DeviceWritten DEF Wiped, Revoked
<1>8. ASSUME NEW c \in Clients, RegisterDevice(c)
      PROVE  Grows /\ RowsOK'
  <2>1. req[c].dev \in Devices
    BY <1>8, <1>a, HasSession DEF RegisterDevice
  <2>2. PICK d \in Devices : d = req[c].dev
    BY <2>1
  <2>3. UNCHANGED <<now, fresh, session, jar, flow>>
    BY <1>8 DEF RegisterDevice, account
  <2>4. CASE Registered(d)
    BY <1>8, <1>0, <2>2, <2>3, <2>4, RowsRest DEF RegisterDevice
  <2>5. CASE ~Registered(d)
    <3>1. NewDevice \in DeviceRow /\ ~NewDevice.delivered
      BY DEF NewDevice, DeviceRow
    <3>2. device' = [device EXCEPT ![d] = NewDevice]
      BY <1>8, <2>2, <2>5 DEF RegisterDevice
    <3> QED BY <2>3, <2>5, <3>1, <3>2, DeviceWritten DEF Wiped, Revoked
  <2> QED BY <2>4, <2>5
<1>9. ASSUME NEW d \in Devices, WipeDevice(d) \/ RevokeDevice(d)
      PROVE  Grows /\ RowsOK'
  <2>1. PICK column \in {"wiped", "revoked"} :
          device' = [device EXCEPT ![d] = [device[d] EXCEPT ![column] = TRUE]]
    BY <1>9 DEF WipeDevice, RevokeDevice, stamp
  <2> DEFINE row == [device[d] EXCEPT ![column] = TRUE]
  <2>2. device[d] \in DeviceRow /\ (device[d].delivered => device[d].wiped)
    BY <1>9, <1>a DEF WipeDevice, RevokeDevice, DevicesOK, Registered
  <2>3. /\ row \in DeviceRow /\ (device[d].wiped => row.wiped) /\ (device[d].revoked => row.revoked)
        /\ (row.delivered => row.wiped)
    <3>1. CASE column = "wiped"
      BY <2>2, <3>1 DEF DeviceRow
    <3>2. CASE column = "revoked"
      BY <2>2, <3>2 DEF DeviceRow
    <3> QED BY <3>1, <3>2
  <2>4. UNCHANGED <<now, fresh, session, jar, flow>>
    BY <1>9 DEF WipeDevice, RevokeDevice, account
  <2> HIDE DEF row
  <2>5. device' = [device EXCEPT ![d] = row]
    BY <2>1 DEF row
  <2> QED BY <2>3, <2>4, <2>5, DeviceWritten DEF Wiped, Revoked
<1>10. ASSUME NEW c \in Clients, answer(c)
       PROVE  Grows /\ RowsOK'
  <2>1. UNCHANGED <<now, fresh, device, session, flow>>
    BY <1>10 DEF answer, account
  <2>2. Grows
    BY <1>0, <2>1 DEF Grows, Wiped, Revoked, Registered
  <2>3. /\ req[c].dev \in Devices
        /\ req[c].op \in {"login", "oidc", "refresh"} =>
             Owns(req[c].dev, req[c].sess) /\ Tracks(req[c].dev, req[c].token)
    BY <1>10, <1>a, Serving DEF answer, RequestsOK, RequestOK, Given, Holding
  <2>4. \A d \in Devices : jar'[d] # None => \/ jar'[d] = jar[d]
                                             \/ /\ req[c].op \in {"login", "oidc", "refresh"} /\ d = req[c].dev
                                                /\ jar'[d] = [sess |-> req[c].sess, token |-> req[c].token]
    BY <1>10, <1>a, <2>3 DEF answer, JarOK
  <2>5. DOMAIN jar' = Devices
    BY <1>10, <1>a DEF answer, JarOK
  <2>6. \A d \in Devices : jar'[d] # None =>
          /\ jar'[d].sess \in DOMAIN session /\ session[jar'[d].sess].dev = d
          /\ jar'[d].token \in 1..fresh.token
          /\ \A i \in DOMAIN session : session[i].token = jar'[d].token => session[i].dev = d
    BY <1>a, <2>3, <2>4 DEF JarOK, Owns, Tracks
  <2>7. JarOK'
    BY <2>1, <2>5, <2>6 DEF JarOK, Owns, Tracks
  <2> QED BY <1>a, <2>1, <2>2, <2>7 DEF RowsOK, DevicesOK, Registered, SessionsOK
<1> QED
  BY <1>1, <1>2, <1>3, <1>4, <1>5, <1>6, <1>7, <1>8, <1>9, <1>10 DEF Next, SessionsStep
--------------------------------------------------------------------------------
(* Requests. *)

\* What a request was given stays true while it and others take their steps.
LEMMA GivenGrows ==
  ASSUME IInv, AccountOK', ProviderOK', Grows, NEW c \in Clients, req[c] # Idle,
         DOMAIN req[c] \subseteq DOMAIN req'[c],
         \A f \in DOMAIN req[c] : \/ req'[c][f] = req[c][f]
                                  \/ f \in {"at", "u", "t", "again"}
                                  \/ f = "sess" /\ req[c].op # "refresh"
                                  \/ f = "token" /\ req[c].op \notin Authenticated
  PROVE  /\ req'[c].op = req[c].op /\ req'[c].dev = req[c].dev
         /\ req'[c].out = req[c].out /\ req'[c].wipedOut = req[c].wipedOut
         /\ Given(req[c])' /\ Decided(req[c])'
<1>0. /\ now \in Nat /\ fresh.token \in Nat /\ fresh.set \in Nat /\ flow \in Nat
      /\ now' \in Nat /\ fresh'.token \in Nat /\ fresh'.set \in Nat /\ flow' \in Nat
  BY DEF IInv, AccountOK, UsersTypeOK, ProviderOK
<1>1. StepOK(req[c]) /\ Given(req[c]) /\ Decided(req[c])
  BY DEF IInv, RequestsOK, RequestOK
<1>2. /\ req'[c].op = req[c].op /\ req'[c].dev = req[c].dev
      /\ req'[c].out = req[c].out /\ req'[c].wipedOut = req[c].wipedOut
  BY <1>1 DEF Given
<1>3. \A d, i : i \in DOMAIN session /\ session[i].dev = d => i \in DOMAIN session' /\ session'[i].dev = d
  BY DEF Grows
<1>4. \A d, t : /\ t \in 1..fresh.token
                /\ \A i \in DOMAIN session : session[i].token = t => session[i].dev = d
                => /\ t \in 1..fresh'.token
                   /\ \A i \in DOMAIN session' : session'[i].token = t => session'[i].dev = d
  BY <1>0 DEF Grows
<1>5. \A k : Presented(k) => /\ k.kind = "totp" => k.step \in 1..now' + 1
                             /\ k.kind = "recovery" => k.set \in 1..fresh'.set /\ k.code \in RecoveryCodes
  BY <1>0 DEF Presented, Grows
<1>6. Given(req[c])'
  <2>1. {"op", "at", "dev", "out", "wipedOut"} \subseteq DOMAIN req'[c] /\ req'[c].dev \in Devices
    BY <1>1, <1>2 DEF Given
  <2>2. req[c].op = "login" =>
          {"creds", "flow"} \subseteq DOMAIN req'[c] /\ req'[c].flow = 0 /\ Presented(req[c].creds)'
    BY <1>1, <1>5 DEF Given, Presented
  <2>3. req[c].op = "oidc" => /\ {"flow", "subject", "verified"} \subseteq DOMAIN req'[c]
                              /\ req'[c].flow \in 1..flow' /\ req'[c].subject \in Subjects
    BY <1>0, <1>1 DEF Given, Grows
  <2>4. req[c].op = "refresh" => "sess" \in DOMAIN req'[c] /\ Owns(req[c].dev, req[c].sess)'
    BY <1>1, <1>2, <1>3 DEF Given, Owns
  <2>5. req[c].op \in Authenticated => /\ {"creds", "token", "again"} \subseteq DOMAIN req'[c]
                                       /\ Presented(req[c].creds)' /\ Tracks(req[c].dev, req[c].token)'
    <3> SUFFICES ASSUME req[c].op \in Authenticated
                 PROVE  /\ {"creds", "token", "again"} \subseteq DOMAIN req'[c]
                        /\ Presented(req[c].creds)' /\ Tracks(req[c].dev, req[c].token)'
      OBVIOUS
    <3>1. /\ {"creds", "token", "again"} \subseteq DOMAIN req[c]
          /\ Presented(req[c].creds) /\ Tracks(req[c].dev, req[c].token)
      BY <1>1 DEF Given
    <3>2. req'[c].creds = req[c].creds /\ req'[c].token = req[c].token
      BY <3>1
    <3>3. Presented(req[c].creds)'
      BY <1>5, <3>1, <3>2 DEF Presented
    <3>4. Tracks(req[c].dev, req[c].token)'
      BY <1>2, <1>4, <3>1, <3>2 DEF Tracks
    <3> QED BY <3>1, <3>3, <3>4
  <2>6. req[c].op = "confirm" => req'[c].creds.kind = "totp"
    BY <1>1 DEF Given, Authenticated
  <2> QED BY <1>2, <2>1, <2>2, <2>3, <2>4, <2>5, <2>6 DEF Given
<1>7. Decided(req[c])'
  <2>1. \A d \in Devices : (Wiped(d) => Wiped(d)') /\ (Revoked(d) => Revoked(d)')
    BY DEF Grows
  <2>2. /\ req[c].wipedOut \subseteq req[c].out
        /\ \A d \in req[c].out : d \in Devices /\ (Revoked(d) \/ Wiped(d))
        /\ \A d \in req[c].wipedOut : Wiped(d)
    BY <1>1 DEF Decided
  <2>3. /\ \A d \in req'[c].out : d \in Devices /\ (Revoked(d)' \/ Wiped(d)')
        /\ \A d \in req'[c].wipedOut : Wiped(d)'
    BY <1>2, <2>1, <2>2
  <2> QED BY <1>2, <2>2, <2>3 DEF Decided
<1> QED BY <1>2, <1>6, <1>7

\* The request of another client.
LEMMA RequestRests ==
  ASSUME IInv, AccountOK', ProviderOK', Grows, NEW c \in Clients, req'[c] = req[c]
  PROVE  RequestOK(c)'
<1> SUFFICES ASSUME req[c] # Idle PROVE RequestOK(c)'
  BY DEF RequestOK
<1>0. now \in Nat /\ fresh.token \in Nat /\ now' \in Nat /\ fresh'.token \in Nat
  BY DEF IInv, AccountOK, UsersTypeOK, ProviderOK
<1>1. StepOK(req[c]) /\ Given(req[c]) /\ Holding(req[c]) /\ Refused(req[c])
  BY DEF IInv, RequestsOK, RequestOK
<1>2. Given(req[c])' /\ Decided(req[c])'
  BY GivenGrows
<1>3. Holding(req[c])'
  <2>1. Owns(req[c].dev, req[c].sess) => Owns(req[c].dev, req[c].sess)'
    BY DEF Owns, Grows
  <2>2. req[c].t \in 1..now => req[c].t \in 1..now'
    BY <1>0 DEF Grows
  <2>3. Wiped(req[c].dev) => Wiped(req[c].dev)'
    BY <1>1 DEF Grows, Wiped, Registered, Given
  <2>4. Tracks(req[c].dev, req[c].token) => Tracks(req[c].dev, req[c].token)'
    BY <1>0 DEF Tracks, Grows
  <2> QED BY <1>1, <2>1, <2>2, <2>3, <2>4 DEF Holding
<1> QED BY <1>1, <1>2, <1>3 DEF RequestOK, StepOK, Refused

\* A request that moves on to the next step.
LEMMA GotoOK ==
  ASSUME IInv, AccountOK', ProviderOK', Grows, NEW c \in Clients, req[c] # Idle, NEW step, Goto(c, step)
  PROVE  /\ DOMAIN req' = Clients
         /\ \A d \in Clients : d # c => req'[d] = req[d]
         /\ DOMAIN req'[c] = DOMAIN req[c]
         /\ \A f \in DOMAIN req[c] : f # "at" => req'[c][f] = req[c][f]
         /\ req'[c].at = step /\ req'[c].op = req[c].op /\ req'[c].dev = req[c].dev
         /\ req'[c].out = req[c].out /\ req'[c].wipedOut = req[c].wipedOut
         /\ Given(req[c])' /\ Decided(req[c])'
<1>1. DOMAIN req = Clients /\ {"op", "at", "dev", "out", "wipedOut"} \subseteq DOMAIN req[c]
  BY DEF IInv, RequestsOK, RequestOK, Given
<1>2. /\ DOMAIN req' = Clients
      /\ \A d \in Clients : d # c => req'[d] = req[d]
      /\ DOMAIN req'[c] = DOMAIN req[c] /\ req'[c].at = step
      /\ \A f \in DOMAIN req[c] : f # "at" => req'[c][f] = req[c][f]
  BY <1>1, GotoKeeps
<1> QED BY <1>2, GivenGrows

\* A request that a step leaves at `step`, with what the step added to it.
LEMMA AmendOK ==
  ASSUME IInv, AccountOK', ProviderOK', Grows, NEW c \in Clients, req[c] # Idle, NEW more,
         req' = [req EXCEPT ![c] = Amend(@, more)],
         \/ DOMAIN more \subseteq {"at", "u", "t", "again"}
         \/ DOMAIN more \subseteq {"at", "sess"} /\ req[c].op # "refresh"
         \/ DOMAIN more \subseteq {"at", "token"} /\ req[c].op \notin Authenticated
         \/ DOMAIN more \subseteq {"at", "sess", "token"} /\ req[c].op \in {"login", "oidc"}
  PROVE  /\ DOMAIN req' = Clients
         /\ \A d \in Clients : d # c => req'[d] = req[d]
         /\ DOMAIN req'[c] = DOMAIN req[c] \cup DOMAIN more
         /\ \A f \in DOMAIN more : req'[c][f] = more[f]
         /\ \A f \in DOMAIN req[c] : f \notin DOMAIN more => req'[c][f] = req[c][f]
         /\ req'[c].op = req[c].op /\ req'[c].dev = req[c].dev
         /\ req'[c].out = req[c].out /\ req'[c].wipedOut = req[c].wipedOut
         /\ Given(req[c])' /\ Decided(req[c])'
<1>1. DOMAIN req = Clients
  BY DEF IInv, RequestsOK
<1>2. /\ DOMAIN req' = Clients
      /\ \A d \in Clients : d # c => req'[d] = req[d]
      /\ DOMAIN req'[c] = DOMAIN req[c] \cup DOMAIN more
      /\ \A f \in DOMAIN more : req'[c][f] = more[f]
      /\ \A f \in DOMAIN req[c] : f \notin DOMAIN more => req'[c][f] = req[c][f]
  BY <1>1, AmendKeeps, ZenonT(60)
<1>3. \A f \in DOMAIN req[c] : \/ req'[c][f] = req[c][f]
                               \/ f \in {"at", "u", "t", "again"}
                               \/ f = "sess" /\ req[c].op # "refresh"
                               \/ f = "token" /\ req[c].op \notin Authenticated
  BY <1>2 DEF Authenticated
<1> QED BY <1>2, <1>3, GivenGrows

\* The request of the client that takes the step, and the others.
Acted(c) == RequestOK(c)' /\ DOMAIN req' = Clients /\ \A d \in Clients : d # c => req'[d] = req[d]

LEMMA EndOK ==
  ASSUME IInv, NEW c \in Clients, End(c)
  PROVE  Acted(c)
  BY EndKeeps DEF Acted, RequestOK, IInv, RequestsOK

LEMMA UsersStepActs ==
  ASSUME IInv, AccountOK', ProviderOK', Grows, NEW c \in Clients, UsersStep(c),
         UNCHANGED <<device, session, jar, flow, spent, provider>>
  PROVE  Acted(c)
<1> DEFINE r == req[c]
<1>a. /\ r # Idle => StepOK(r) /\ Given(r) /\ Decided(r) /\ Holding(r) /\ Refused(r)
  BY DEF IInv, RequestsOK, RequestOK
<1>1. CASE End(c)
  BY <1>1, EndOK
<1>2. ASSUME NEW step, Goto(c, step), r # Idle,
             \/ r.at \in {"verify", "clear"} /\ step = Proved(r.op)
             \/ r.at = "factor" /\ step \in {"clear", "failed"}
             \/ r.at = "caller" /\ r.op \in {"enroll", "disable"} /\ step = "verify"
             \/ r.at = "start" /\ step = "enroll"
             \/ r.at = "confirm" /\ step = "enable"
             \/ r.at \in {"enroll", "enable", "disable"} /\ step = "answer"
      PROVE  Acted(c)
  <2>1. /\ DOMAIN req' = Clients
        /\ \A d \in Clients : d # c => req'[d] = req[d]
        /\ DOMAIN req'[c] = DOMAIN r
        /\ \A f \in DOMAIN r : f # "at" => req'[c][f] = r[f]
        /\ req'[c].at = step /\ req'[c].op = r.op /\ req'[c].dev = r.dev
        /\ req'[c].out = r.out /\ req'[c].wipedOut = r.wipedOut
        /\ Given(req[c])' /\ Decided(req[c])'
    BY <1>2, GotoOK
  <2>2. /\ r.at \in {"verify", "clear"} => r.op \in {"login", "enroll", "disable"}
        /\ r.at = "factor" => r.op \in {"login", "enroll", "disable"}
        /\ r.at \in {"start", "enroll"} => r.op = "enroll"
        /\ r.at = "disable" => r.op = "disable"
        /\ r.at \in {"confirm", "enable"} => r.op = "confirm"
    BY <1>a, <1>2 DEF StepOK, Authenticated, Issuing, Proving
  <2>3. StepOK(req[c])'
    BY <1>2, <2>1, <2>2 DEF StepOK, Proved, Authenticated, Issuing, Proving
  <2>4. Holding(req[c])'
    <3>1. step \notin {"factor", "check", "revoke", "register", "deliver"}
      BY <1>2, <2>2 DEF Proved
    <3>2. step = "answer" => r.op \notin {"login", "oidc", "refresh"}
      BY <1>2, <2>2 DEF Proved
    <3>3. step = "failed" => {"u", "t"} \subseteq DOMAIN r /\ r.t \in 1..now
      BY <1>2, <2>2, <1>a DEF Proved, Holding
    <3>4. now \in Nat /\ now' \in Nat /\ now <= now'
      BY DEF IInv, AccountOK, UsersTypeOK, Grows
    <3> QED BY <2>1, <3>1, <3>2, <3>3, <3>4 DEF Holding
  <2>5. Refused(req[c])'
    BY <1>2, <2>1, <2>2, <1>a DEF Refused, Proved, Authenticated
  <2> QED BY <2>1, <2>3, <2>4, <2>5 DEF Acted, RequestOK
<1>3. CASE /\ r.at = "verify"
           /\ req' = [req EXCEPT ![c] = Amend(@, [u |-> user, t |-> now, at |-> "factor"])]
  <2>0. r # Idle /\ now \in Nat \ {0} /\ now' \in Nat /\ now <= now'
    BY <1>3, Serving DEF IInv, AccountOK, UsersTypeOK, Grows
  <2>1. /\ DOMAIN req' = Clients
        /\ \A d \in Clients : d # c => req'[d] = req[d]
        /\ DOMAIN req'[c] = DOMAIN r \cup {"u", "t", "at"}
        /\ req'[c].at = "factor" /\ req'[c].t = now /\ req'[c].op = r.op /\ req'[c].dev = r.dev
        /\ req'[c].out = r.out /\ req'[c].wipedOut = r.wipedOut
        /\ Given(req[c])' /\ Decided(req[c])'
    <3> DEFINE more == [u |-> user, t |-> now, at |-> "factor"]
    <3>1. DOMAIN more = {"u", "t", "at"} /\ more.at = "factor" /\ more.t = now
      OBVIOUS
    <3>2. req' = [req EXCEPT ![c] = Amend(@, more)]
      BY <1>3
    <3> HIDE DEF more
    <3>3. DOMAIN more \subseteq {"at", "u", "t", "again"}
      BY <3>1
    <3>4. /\ DOMAIN req' = Clients
          /\ \A d \in Clients : d # c => req'[d] = req[d]
          /\ DOMAIN req'[c] = DOMAIN r \cup DOMAIN more
          /\ \A f \in DOMAIN more : req'[c][f] = more[f]
          /\ req'[c].op = r.op /\ req'[c].dev = r.dev
          /\ req'[c].out = r.out /\ req'[c].wipedOut = r.wipedOut
          /\ Given(req[c])' /\ Decided(req[c])'
      BY <2>0, <3>2, <3>3, AmendOK, ZenonT(60)
    <3> QED BY <3>1, <3>4
  <2>2. r.op \in {"login", "enroll", "disable"}
    BY <1>a, <1>3, <2>0 DEF StepOK, Authenticated, Issuing, Proving
  <2>3. StepOK(req[c])'
    BY <2>1, <2>2 DEF StepOK, Authenticated, Issuing, Proving
  <2>4. Holding(req[c])'
    BY <2>0, <2>1 DEF Holding
  <2>5. Refused(req[c])'
    BY <1>3, <2>0, <2>1, <2>2, <1>a DEF Refused, Authenticated
  <2> QED BY <2>1, <2>3, <2>4, <2>5 DEF Acted, RequestOK
<1>4. CASE verify(c)
  BY <1>1, <1>2, <1>3, <1>4, Serving DEF verify
<1>5. CASE secondFactor(c)
  BY <1>1, <1>2, <1>5, Serving DEF secondFactor, ConsumeRecoveryCode, SetTOTPLastCounter
<1>6. CASE recordTOTPFailure(c) \/ clearTOTPFailures(c)
  BY <1>1, <1>2, <1>6, Serving DEF recordTOTPFailure, clearTOTPFailures
<1>7. CASE totpEnroll(c) \/ totpDisable(c)
  BY <1>1, <1>2, <1>7, Serving DEF totpEnroll, totpDisable
<1>8. CASE StartTOTPEnrollment(c) \/ StoreSecret(c) \/ DisableTOTP(c)
  BY <1>1, <1>2, <1>8, Serving DEF StartTOTPEnrollment, StoreSecret, DisableTOTP
<1>9. CASE ConfirmTOTPEnrollment(c) \/ Enable(c)
  BY <1>1, <1>2, <1>9, Serving DEF ConfirmTOTPEnrollment, Enable
<1> QED BY <1>4, <1>5, <1>6, <1>7, <1>8, <1>9 DEF UsersStep

LEMMA RequestActs ==
  ASSUME IInv, AccountOK', ProviderOK', Grows, NEW c \in Clients, UNCHANGED <<device, session, now, fresh, flow>>,
         login(c) \/ authenticate(c) \/ refresh(c) \/ callback(c)
  PROVE  Acted(c)
<1>0. DOMAIN req = Clients /\ JarOK /\ flow \in Nat
  BY DEF IInv, RequestsOK, RowsOK, ProviderOK
<1>1. \A d \in Devices : (Wiped(d) <=> Wiped(d)') /\ (Revoked(d) <=> Revoked(d)')
  BY DEF Wiped, Revoked, Registered
<1>2. ASSUME NEW op, NEW d \in Devices, NEW step, NEW more, Request(c, op, d, step, more)
      PROVE  /\ DOMAIN req' = Clients
             /\ \A e \in Clients : e # c => req'[e] = req[e]
             /\ {"op", "at", "dev", "out", "wipedOut"} \cup DOMAIN more = DOMAIN req'[c]
             /\ req'[c].op = op /\ req'[c].at = step /\ req'[c].dev = d
             /\ \A f \in DOMAIN more \ {"op", "at", "dev", "out", "wipedOut"} : req'[c][f] = more[f]
             /\ Decided(req[c])'
  <2>1. /\ DOMAIN req' = Clients
        /\ \A e \in Clients : e # c => req'[e] = req[e]
        /\ {"op", "at", "dev", "out", "wipedOut"} \cup DOMAIN more = DOMAIN req'[c]
        /\ req'[c].op = op /\ req'[c].at = step /\ req'[c].dev = d
        /\ req'[c].out = {x \in Devices : Revoked(x) \/ Wiped(x)}
        /\ req'[c].wipedOut = {x \in Devices : Wiped(x)}
        /\ \A f \in DOMAIN more \ {"op", "at", "dev", "out", "wipedOut"} : req'[c][f] = more[f]
    BY <1>0, <1>2, RequestBegins
  <2>2. Decided(req[c])'
    BY <1>1, <2>1 DEF Decided
  <2> QED BY <2>1, <2>2
<1>3. \A creds \in Credentials :
        /\ creds.kind = "totp" => creds.step \in 1..now + 1
        /\ creds.kind = "recovery" => creds.set \in 1..fresh.set /\ creds.code \in RecoveryCodes
  <2> SUFFICES ASSUME NEW creds \in Credentials
               PROVE  /\ creds.kind = "totp" => creds.step \in 1..now + 1
                      /\ creds.kind = "recovery" =>
                           creds.set \in 1..fresh.set /\ creds.code \in RecoveryCodes
    OBVIOUS
  <2>1. now \in Nat
    BY DEF IInv, AccountOK, UsersTypeOK
  <2>2. CASE creds \in [password : BOOLEAN, kind : {"none"}]
    BY <2>2
  <2>3. CASE creds \in [password : {TRUE}, kind : {"totp"}, secret : 1..fresh.secret,
                        step : {n \in now - 1 .. now + 1 : n > 0}]
    BY <2>1, <2>3
  <2>4. CASE creds \in [password : {TRUE}, kind : {"recovery"}, set : 1..fresh.set, code : RecoveryCodes]
    BY <2>4
  <2> QED BY <2>2, <2>3, <2>4 DEF Credentials
<1>4. CASE login(c)
  <2>1. PICK d \in deviceID, creds \in Credentials :
          Request(c, "login", d, "verify", [creds |-> creds, flow |-> 0])
    BY <1>4 DEF login
  <2>2. d \in Devices
    BY DEF deviceID
  <2>3. /\ {"op", "at", "dev", "out", "wipedOut", "creds", "flow"} \subseteq DOMAIN req'[c]
        /\ req'[c].op = "login" /\ req'[c].at = "verify" /\ req'[c].dev = d
        /\ req'[c].creds = creds /\ req'[c].flow = 0 /\ Decided(req[c])'
    <3> DEFINE more == [creds |-> creds, flow |-> 0]
    <3>1. DOMAIN more = {"creds", "flow"} /\ more.creds = creds /\ more.flow = 0
      OBVIOUS
    <3>2. Request(c, "login", d, "verify", more)
      BY <2>1
    <3> HIDE DEF more
    <3>3. /\ {"op", "at", "dev", "out", "wipedOut"} \cup DOMAIN more = DOMAIN req'[c]
          /\ req'[c].op = "login" /\ req'[c].at = "verify" /\ req'[c].dev = d
          /\ \A f \in DOMAIN more \ {"op", "at", "dev", "out", "wipedOut"} : req'[c][f] = more[f]
          /\ Decided(req[c])'
      BY <1>2, <3>2, <2>2, ZenonT(60)
    <3> QED BY <3>1, <3>3
  <2>4. Given(req[c])'
    BY <1>3, <2>2, <2>3 DEF Given, Presented, Authenticated
  <2>5. StepOK(req[c])' /\ Holding(req[c])' /\ Refused(req[c])'
    BY <2>3 DEF StepOK, Holding, Refused, Proving, Authenticated
  <2> QED BY <1>2, <2>1, <2>2, <2>3, <2>4, <2>5 DEF Acted, RequestOK
<1>5. CASE authenticate(c)
  <2>1. PICK d \in Devices, op \in Authenticated, creds \in Credentials :
          /\ jar[d] # None
          /\ op = "confirm" => creds.kind = "totp"
          /\ Request(c, op, d, "session", [creds |-> creds, token |-> jar[d].token, again |-> FALSE])
    BY <1>5 DEF authenticate
  <2>2. /\ {"op", "at", "dev", "out", "wipedOut", "creds", "token", "again"} \subseteq DOMAIN req'[c]
        /\ req'[c].op = op /\ req'[c].at = "session" /\ req'[c].dev = d
        /\ req'[c].creds = creds /\ req'[c].token = jar[d].token /\ Decided(req[c])'
    <3> DEFINE more == [creds |-> creds, token |-> jar[d].token, again |-> FALSE]
    <3>1. DOMAIN more = {"creds", "token", "again"} /\ more.creds = creds /\ more.token = jar[d].token /\ more.again = FALSE
      OBVIOUS
    <3>2. Request(c, op, d, "session", more)
      BY <2>1
    <3> HIDE DEF more
    <3>3. /\ {"op", "at", "dev", "out", "wipedOut"} \cup DOMAIN more = DOMAIN req'[c]
          /\ req'[c].op = op /\ req'[c].at = "session" /\ req'[c].dev = d
          /\ \A f \in DOMAIN more \ {"op", "at", "dev", "out", "wipedOut"} : req'[c][f] = more[f]
          /\ Decided(req[c])'
      BY <1>2, <3>2
    <3> QED BY <3>1, <3>3
  <2>3. Tracks(req[c].dev, req[c].token)'
    BY <1>0, <2>1, <2>2 DEF JarOK, Tracks
  <2>4. Given(req[c])'
    BY <1>3, <2>1, <2>2, <2>3 DEF Given, Presented, Authenticated
  <2>5. StepOK(req[c])' /\ Holding(req[c])' /\ Refused(req[c])'
    BY <2>2 DEF StepOK, Holding, Refused, Proving, Authenticated
  <2> QED BY <1>2, <2>1, <2>2, <2>4, <2>5 DEF Acted, RequestOK
<1>6. CASE refresh(c)
  <2>1. PICK d \in Devices : /\ jar[d] # None
                             /\ Request(c, "refresh", d, "refresh", [sess |-> jar[d].sess])
    BY <1>6 DEF refresh
  <2>2. /\ {"op", "at", "dev", "out", "wipedOut", "sess"} \subseteq DOMAIN req'[c]
        /\ req'[c].op = "refresh" /\ req'[c].at = "refresh" /\ req'[c].dev = d
        /\ req'[c].sess = jar[d].sess /\ Decided(req[c])'
    <3> DEFINE more == [sess |-> jar[d].sess]
    <3>1. DOMAIN more = {"sess"} /\ more.sess = jar[d].sess
      OBVIOUS
    <3>2. Request(c, "refresh", d, "refresh", more)
      BY <2>1
    <3> HIDE DEF more
    <3>3. /\ {"op", "at", "dev", "out", "wipedOut"} \cup DOMAIN more = DOMAIN req'[c]
          /\ req'[c].op = "refresh" /\ req'[c].at = "refresh" /\ req'[c].dev = d
          /\ \A f \in DOMAIN more \ {"op", "at", "dev", "out", "wipedOut"} : req'[c][f] = more[f]
          /\ Decided(req[c])'
      BY <1>2, <3>2
    <3> QED BY <3>1, <3>3
  <2>3. Owns(req[c].dev, req[c].sess)'
    BY <1>0, <2>1, <2>2 DEF JarOK, Owns
  <2>4. Given(req[c])'
    BY <2>2, <2>3 DEF Given, Authenticated
  <2>5. StepOK(req[c])' /\ Holding(req[c])' /\ Refused(req[c])'
    BY <2>2 DEF StepOK, Holding, Refused, Proving, Authenticated
  <2> QED BY <1>2, <2>1, <2>2, <2>4, <2>5 DEF Acted, RequestOK
<1>7. CASE callback(c)
  <2>1. PICK d \in deviceID, f \in 1..flow, subject \in Subjects, verified \in BOOLEAN :
          Request(c, "oidc", d, "callback", [flow |-> f, subject |-> subject, verified |-> verified])
    BY <1>7 DEF callback
  <2>2. d \in Devices
    BY DEF deviceID
  <2>3. /\ {"op", "at", "dev", "out", "wipedOut", "flow", "subject", "verified"} \subseteq DOMAIN req'[c]
        /\ req'[c].op = "oidc" /\ req'[c].at = "callback" /\ req'[c].dev = d
        /\ req'[c].flow = f /\ req'[c].subject = subject /\ Decided(req[c])'
    <3> DEFINE more == [flow |-> f, subject |-> subject, verified |-> verified]
    <3>1. DOMAIN more = {"flow", "subject", "verified"} /\ more.flow = f /\ more.subject = subject /\ more.verified = verified
      OBVIOUS
    <3>2. Request(c, "oidc", d, "callback", more)
      BY <2>1
    <3> HIDE DEF more
    <3>3. /\ {"op", "at", "dev", "out", "wipedOut"} \cup DOMAIN more = DOMAIN req'[c]
          /\ req'[c].op = "oidc" /\ req'[c].at = "callback" /\ req'[c].dev = d
          /\ \A x \in DOMAIN more \ {"op", "at", "dev", "out", "wipedOut"} : req'[c][x] = more[x]
          /\ Decided(req[c])'
      BY <1>2, <3>2, <2>2, ZenonT(60)
    <3> QED BY <3>1, <3>3
  <2>4. Given(req[c])'
    BY <2>1, <2>2, <2>3 DEF Given, Authenticated
  <2>5. StepOK(req[c])' /\ Holding(req[c])' /\ Refused(req[c])'
    BY <2>3 DEF StepOK, Holding, Refused, Proving, Authenticated
  <2> QED BY <1>2, <2>1, <2>2, <2>3, <2>4, <2>5 DEF Acted, RequestOK
<1> QED BY <1>4, <1>5, <1>6, <1>7

\* The steps of a session that only move the request on.
LEMMA SessionGotoActs ==
  ASSUME IInv, AccountOK', ProviderOK', Grows, NEW c \in Clients,
         \/ ReadRefresh(c) \/ RefreshCheck(c) \/ RevokeSession(c) \/ IssueSession(c) \/ RegisterDevice(c)
         \/ consume(c) \/ Exchange(c) \/ ResolveOIDCUser(c) \/ LinkOIDCIdentity(c)
  PROVE  Acted(c)
<1> DEFINE r == req[c]
<1>a. /\ r # Idle => StepOK(r) /\ Given(r) /\ Decided(r) /\ Holding(r) /\ Refused(r)
  BY DEF IInv, RequestsOK, RequestOK
<1>1. CASE End(c)
  BY <1>1, EndOK
<1>2. ASSUME NEW step, Goto(c, step), r # Idle,
             \/ r.at = "refresh" /\ step = "recheck"
             \/ r.at = "recheck" /\ step = "deliver" /\ Wiped(r.dev)
             \/ r.at = "recheck" /\ step = "extend" /\ ~Wiped(r.dev) /\ ~Revoked(r.dev)
             \/ r.at = "revoke" /\ step = "answer"
             \/ r.at = "device" /\ step = "insert" /\ ~Wiped(r.dev) /\ ~Revoked(r.dev)
             \/ r.at = "register" /\ step = "answer"
             \/ r.at = "callback" /\ step = "exchange"
             \/ r.at = "exchange" /\ step = "resolve"
             \/ r.at = "resolve" /\ step \in {"link", "device"}
             \/ r.at = "link" /\ step = "device"
      PROVE  Acted(c)
  <2>1. /\ DOMAIN req' = Clients
        /\ \A d \in Clients : d # c => req'[d] = req[d]
        /\ DOMAIN req'[c] = DOMAIN r
        /\ \A f \in DOMAIN r : f # "at" => req'[c][f] = r[f]
        /\ req'[c].at = step /\ req'[c].op = r.op /\ req'[c].dev = r.dev
        /\ req'[c].out = r.out /\ req'[c].wipedOut = r.wipedOut
        /\ Given(req[c])' /\ Decided(req[c])'
    BY <1>2, GotoOK
  <2>2. /\ r.at \in {"refresh", "recheck"} => r.op = "refresh"
        /\ r.at = "revoke" => r.op = "logout"
        /\ r.at \in {"device", "register"} => r.op \in {"login", "oidc"}
        /\ r.at \in {"callback", "exchange", "resolve", "link"} => r.op = "oidc"
    BY <1>a, <1>2 DEF StepOK, Authenticated, Issuing, Proving
  <2>3. StepOK(req[c])'
    BY <1>2, <2>1, <2>2 DEF StepOK, Authenticated, Issuing, Proving
  <2>4. Holding(req[c])'
    <3>1. step \notin {"factor", "failed", "check", "revoke", "register"}
      BY <1>2
    <3>2. step = "deliver" => Wiped(r.dev)
      BY <1>2
    <3>3. step = "deliver" => Wiped(req[c].dev)'
      BY <1>a, <1>2, <2>1, <3>2 DEF Grows, Wiped, Registered, Given
    <3>4. step = "answer" /\ r.op \in {"login", "oidc", "refresh"} => r.at = "register"
      BY <1>2, <2>2
    <3>5. r.at = "register" => /\ {"sess", "token"} \subseteq DOMAIN r
                               /\ Owns(r.dev, r.sess) /\ Tracks(r.dev, r.token)
      BY <1>a, <1>2 DEF Holding
    <3>6. r.at = "register" => Owns(req[c].dev, req[c].sess)'
      BY <2>1, <3>5 DEF Owns, Grows
    <3>7. r.at = "register" => Tracks(req[c].dev, req[c].token)'
      <4>1. fresh.token \in Nat /\ fresh'.token \in Nat
        BY DEF IInv, AccountOK, UsersTypeOK
      <4> QED BY <2>1, <3>5, <4>1 DEF Tracks, Grows
    <3> QED BY <2>1, <3>1, <3>3, <3>4, <3>5, <3>6, <3>7 DEF Holding
  <2>5. Refused(req[c])'
    <3>1. ~Wiped(r.dev) /\ ~Revoked(r.dev) => r.dev \notin r.out
      BY <1>a, <1>2 DEF Decided
    <3> QED BY <1>2, <2>1, <2>2, <3>1, <1>a DEF Refused, Authenticated
  <2> QED BY <2>1, <2>3, <2>4, <2>5 DEF Acted, RequestOK
<1>3. CASE ReadRefresh(c) \/ RefreshCheck(c) \/ RevokeSession(c)
  BY <1>1, <1>2, <1>3, Serving DEF ReadRefresh, RefreshCheck, RevokeSession
<1>4. CASE IssueSession(c) \/ RegisterDevice(c)
  BY <1>1, <1>2, <1>4, Serving DEF IssueSession, RegisterDevice
<1>5. CASE consume(c) \/ Exchange(c) \/ ResolveOIDCUser(c) \/ LinkOIDCIdentity(c)
  BY <1>1, <1>2, <1>5, Serving DEF consume, Exchange, ResolveOIDCUser, LinkOIDCIdentity
<1> QED BY <1>3, <1>4, <1>5

LEMMA ValidateActs ==
  ASSUME IInv, AccountOK', ProviderOK', Grows, NEW c \in Clients, validateSession(c)
  PROVE  Acted(c)
<1> DEFINE r == req[c]
<1>0. r # Idle /\ r.at = "session" /\ UNCHANGED session
  BY Serving DEF validateSession
<1>a. StepOK(r) /\ Given(r) /\ Refused(r) /\ r.op \in Authenticated
  BY <1>0 DEF IInv, RequestsOK, RequestOK, StepOK, Issuing, Proving
<1>1. CASE End(c)
  BY <1>1, EndOK
<1>2. CASE \E i \in SessionOf(r.token) :
             req' = [req EXCEPT ![c] = Amend(@, [sess |-> i, at |-> "check"])]
  <2>1. PICK i \in SessionOf(r.token) : req' = [req EXCEPT ![c] = Amend(@, [sess |-> i, at |-> "check"])]
    BY <1>2
  <2> DEFINE more == [sess |-> i, at |-> "check"]
  <2>2. DOMAIN more = {"sess", "at"} /\ more.sess = i /\ more.at = "check"
    OBVIOUS
  <2>3. req' = [req EXCEPT ![c] = Amend(@, more)]
    BY <2>1
  <2> HIDE DEF more
  <2>4. DOMAIN more \subseteq {"at", "sess"} /\ r.op # "refresh"
    BY <1>a, <2>2 DEF Authenticated
  <2>5. /\ DOMAIN req' = Clients
        /\ \A d \in Clients : d # c => req'[d] = req[d]
        /\ DOMAIN req'[c] = DOMAIN r \cup DOMAIN more
        /\ \A f \in DOMAIN more : req'[c][f] = more[f]
        /\ req'[c].op = r.op /\ req'[c].dev = r.dev
        /\ Given(req[c])' /\ Decided(req[c])'
    BY <1>0, <2>3, <2>4, AmendOK
  <2>6. req'[c].at = "check" /\ req'[c].sess = i /\ "sess" \in DOMAIN req'[c]
    BY <2>2, <2>5
  <2>7. i \in DOMAIN session /\ session[i].dev = r.dev
    BY <1>a DEF Given, Tracks, SessionOf
  <2>8. Owns(req[c].dev, req[c].sess)'
    BY <1>0, <2>5, <2>6, <2>7 DEF Owns
  <2>9. StepOK(req[c])' /\ Holding(req[c])' /\ Refused(req[c])'
    BY <1>a, <2>5, <2>6, <2>8 DEF StepOK, Holding, Refused, Authenticated
  <2> QED BY <2>5, <2>9 DEF Acted, RequestOK
<1> QED BY <1>1, <1>2 DEF validateSession

LEMMA CheckActs ==
  ASSUME IInv, AccountOK', ProviderOK', Grows, NEW c \in Clients, checkDevice(c)
  PROVE  Acted(c)
<1> DEFINE r == req[c]
<1>0. r # Idle /\ r.at = "check" /\ UNCHANGED <<session, device>>
  BY Serving DEF checkDevice
<1>a. StepOK(r) /\ Given(r) /\ Decided(r) /\ Owns(r.dev, r.sess) /\ r.op \in Authenticated
  BY <1>0 DEF IInv, RequestsOK, RequestOK, StepOK, Issuing, Proving, Holding
<1>1. CASE Wiped(r.dev) /\ Goto(c, "deliver")
  <2>1. /\ DOMAIN req' = Clients
        /\ \A d \in Clients : d # c => req'[d] = req[d]
        /\ req'[c].at = "deliver" /\ req'[c].op = r.op /\ req'[c].dev = r.dev
        /\ Given(req[c])' /\ Decided(req[c])'
    BY <1>0, <1>1, GotoOK
  <2>2. Wiped(req[c].dev)'
    BY <1>0, <1>1, <2>1 DEF Wiped, Registered
  <2>3. StepOK(req[c])' /\ Holding(req[c])' /\ Refused(req[c])'
    BY <1>a, <2>1, <2>2 DEF StepOK, Holding, Refused, Authenticated
  <2> QED BY <2>1, <2>3 DEF Acted, RequestOK
<1>2. CASE ~Wiped(r.dev) /\ req' = [req EXCEPT ![c] = Amend(@, [again |-> TRUE, at |-> Handler(c)])]
  <2> DEFINE more == [again |-> TRUE, at |-> Handler(c)]
  <2>2. DOMAIN more = {"again", "at"} /\ more.at = Handler(c)
    OBVIOUS
  <2>3. req' = [req EXCEPT ![c] = Amend(@, more)]
    BY <1>2
  <2> HIDE DEF more
  <2>4. DOMAIN more \subseteq {"at", "u", "t", "again"}
    BY <2>2
  <2>5. /\ DOMAIN req' = Clients
        /\ \A d \in Clients : d # c => req'[d] = req[d]
        /\ DOMAIN req'[c] = DOMAIN r \cup DOMAIN more
        /\ \A f \in DOMAIN more : req'[c][f] = more[f]
        /\ \A f \in DOMAIN r : f \notin DOMAIN more => req'[c][f] = r[f]
        /\ req'[c].op = r.op /\ req'[c].dev = r.dev /\ req'[c].wipedOut = r.wipedOut
        /\ Given(req[c])' /\ Decided(req[c])'
    BY <1>0, <2>3, <2>4, AmendOK, ZenonT(60)
  <2>6. req'[c].at = Handler(c)
    BY <2>2, <2>5
  <2>7. /\ r.op = "call" => Handler(c) = "answer"
        /\ r.op = "confirm" => Handler(c) = "confirm"
        /\ r.op = "logout" => Handler(c) \in {"revoke", "session"}
        /\ r.op \in {"enroll", "disable"} => Handler(c) = "caller"
    BY <1>a DEF Handler, Authenticated
  <2>8. "sess" \in DOMAIN r /\ "sess" \in DOMAIN req'[c] /\ req'[c].sess = r.sess
    BY <1>0, <2>2, <2>5 DEF IInv, RequestsOK, RequestOK, Holding
  <2>9. Owns(req[c].dev, req[c].sess)'
    BY <1>0, <1>a, <2>5, <2>8 DEF Owns
  <2>10. r.dev \notin r.wipedOut
    BY <1>2, <1>a DEF Decided
  <2>11. StepOK(req[c])' /\ Holding(req[c])' /\ Refused(req[c])'
    BY <1>a, <2>5, <2>6, <2>7, <2>8, <2>9, <2>10 DEF StepOK, Holding, Refused, Authenticated
  <2> QED BY <2>5, <2>6, <2>7, <2>11, <1>a DEF Acted, RequestOK, Authenticated
<1> QED BY <1>1, <1>2, <1>a DEF checkDevice, Owns

\* A new token belongs to the device of the request that made it.
LEMMA TokenActs ==
  ASSUME IInv, AccountOK', ProviderOK', Grows, NEW c \in Clients, RefreshSession(c) \/ InsertSession(c)
  PROVE  Acted(c)
<1> DEFINE r == req[c]
           new == fresh.token + 1
<1>0. r # Idle /\ UNCHANGED device
  BY Serving DEF RefreshSession, InsertSession
<1>a. StepOK(r) /\ Given(r) /\ Refused(r)
  BY <1>0 DEF IInv, RequestsOK, RequestOK
<1>b. /\ SessionsOK /\ session \in Seq(SessionRow) /\ fresh.token \in Nat
      /\ \A i \in DOMAIN session : session[i].token \in 1..fresh.token
      /\ DOMAIN session = 1..Len(session) /\ Len(session) \in Nat
  BY Elements DEF IInv, RowsOK, SessionsOK, AccountOK, UsersTypeOK
<1>c. fresh'.token = new
  BY DEF RefreshSession, InsertSession, IInv, AccountOK, UsersTypeOK
<1>1. CASE RefreshSession(c)
  <2>1. r.at = "extend" /\ r.op = "refresh"
    BY <1>1, <1>a DEF RefreshSession, StepOK, Authenticated, Issuing, Proving
  <2> DEFINE more == [token |-> new, at |-> "answer"]
  <2>2. DOMAIN more = {"token", "at"} /\ more.at = "answer" /\ more.token = new
    OBVIOUS
  <2>3. req' = [req EXCEPT ![c] = Amend(@, more)]
    BY <1>1 DEF RefreshSession
  <2> HIDE DEF more
  <2>4. DOMAIN more \subseteq {"at", "token"} /\ r.op \notin Authenticated
    BY <2>1, <2>2 DEF Authenticated
  <2>5. /\ DOMAIN req' = Clients
        /\ \A d \in Clients : d # c => req'[d] = req[d]
        /\ DOMAIN req'[c] = DOMAIN r \cup DOMAIN more
        /\ \A f \in DOMAIN more : req'[c][f] = more[f]
        /\ \A f \in DOMAIN r : f \notin DOMAIN more => req'[c][f] = r[f]
        /\ req'[c].op = r.op /\ req'[c].dev = r.dev /\ req'[c].out = r.out
        /\ Given(req[c])' /\ Decided(req[c])'
    BY <1>0, <2>3, <2>4, AmendOK, ZenonT(60)
  <2>6. req'[c].at = "answer" /\ req'[c].token = new /\ {"sess", "token"} \subseteq DOMAIN req'[c]
        /\ req'[c].sess = r.sess
    BY <1>a, <2>1, <2>2, <2>5 DEF Given
  <2>7. Owns(req[c].dev, req[c].sess)'
    BY <2>1, <2>5 DEF Given
  <2>8. \A i \in DOMAIN session' : i # r.sess => i \in DOMAIN session /\ session'[i] = session[i]
    BY <1>1 DEF RefreshSession
  <2>9. Tracks(req[c].dev, req[c].token)'
    <3>1. \A i \in DOMAIN session' : session'[i].token = new => i = r.sess
      BY <1>b, <2>8
    <3>2. session'[r.sess].dev = req'[c].dev
      BY <2>6, <2>7 DEF Owns
    <3> QED BY <1>b, <1>c, <2>6, <3>1, <3>2 DEF Tracks
  <2>10. StepOK(req[c])' /\ Holding(req[c])' /\ Refused(req[c])'
    BY <1>a, <2>1, <2>5, <2>6, <2>7, <2>9 DEF StepOK, Holding, Refused, Authenticated
  <2> QED BY <2>5, <2>10 DEF Acted, RequestOK
<1>2. CASE InsertSession(c)
  <2>1. r.at = "insert" /\ r.op \in {"login", "oidc"}
    BY <1>2, <1>a DEF InsertSession, StepOK, Authenticated, Proving
  <2> DEFINE more == [sess |-> Len(session) + 1, token |-> new, at |-> "register"]
             e == [dev |-> req[c].dev, token |-> new, expires |-> now + SessionTTL,
                   revoked |-> FALSE, flow |-> req[c].flow]
  <2>2. DOMAIN more = {"sess", "token", "at"} /\ more.at = "register" /\ more.token = new
        /\ more.sess = Len(session) + 1
    OBVIOUS
  <2>3. req' = [req EXCEPT ![c] = Amend(@, more)] /\ session' = Append(session, e)
    BY <1>2 DEF InsertSession
  <2>4. e.dev = r.dev /\ e.token = new
    OBVIOUS
  <2> HIDE DEF more, e
  <2>5. DOMAIN more \subseteq {"at", "sess", "token"} /\ r.op \in {"login", "oidc"}
    BY <2>1, <2>2
  <2>6. /\ DOMAIN req' = Clients
        /\ \A d \in Clients : d # c => req'[d] = req[d]
        /\ DOMAIN req'[c] = DOMAIN r \cup DOMAIN more
        /\ \A f \in DOMAIN more : req'[c][f] = more[f]
        /\ req'[c].op = r.op /\ req'[c].dev = r.dev /\ req'[c].out = r.out
        /\ Given(req[c])' /\ Decided(req[c])'
    BY <1>0, <2>3, <2>5, AmendOK, ZenonT(60)
  <2>7. req'[c].at = "register" /\ req'[c].token = new /\ {"sess", "token"} \subseteq DOMAIN req'[c]
        /\ req'[c].sess = Len(session) + 1
    BY <2>2, <2>6
  <2>8. /\ DOMAIN session' = 1..Len(session) + 1 /\ session'[Len(session) + 1] = e
        /\ \A i \in 1..Len(session) : session'[i] = session[i]
    BY <1>b, <2>3
  <2>9. Owns(req[c].dev, req[c].sess)'
    BY <1>b, <2>4, <2>6, <2>7, <2>8 DEF Owns
  <2>10. Tracks(req[c].dev, req[c].token)'
    BY <1>b, <1>c, <2>4, <2>6, <2>7, <2>8 DEF Tracks
  <2>11. StepOK(req[c])' /\ Holding(req[c])' /\ Refused(req[c])'
    BY <1>a, <2>1, <2>6, <2>7, <2>9, <2>10 DEF StepOK, Holding, Refused, Authenticated, Issuing
  <2> QED BY <2>6, <2>11 DEF Acted, RequestOK
<1> QED BY <1>1, <1>2
--------------------------------------------------------------------------------
(* The identity provider. *)

\* Sessions are added by InsertSession alone, and never removed.
LEMMA SessionsStay ==
  ASSUME [Next]_vars, ~\E c \in Clients : InsertSession(c)
  PROVE  DOMAIN session' = DOMAIN session
<1>1. ASSUME NEW c \in Clients, SessionsStep(c), ~InsertSession(c)
      PROVE  DOMAIN session' = DOMAIN session
  BY <1>1 DEF SessionsStep, login, authenticate, refresh, callback, validateSession, checkDevice,
              MarkWipeDelivered, ReadRefresh, RefreshCheck, RefreshSession, RevokeSession, consume,
              Exchange, IssueSession, RegisterDevice, answer, ResolveOIDCUser, LinkOIDCIdentity, Fail
<1>2. ASSUME NEW d \in Devices, WipeDevice(d) \/ RevokeDevice(d)
      PROVE  session' = session
  BY <1>2 DEF WipeDevice, RevokeDevice
<1>3. CASE start \/ Tick \/ RotateKey \/ Restart \/ UNCHANGED vars
  BY <1>3 DEF start, Tick, RotateKey, Restart, vars
<1> QED BY <1>1, <1>2, <1>3 DEF Next

LEMMA ProviderStep ==
  ASSUME IInv, AccountOK', Grows, [Next]_vars
  PROVE  ProviderOK' /\ provider.redeemed \subseteq provider'.redeemed
<1> DEFINE Typed == /\ flow' \in Nat /\ spent' \subseteq [flow : 1..flow', at : 0..now']
                    /\ provider' \in [key : Nat, cached : Nat, fetched : Nat, redeemed : SUBSET (1..flow')]
                    /\ provider.redeemed \subseteq provider'.redeemed
<1>0. /\ now \in Nat /\ flow \in Nat /\ SessionsOK /\ RequestsOK /\ FlowsOK /\ ProviderOK
      /\ now' \in Nat /\ flow <= flow' /\ now <= now'
  BY DEF IInv, RowsOK, AccountOK, UsersTypeOK, ProviderOK, Grows
<1>1. ASSUME UNCHANGED <<spent, provider>>, flow' \in Nat
      PROVE  Typed
  <2>1. provider.redeemed \subseteq 1..flow'
    BY <1>0, <1>1 DEF ProviderOK
  <2>2. spent' \subseteq [flow : 1..flow', at : 0..now']
    BY <1>0, <1>1 DEF ProviderOK
  <2> QED BY <1>0, <1>1, <2>1, <2>2 DEF ProviderOK
<1>2. ASSUME NEW c \in Clients, consume(c)
      PROVE  Typed
  <2>1. req[c].flow \in 1..flow
    BY <1>0, <1>2, Serving DEF consume, RequestsOK, RequestOK, StepOK, Given, Authenticated, Issuing, Proving
  <2> QED BY <1>0, <1>2, <2>1 DEF consume, ProviderOK, account
<1>3. ASSUME NEW c \in Clients, Exchange(c)
      PROVE  Typed
  <2>1. req[c].flow \in 1..flow
    BY <1>0, <1>3, Serving DEF Exchange, RequestsOK, RequestOK, StepOK, Given, Authenticated, Issuing, Proving
  <2>2. UNCHANGED <<now, flow, spent>>
    BY <1>3 DEF Exchange
  <2> DEFINE refetch == Redeems(req[c].flow) /\ Refetch
             cached == IF refetch THEN provider.key ELSE provider.cached
             fetched == IF refetch THEN now ELSE provider.fetched
  <2>3. provider' = [provider EXCEPT !.redeemed = @ \cup {req[c].flow}, !.cached = cached, !.fetched = fetched]
    BY <1>3 DEF Exchange
  <2>4. cached \in Nat /\ fetched \in Nat
    BY <1>0 DEF ProviderOK
  <2> HIDE DEF cached, fetched
  <2>5. provider = [key |-> provider.key, cached |-> provider.cached, fetched |-> provider.fetched,
                    redeemed |-> provider.redeemed] /\ provider.key \in Nat
        /\ provider.redeemed \in SUBSET (1..flow)
    BY <1>0 DEF ProviderOK
  <2>6. provider' = [key |-> provider.key, cached |-> cached, fetched |-> fetched,
                     redeemed |-> provider.redeemed \cup {req[c].flow}]
    BY <2>3, <2>5
  <2> QED BY <1>0, <2>1, <2>2, <2>4, <2>5, <2>6 DEF ProviderOK
<1>4. ASSUME RotateKey PROVE Typed
  BY <1>0, <1>4 DEF RotateKey, ProviderOK
<1>5. ASSUME Restart PROVE Typed
  <2>1. provider = [key |-> provider.key, cached |-> provider.cached, fetched |-> provider.fetched,
                    redeemed |-> provider.redeemed] /\ provider.key \in Nat
        /\ provider.redeemed \in SUBSET (1..flow)
    BY <1>0 DEF ProviderOK
  <2>2. provider' = [key |-> provider.key, cached |-> provider.key, fetched |-> now,
                     redeemed |-> provider.redeemed] /\ spent' = {} /\ flow' = flow
    BY <1>5, <2>1 DEF Restart
  <2>3. provider' \in [key : Nat, cached : Nat, fetched : Nat, redeemed : SUBSET (1..flow)]
    BY <1>0, <2>1, <2>2
  <2> QED BY <1>0, <2>2, <2>3
<1>6. Typed
  <2>1. ASSUME UNCHANGED <<flow, spent, provider>> PROVE Typed
    BY <1>0, <1>1, <2>1
  <2>2. ASSUME NEW c \in Clients, SessionsStep(c), ~consume(c), ~Exchange(c)
        PROVE  UNCHANGED <<flow, spent, provider>>
    BY <2>2 DEF SessionsStep, login, authenticate, refresh, callback, validateSession, checkDevice,
                MarkWipeDelivered, ReadRefresh, RefreshCheck, RefreshSession, RevokeSession,
                IssueSession, InsertSession, RegisterDevice, answer, ResolveOIDCUser, LinkOIDCIdentity, Fail
  <2>3. ASSUME NEW d \in Devices, WipeDevice(d) \/ RevokeDevice(d)
        PROVE  UNCHANGED <<flow, spent, provider>>
    BY <2>3 DEF WipeDevice, RevokeDevice
  <2>4. ASSUME start PROVE Typed
    BY <1>0, <1>1, <2>4 DEF start
  <2>5. ASSUME Tick \/ UNCHANGED vars PROVE Typed
    BY <1>0, <1>1, <2>5 DEF Tick, vars
  <2> HIDE DEF Typed
  <2>6. ASSUME NEW c \in Clients,
               \/ SessionsStep(c)
               \/ UsersStep(c) /\ UNCHANGED <<device, session, jar, flow, spent, provider>>
        PROVE  Typed
    BY <1>2, <1>3, <2>1, <2>2, <2>6
  <2>7. ASSUME NEW d \in Devices, WipeDevice(d) \/ RevokeDevice(d)
        PROVE  Typed
    BY <2>1, <2>3, <2>7
  <2> QED BY <1>4, <1>5, <2>4, <2>5, <2>6, <2>7 DEF Next
<1>7. /\ \A i \in DOMAIN session' : session'[i].flow # 0 => session'[i].flow \in provider'.redeemed
      /\ \A i, j \in DOMAIN session' : session'[i].flow # 0 /\ session'[i].flow = session'[j].flow => i = j
  <2>1. CASE \E c \in Clients : InsertSession(c)
    <3>1. PICK c \in Clients : InsertSession(c)
      BY <2>1
    <3> DEFINE e == [dev |-> req[c].dev, token |-> fresh.token + 1, expires |-> now + SessionTTL,
                     revoked |-> FALSE, flow |-> req[c].flow]
    <3>2. session' = Append(session, e) /\ provider' = provider /\ e.flow = req[c].flow
          /\ req[c].at = "insert" /\ req[c] # Idle
      BY <3>1, Serving DEF InsertSession
    <3> HIDE DEF e
    <3>3. session \in Seq(SessionRow)
      BY <1>0 DEF SessionsOK
    <3>4. /\ DOMAIN session = 1..Len(session) /\ Len(session) \in Nat
          /\ DOMAIN session' = 1..Len(session) + 1 /\ session'[Len(session) + 1] = e
          /\ \A i \in 1..Len(session) : session'[i] = session[i]
      BY <3>2, <3>3
    <3>5. \/ req[c].flow = 0
          \/ req[c].flow \in provider.redeemed /\ \A i \in DOMAIN session : session[i].flow # req[c].flow
      <4>1. req[c].op \in {"login", "oidc"} /\ Given(req[c])
        BY <1>0, <3>2 DEF RequestsOK, RequestOK, StepOK, Proving, Authenticated
      <4> QED BY <1>0, <3>2, <4>1 DEF FlowsOK, Redeemed, Given
    <3>6. \A i \in DOMAIN session' : \/ i \in DOMAIN session /\ session'[i] = session[i]
                                     \/ i = Len(session) + 1 /\ session'[i].flow = req[c].flow
      BY <3>2, <3>4
    <3>7. ASSUME NEW i \in DOMAIN session', session'[i].flow # 0
          PROVE  session'[i].flow \in provider'.redeemed
      BY <1>0, <3>2, <3>5, <3>6, <3>7 DEF ProviderOK
    <3>8. ASSUME NEW i \in DOMAIN session', NEW j \in DOMAIN session', session'[i].flow # 0,
                 session'[i].flow = session'[j].flow
          PROVE  i = j
      <4>1. CASE i \in DOMAIN session /\ session'[i] = session[i] /\ j \in DOMAIN session /\ session'[j] = session[j]
        BY <1>0, <3>8, <4>1 DEF ProviderOK
      <4> QED BY <3>5, <3>6, <3>8, <4>1
    <3> QED BY <3>7, <3>8
  <2>2. CASE ~\E c \in Clients : InsertSession(c)
    <3>1. DOMAIN session' = DOMAIN session
      BY <2>2, SessionsStay
    <3>2. \A i \in DOMAIN session : session'[i].flow = session[i].flow
      BY DEF Grows
    <3> QED BY <1>0, <1>6, <3>1, <3>2 DEF ProviderOK
  <2> QED BY <2>1, <2>2
<1> QED BY <1>6, <1>7 DEF ProviderOK

LEMMA RequestsStep ==
  ASSUME IInv, AccountOK', ProviderOK', Grows, [Next]_vars
  PROVE  RequestsOK'
<1>0. DOMAIN req = Clients
  BY DEF IInv, RequestsOK
<1>1. ASSUME NEW c \in Clients, Acted(c)
      PROVE  RequestsOK'
  <2> SUFFICES ASSUME NEW d \in Clients PROVE RequestOK(d)'
    BY <1>1 DEF RequestsOK, Acted
  <2>1. CASE d = c
    BY <1>1, <2>1 DEF Acted
  <2>2. CASE d # c
    BY <1>1, <2>2, RequestRests DEF Acted
  <2> QED BY <2>1, <2>2
<1>2. ASSUME NEW c \in Clients,
             \/ SessionsStep(c)
             \/ UsersStep(c) /\ UNCHANGED <<device, session, jar, flow, spent, provider>>
      PROVE  RequestsOK'
  <2>1. CASE UsersStep(c) /\ UNCHANGED <<device, session, jar, flow, spent, provider>>
    BY <1>1, <2>1, UsersStepActs
  <2>2. CASE login(c) \/ authenticate(c) \/ refresh(c) \/ callback(c)
    <3>1. UNCHANGED <<device, session, now, fresh, flow>>
      BY <2>2 DEF login, authenticate, refresh, callback, account
    <3> QED BY <1>1, <2>2, <3>1, RequestActs
  <2>3. CASE validateSession(c) \/ checkDevice(c)
    BY <1>1, <2>3, ValidateActs, CheckActs
  <2>4. CASE MarkWipeDelivered(c) \/ answer(c) \/ Fail(c)
    <3>1. End(c)
      BY <2>4 DEF MarkWipeDelivered, answer, Fail
    <3> QED BY <1>1, <3>1, EndOK
  <2>5. CASE \/ ReadRefresh(c) \/ RefreshCheck(c) \/ RevokeSession(c) \/ IssueSession(c)
             \/ RegisterDevice(c) \/ consume(c) \/ Exchange(c) \/ ResolveOIDCUser(c)
             \/ LinkOIDCIdentity(c)
    BY <1>1, <2>5, SessionGotoActs
  <2>6. CASE RefreshSession(c) \/ InsertSession(c)
    BY <1>1, <2>6, TokenActs
  <2> QED BY <1>2, <2>1, <2>2, <2>3, <2>4, <2>5, <2>6 DEF SessionsStep
<1>3. CASE Restart
  BY <1>3 DEF Restart, RequestsOK, RequestOK
<1>4. CASE req' = req
  BY <1>0, <1>4, RequestRests DEF RequestsOK
<1>5. CASE (\E d \in Devices : WipeDevice(d) \/ RevokeDevice(d)) \/ start \/ Tick \/ RotateKey \/ UNCHANGED vars
  BY <1>4, <1>5 DEF WipeDevice, RevokeDevice, start, Tick, RotateKey, vars
<1> QED BY <1>2, <1>3, <1>5 DEF Next

\* The code of a sign-in is redeemed by one request at a time.
LEMMA FlowsStep ==
  ASSUME IInv, AccountOK', ProviderOK', Grows, RequestsOK', [Next]_vars
  PROVE  FlowsOK'
<1>0. DOMAIN req = Clients /\ FlowsOK /\ ProviderOK /\ SessionsOK /\ RequestsOK
  BY DEF IInv, RequestsOK, RowsOK
<1> DEFINE Held(d) == Redeemed(d)' => Redeemed(d) /\ req'[d].flow = req[d].flow
           Kept == /\ provider.redeemed \subseteq provider'.redeemed
                   /\ \A i \in DOMAIN session' : i \in DOMAIN session /\ session'[i].flow = session[i].flow
<1>1. ASSUME \A d \in Clients : Held(d), Kept
      PROVE  FlowsOK'
  BY <1>0, <1>1 DEF FlowsOK, Redeemed
\* Every step of another actor, and every step of c that does not redeem a code or use one.
<1>2. ASSUME NEW c \in Clients,
             End(c) \/ (\E step : Goto(c, step) /\ (step \in {"link", "device", "insert"} => Redeemed(c)
                                                   \/ req[c].op # "oidc")
                                  /\ step # "resolve" /\ req[c] # Idle)
      PROVE  \A d \in Clients : Held(d)
  <2>1. CASE End(c)
    BY <1>0, <2>1, EndKeeps DEF Redeemed, Idle
  <2>2. ASSUME NEW step, Goto(c, step), step \in {"link", "device", "insert"} => Redeemed(c) \/ req[c].op # "oidc",
               step # "resolve", req[c] # Idle
        PROVE  \A d \in Clients : Held(d)
    <3>1. /\ \A d \in Clients : d # c => req'[d] = req[d]
          /\ \A f \in DOMAIN req[c] : f # "at" => req'[c][f] = req[c][f]
          /\ req'[c].at = step /\ req'[c].op = req[c].op
      BY <2>2, GotoOK
    <3>2. req[c].op = "oidc" => "flow" \in DOMAIN req[c]
      BY <1>0, <2>2 DEF RequestsOK, RequestOK, Given
    <3> QED BY <2>2, <3>1, <3>2 DEF Redeemed
  <2> QED BY <1>2, <2>1, <2>2
<1>3. ASSUME NEW c \in Clients, UsersStep(c)
      PROVE  \A d \in Clients : Held(d)
  <2>1. CASE req[c].at = "verify" /\ req' = [req EXCEPT ![c] = Amend(@, [u |-> user, t |-> now, at |-> "factor"])]
    <3>1. (\A d \in Clients : d # c => req'[d] = req[d]) /\ req'[c].at = "factor"
      BY <1>0, <2>1 DEF Amend
    <3> QED BY <3>1 DEF Redeemed
  <2>2. req[c].at \in {"verify", "clear"} => req[c].op \in {"login", "enroll", "disable"}
    BY <1>0, Serving DEF RequestsOK, RequestOK, StepOK, Authenticated, Issuing
  <2> HIDE DEF Held
  <2>3. CASE verify(c)
    BY <1>2, <2>1, <2>2, <2>3, Serving DEF verify, Proved
  <2>4. CASE secondFactor(c)
    BY <1>2, <2>4, Serving DEF secondFactor, ConsumeRecoveryCode, SetTOTPLastCounter
  <2>5. CASE recordTOTPFailure(c) \/ clearTOTPFailures(c)
    BY <1>2, <2>2, <2>5, Serving DEF recordTOTPFailure, clearTOTPFailures, Proved
  <2>6. CASE \/ totpEnroll(c) \/ totpDisable(c) \/ StartTOTPEnrollment(c) \/ StoreSecret(c)
             \/ ConfirmTOTPEnrollment(c) \/ Enable(c) \/ DisableTOTP(c)
    BY <1>2, <2>6, Serving DEF totpEnroll, totpDisable, StartTOTPEnrollment, StoreSecret,
                               ConfirmTOTPEnrollment, Enable, DisableTOTP
  <2> QED BY <1>3, <2>3, <2>4, <2>5, <2>6 DEF UsersStep
<1>4. ASSUME NEW c \in Clients, login(c) \/ authenticate(c) \/ refresh(c) \/ callback(c)
      PROVE  \A d \in Clients : Held(d)
  <2>1. PICK op, d, step, more : /\ Request(c, op, d, step, more)
                                 /\ step \in {"verify", "session", "refresh", "callback"}
    BY <1>4 DEF login, authenticate, refresh, callback
  <2>2. (\A e \in Clients : e # c => req'[e] = req[e]) /\ req'[c].at = step
    BY <1>0, <2>1, RequestBegins
  <2> QED BY <2>1, <2>2 DEF Redeemed
<1>5. ASSUME NEW c \in Clients, validateSession(c) \/ checkDevice(c) \/ RefreshSession(c)
      PROVE  \A d \in Clients : Held(d)
  <2>1. ASSUME NEW more, req' = [req EXCEPT ![c] = Amend(@, more)], "at" \in DOMAIN more,
               more.at \notin {"resolve", "link", "device", "insert"}
        PROVE  \A d \in Clients : Held(d)
    <3>1. (\A d \in Clients : d # c => req'[d] = req[d]) /\ req'[c].at = more.at
      BY <1>0, <2>1 DEF Amend
    <3> QED BY <2>1, <3>1 DEF Redeemed
  <2> HIDE DEF Held
  <2>2. CASE validateSession(c)
    <3>1. ASSUME NEW i, req' = [req EXCEPT ![c] = Amend(@, [sess |-> i, at |-> "check"])]
          PROVE  \A d \in Clients : Held(d)
      <4> DEFINE more == [sess |-> i, at |-> "check"]
      <4>1. "at" \in DOMAIN more /\ more.at = "check" /\ req' = [req EXCEPT ![c] = Amend(@, more)]
        BY <3>1
      <4> HIDE DEF more
      <4> QED BY <2>1, <4>1
    <3> QED BY <1>2, <2>2, <3>1 DEF validateSession
  <2>3. CASE checkDevice(c)
    <3>1. ASSUME req' = [req EXCEPT ![c] = Amend(@, [again |-> TRUE, at |-> Handler(c)])]
          PROVE  \A d \in Clients : Held(d)
      <4> DEFINE more == [again |-> TRUE, at |-> Handler(c)]
      <4>1. "at" \in DOMAIN more /\ more.at = Handler(c) /\ req' = [req EXCEPT ![c] = Amend(@, more)]
        BY <3>1
      <4>2. Handler(c) \in {"answer", "confirm", "revoke", "session", "caller"}
        BY DEF Handler
      <4> HIDE DEF more
      <4> QED BY <2>1, <4>1, <4>2
    <3> QED BY <1>2, <2>3, <3>1, Serving DEF checkDevice
  <2>4. CASE RefreshSession(c)
    <3> DEFINE more == [token |-> fresh.token + 1, at |-> "answer"]
    <3>1. "at" \in DOMAIN more /\ more.at = "answer" /\ req' = [req EXCEPT ![c] = Amend(@, more)]
      BY <2>4 DEF RefreshSession
    <3> HIDE DEF more
    <3> QED BY <2>1, <3>1
  <2> QED BY <1>5, <2>2, <2>3, <2>4
<1>6. ASSUME NEW c \in Clients,
             \/ MarkWipeDelivered(c) \/ answer(c) \/ Fail(c) \/ ReadRefresh(c) \/ RefreshCheck(c)
             \/ RevokeSession(c) \/ IssueSession(c) \/ RegisterDevice(c) \/ consume(c)
             \/ ResolveOIDCUser(c) \/ LinkOIDCIdentity(c)
      PROVE  \A d \in Clients : Held(d)
  <2>1. CASE MarkWipeDelivered(c) \/ answer(c) \/ Fail(c)
    BY <1>2, <2>1 DEF MarkWipeDelivered, answer, Fail
  <2>2. CASE ReadRefresh(c) \/ RefreshCheck(c) \/ RevokeSession(c) \/ RegisterDevice(c) \/ consume(c)
    BY <1>2, <2>2, Serving DEF ReadRefresh, RefreshCheck, RevokeSession, RegisterDevice, consume
  <2>3. CASE IssueSession(c)
    <3>1. req[c].op # "oidc" \/ Redeemed(c)
      BY <2>3 DEF IssueSession, Redeemed
    <3> QED BY <1>2, <2>3, <3>1, Serving DEF IssueSession
  <2>4. CASE ResolveOIDCUser(c) \/ LinkOIDCIdentity(c)
    <3>1. Redeemed(c)
      BY <1>0, <2>4, Serving DEF ResolveOIDCUser, LinkOIDCIdentity, Redeemed, RequestsOK, RequestOK, StepOK,
                                 Authenticated, Issuing, Proving
    <3> QED BY <1>2, <2>4, <3>1, Serving DEF ResolveOIDCUser, LinkOIDCIdentity
  <2> QED BY <1>6, <2>1, <2>2, <2>3, <2>4
<1>7. ASSUME ~\E c \in Clients : InsertSession(c)
      PROVE  Kept
  <2>1. DOMAIN session' = DOMAIN session
    BY <1>7, SessionsStay
  <2> QED BY <2>1, ProviderStep DEF Grows
<1>8. ASSUME NEW c \in Clients, Exchange(c)
      PROVE  FlowsOK'
  <2>0. ~\E d \in Clients : InsertSession(d)
    <3>1. session' = session
      BY <1>8 DEF Exchange
    <3>2. ASSUME NEW d \in Clients, InsertSession(d) PROVE Len(session') = Len(session) + 1
      BY <1>0, <3>2 DEF InsertSession, SessionsOK
    <3>3. Len(session) \in Nat
      BY <1>0, Elements DEF SessionsOK
    <3> QED BY <3>1, <3>2, <3>3
  <2>1. Kept
    BY <1>7, <2>0
  <2>2. CASE End(c)
    BY <1>1, <1>2, <2>1, <2>2
  <2>3. CASE Redeems(req[c].flow) /\ Goto(c, "resolve")
    <3>0. req[c] # Idle /\ req[c].at = "exchange" /\ session' = session
      BY <1>8, Serving DEF Exchange
    <3>1. /\ \A d \in Clients : d # c => req'[d] = req[d]
          /\ \A f \in DOMAIN req[c] : f # "at" => req'[c][f] = req[c][f]
          /\ req'[c].op = req[c].op
      BY <2>3, <3>0, GotoOK
    <3>2. req[c].op = "oidc" /\ "flow" \in DOMAIN req[c] /\ req[c].flow \in 1..flow
      BY <1>0, <3>0 DEF RequestsOK, RequestOK, StepOK, Given, Authenticated, Issuing, Proving
    <3>3. req[c].flow \notin provider.redeemed /\ req'[c].flow = req[c].flow /\ req[c].flow # 0
      BY <2>3, <3>1, <3>2 DEF Redeems
    <3>4. req[c].flow \in provider'.redeemed
      BY <1>0, <1>8 DEF Exchange, ProviderOK
    <3>5. \A i \in DOMAIN session' : session'[i].flow # req[c].flow
      BY <1>0, <3>0, <3>3 DEF ProviderOK
    <3>6. ASSUME NEW d \in Clients, Redeemed(d)'
          PROVE  /\ req'[d].flow \in provider'.redeemed
                 /\ \A i \in DOMAIN session' : session'[i].flow # req'[d].flow
                 /\ d # c => Redeemed(d) /\ req'[d].flow = req[d].flow /\ req'[d].flow \in provider.redeemed
      BY <1>0, <2>1, <3>0, <3>1, <3>3, <3>4, <3>5, <3>6 DEF FlowsOK, Redeemed
    <3>7. ASSUME NEW d \in Clients, NEW e \in Clients, Redeemed(d)', Redeemed(e)', req'[d].flow = req'[e].flow
          PROVE  d = e
      <4>1. CASE d = c \/ e = c
        BY <3>3, <3>6, <3>7, <4>1
      <4>2. CASE d # c /\ e # c
        BY <1>0, <3>6, <3>7, <4>2 DEF FlowsOK
      <4> QED BY <4>1, <4>2
    <3> QED BY <3>6, <3>7 DEF FlowsOK
  <2> QED BY <1>8, <2>2, <2>3 DEF Exchange
<1>9. ASSUME NEW c \in Clients, InsertSession(c)
      PROVE  FlowsOK'
  <2> DEFINE e == [dev |-> req[c].dev, token |-> fresh.token + 1, expires |-> now + SessionTTL,
                   revoked |-> FALSE, flow |-> req[c].flow]
             more == [sess |-> Len(session) + 1, token |-> fresh.token + 1, at |-> "register"]
  <2>1. /\ session' = Append(session, e) /\ provider' = provider /\ e.flow = req[c].flow
        /\ req[c].at = "insert" /\ req[c] # Idle /\ req' = [req EXCEPT ![c] = Amend(@, more)]
        /\ "at" \in DOMAIN more /\ more.at = "register"
    BY <1>9, Serving DEF InsertSession
  <2> HIDE DEF e, more
  <2>2. (\A d \in Clients : d # c => req'[d] = req[d]) /\ req'[c].at = "register"
    BY <1>0, <2>1 DEF Amend
  <2>3. \A d \in Clients : Redeemed(d)' => d # c /\ Redeemed(d) /\ req'[d].flow = req[d].flow
    BY <2>2 DEF Redeemed
  <2>4. \A i \in DOMAIN session' : \/ i \in DOMAIN session /\ session'[i] = session[i]
                                   \/ session'[i].flow = req[c].flow
    BY <1>0, <2>1, Elements DEF SessionsOK
  <2>5. \A d \in Clients : Redeemed(d) /\ d # c => req[d].flow # req[c].flow
    <3> SUFFICES ASSUME NEW d \in Clients, Redeemed(d), d # c PROVE req[d].flow # req[c].flow
      OBVIOUS
    <3>1. req[c].op \in {"login", "oidc"} /\ Given(req[c])
      BY <1>0, <2>1 DEF RequestsOK, RequestOK, StepOK, Proving, Authenticated
    <3>2. CASE req[c].op = "oidc"
      BY <1>0, <2>1, <3>2 DEF FlowsOK, Redeemed
    <3>3. CASE req[c].op = "login"
      <4>1. req[c].flow = 0
        BY <3>1, <3>3 DEF Given
      <4>2. req[d] # Idle
        BY DEF Redeemed, Idle
      <4>3. req[d].flow \in 1..flow
        BY <1>0, <4>2 DEF RequestsOK, RequestOK, Given, Redeemed
      <4> QED BY <4>1, <4>3
    <3> QED BY <3>1, <3>2, <3>3
  <2> QED BY <1>0, <2>1, <2>3, <2>4, <2>5 DEF FlowsOK
<1>10. CASE Restart
  BY <1>10 DEF Restart, FlowsOK, Redeemed, Idle
<1>11. CASE req' = req /\ ~\E c \in Clients : InsertSession(c)
  BY <1>1, <1>7, <1>11 DEF Redeemed
<1>12. ASSUME NEW d \in Devices, WipeDevice(d) \/ RevokeDevice(d)
       PROVE  req' = req /\ session' = session
  BY <1>12 DEF WipeDevice, RevokeDevice
<1>13. ASSUME start \/ Tick \/ RotateKey \/ UNCHANGED vars
       PROVE  req' = req /\ session' = session
  BY <1>13 DEF start, Tick, RotateKey, vars
<1> HIDE DEF Held, Kept
<1>14. ASSUME NEW c \in Clients, ~\E d \in Clients : InsertSession(d),
              \/ SessionsStep(c)
              \/ UsersStep(c) /\ UNCHANGED <<device, session, jar, flow, spent, provider>>
       PROVE  FlowsOK'
  BY <1>1, <1>3, <1>4, <1>5, <1>6, <1>7, <1>8, <1>9, <1>14 DEF SessionsStep
<1> QED BY <1>9, <1>10, <1>11, <1>12, <1>13, <1>14 DEF Next
--------------------------------------------------------------------------------
LEMMA StepIInv == IInv /\ [Next]_vars => IInv'
<1> SUFFICES ASSUME IInv, [Next]_vars PROVE IInv'
  OBVIOUS
<1>1. AccountOK'
  BY AccountStep
<1>2. Grows /\ RowsOK'
  BY <1>1, RowsStep
<1>3. ProviderOK'
  BY <1>1, <1>2, ProviderStep
<1>4. RequestsOK'
  BY <1>1, <1>2, <1>3, RequestsStep
<1>5. FlowsOK'
  BY <1>1, <1>2, <1>3, <1>4, FlowsStep
<1> QED BY <1>1, <1>2, <1>3, <1>4, <1>5 DEF IInv

\* The whole inductive invariant holds in every behaviour of the requests, the
\* administrators and the provider.
THEOREM Invariance == Spec => []IInv
  BY InitIInv, StepIInv, PTL DEF Spec

\* The rows of users, sessions and devices are well formed: a session belongs to a device
\* and has a token that was generated, a cookie names a session that exists, and only a
\* device that was wiped is marked as having been told.
THEOREM TypeCorrect == Spec => []TypeOK
<1>1. IInv => TypeOK
  <2> SUFFICES ASSUME IInv PROVE TypeOK
    OBVIOUS
  <2>1. UsersTypeOK /\ SessionsOK /\ DevicesOK /\ JarOK /\ ProviderOK
    BY DEF IInv, AccountOK, RowsOK
  <2>2. ASSUME NEW i \in DOMAIN session
        PROVE  session[i] \in [dev : Devices, token : 1..fresh.token, expires : 0..now + SessionTTL,
                               revoked : BOOLEAN, flow : 0..flow]
    <3>1. session[i] \in SessionRow
      BY <2>1, SessionColumns
    <3>2. /\ session[i].token \in 1..fresh.token /\ session[i].expires \in 0..now + SessionTTL
          /\ session[i].flow \in 0..flow
      <4>1. now \in Nat /\ flow \in Nat
        BY <2>1 DEF UsersTypeOK, ProviderOK
      <4> QED BY <2>1, <4>1, SessionColumns DEF SessionsOK
    <3> QED BY <3>1, <3>2 DEF SessionRow
  <2>3. \A d \in Devices : jar[d] # None => jar[d].sess \in DOMAIN session
    BY <2>1 DEF JarOK, Owns
  <2> QED BY <2>1, <2>2, <2>3 DEF TypeOK, DevicesOK, DeviceRow, ProviderOK
<1> QED BY Invariance, <1>1, PTL

\* However many requests present recovery codes at once, and however sets of them are
\* replaced meanwhile, a code lets one request in; and an account with a second factor has
\* a set of them.
THEOREM RecoveryCodesOnce == Spec => []RecoveryWorks
<1>1. IInv => RecoveryWorks
  BY DEF IInv, AccountOK
<1> QED BY Invariance, <1>1, PTL

\* However many requests fail the second factor at once, each is counted and the account
\* is locked at the limit, for every limit and window.
THEOREM EveryFailureCounts == Spec => []LockoutCounts
<1>1. IInv => LockoutCounts
  BY DEF IInv, AccountOK
<1> QED BY Invariance, <1>1, PTL

\* A session made or extended.
LEMMA OnlyIssued ==
  ASSUME IInv, [Next]_vars, NEW i \in DOMAIN session',
         i \notin DOMAIN session \/ session'[i].token # session[i].token
  PROVE  \E c \in Clients : /\ req[c].at \in {"insert", "extend"} /\ req'[c] # req[c]
                            /\ session'[i].dev \notin req[c].out
<1>0. DOMAIN req = Clients /\ RequestsOK /\ SessionsOK
  BY DEF IInv, RequestsOK, RowsOK
<1>1. ASSUME NEW c \in Clients, InsertSession(c)
      PROVE  /\ req[c].at = "insert" /\ req'[c] # req[c] /\ session'[i].dev \notin req[c].out
  <2> DEFINE e == [dev |-> req[c].dev, token |-> fresh.token + 1, expires |-> now + SessionTTL,
                   revoked |-> FALSE, flow |-> req[c].flow]
             more == [sess |-> Len(session) + 1, token |-> fresh.token + 1, at |-> "register"]
  <2>1. /\ session' = Append(session, e) /\ e.dev = req[c].dev
        /\ req[c].at = "insert" /\ req[c] # Idle /\ req' = [req EXCEPT ![c] = Amend(@, more)]
        /\ "at" \in DOMAIN more /\ more.at = "register"
    BY <1>1, Serving DEF InsertSession
  <2> HIDE DEF e, more
  <2>2. req'[c].at = "register"
    BY <1>0, <2>1 DEF Amend
  <2>3. session'[i] = e
    BY <1>0, <2>1, Elements DEF SessionsOK
  <2>4. req[c].dev \notin req[c].out
    BY <1>0, <2>1 DEF RequestsOK, RequestOK, Refused, StepOK, Proving, Authenticated
  <2> QED BY <2>1, <2>2, <2>3, <2>4
<1>2. ASSUME NEW c \in Clients, RefreshSession(c)
      PROVE  /\ req[c].at = "extend" /\ req'[c] # req[c] /\ session'[i].dev \notin req[c].out
  <2> DEFINE more == [token |-> fresh.token + 1, at |-> "answer"]
             row == [token |-> fresh.token + 1, expires |-> now + SessionTTL]
             k == req[c].sess
  <2>1. /\ req[c].at = "extend" /\ req[c] # Idle /\ req' = [req EXCEPT ![c] = Amend(@, more)]
        /\ "at" \in DOMAIN more /\ more.at = "answer" /\ DOMAIN row = {"token", "expires"}
        /\ session' = [session EXCEPT ![k] = Amend(@, row)]
    BY <1>2, Serving DEF RefreshSession
  <2>2. k \in DOMAIN session /\ session[k].dev = req[c].dev
    BY <1>0, <2>1, HasSession DEF Owns
  <2> HIDE DEF more, row, k
  <2>3. req'[c].at = "answer"
    BY <1>0, <2>1 DEF Amend
  <2>4. i = k
    BY <2>1
  <2>5. session[k] \in SessionRow
    BY <1>0, <2>2, SessionColumns
  <2>6. session'[i].dev = req[c].dev
    BY <2>1, <2>2, <2>4, <2>5 DEF SessionRow, Amend
  <2>7. req[c].dev \notin req[c].out
    BY <1>0, <2>1 DEF RequestsOK, RequestOK, Refused, StepOK, Proving, Issuing, Authenticated
  <2> QED BY <2>1, <2>3, <2>6, <2>7
<1>3. ASSUME NEW c \in Clients, SessionsStep(c), ~InsertSession(c), ~RefreshSession(c)
      PROVE  FALSE
  <2>1. CASE RevokeSession(c)
    <3>1. req[c].sess \in DOMAIN session
      BY <1>0, <2>1, HasSession DEF RevokeSession, Owns
    <3>2. i \in DOMAIN session /\ session[i] \in SessionRow
      BY <1>0, <2>1, SessionColumns DEF RevokeSession
    <3> QED BY <2>1, <3>1, <3>2 DEF RevokeSession, SessionRow
  <2>2. CASE ~RevokeSession(c)
    BY <1>3, <2>2 DEF SessionsStep, login, authenticate, refresh, callback, validateSession, checkDevice,
                MarkWipeDelivered, ReadRefresh, RefreshCheck, consume, Exchange, IssueSession,
                RegisterDevice, answer, ResolveOIDCUser, LinkOIDCIdentity, Fail
  <2> QED BY <2>1, <2>2
<1>4. ASSUME NEW d \in Devices, WipeDevice(d) \/ RevokeDevice(d)
      PROVE  FALSE
  BY <1>4 DEF WipeDevice, RevokeDevice
<1>5. CASE start \/ Tick \/ RotateKey \/ Restart \/ UNCHANGED vars
  BY <1>5 DEF start, Tick, RotateKey, Restart, vars
<1>6. ASSUME NEW c \in Clients, UNCHANGED <<device, session, jar, flow, spent, provider>>
      PROVE  FALSE
  BY <1>6
<1> QED BY <1>1, <1>2, <1>3, <1>4, <1>5, <1>6 DEF Next

\* Whatever the interleaving of requests with the administrator's decisions, no request
\* that begins after its device was revoked or wiped makes or extends a session, and none
\* that begins after a wipe is answered.
THEOREM DevicesStayOutAlways == Spec => DevicesStayOut
<1>1. IInv /\ [Next]_vars =>
        [ /\ \A i \in DOMAIN session' :
               i \notin DOMAIN session \/ session'[i].token # session[i].token
               => \E c \in Clients : /\ req[c].at \in {"insert", "extend"} /\ req'[c] # req[c]
                                     /\ session'[i].dev \notin req[c].out
          /\ \A c \in Clients :
               req[c].at = "answer" /\ req'[c] # req[c] => req[c].dev \notin req[c].wipedOut ]_vars
  <2> SUFFICES ASSUME IInv, [Next]_vars
               PROVE  /\ \A i \in DOMAIN session' :
                           i \notin DOMAIN session \/ session'[i].token # session[i].token
                           => \E c \in Clients : /\ req[c].at \in {"insert", "extend"} /\ req'[c] # req[c]
                                                 /\ session'[i].dev \notin req[c].out
                      /\ \A c \in Clients :
                           req[c].at = "answer" /\ req'[c] # req[c] => req[c].dev \notin req[c].wipedOut
    OBVIOUS
  <2>1. ASSUME NEW c \in Clients, req[c].at = "answer" PROVE req[c].dev \notin req[c].wipedOut
    <3>1. StepOK(req[c]) /\ Decided(req[c]) /\ Refused(req[c])
      BY <2>1, Serving DEF IInv, RequestsOK, RequestOK
    <3> QED BY <2>1, <3>1 DEF StepOK, Decided, Refused
  <2> QED BY <2>1, OnlyIssued
<1> QED BY Invariance, <1>1, PTL DEF Spec, DevicesStayOut

\* The first identity of the provider that an account is linked to stays, and one sign-in
\* gives one session, however often the redirect comes back and the process restarts.
THEOREM LinkedOnceAlways == Spec => LinkedOnce
<1>1. IInv /\ [Next]_vars =>
        [ /\ user.oidc # None => user'.oidc = user.oidc
          /\ \A i, j \in DOMAIN session' :
               session'[i].flow # 0 /\ session'[i].flow = session'[j].flow => i = j ]_vars
  <2> SUFFICES ASSUME IInv, [Next]_vars
               PROVE  /\ user.oidc # None => user'.oidc = user.oidc
                      /\ \A i, j \in DOMAIN session' :
                           session'[i].flow # 0 /\ session'[i].flow = session'[j].flow => i = j
    OBVIOUS
  <2>1. user = [password |-> user.password, oidc |-> user.oidc, secret |-> user.secret,
                enabled |-> user.enabled, last |-> user.last, failures |-> user.failures,
                locked |-> user.locked]
    BY DEF IInv, AccountOK, UsersTypeOK
  <2>2. ASSUME NEW c \in Clients, UsersStep(c) PROVE user'.oidc = user.oidc
    <3>1. CASE \/ verify(c) \/ ConsumeRecoveryCode(c) \/ totpEnroll(c) \/ totpDisable(c)
               \/ StartTOTPEnrollment(c) \/ ConfirmTOTPEnrollment(c)
      BY <3>1 DEF verify, ConsumeRecoveryCode, totpEnroll, totpDisable, StartTOTPEnrollment,
                  ConfirmTOTPEnrollment, account
    <3>2. CASE SetTOTPLastCounter(c)
      BY <2>1, <3>2 DEF SetTOTPLastCounter
    <3>3. CASE recordTOTPFailure(c) \/ clearTOTPFailures(c) \/ StoreSecret(c) \/ Enable(c)
      BY <2>1, <3>3 DEF recordTOTPFailure, clearTOTPFailures, StoreSecret, Enable
    <3>4. CASE DisableTOTP(c)
      BY <2>1, <3>4 DEF DisableTOTP, NoFactor, Amend
    <3> QED BY <2>2, <3>1, <3>2, <3>3, <3>4 DEF UsersStep, secondFactor
  <2>3. ASSUME NEW c \in Clients, SessionsStep(c)
        PROVE  user' = user \/ user.oidc = None
    BY <2>3 DEF SessionsStep, login, authenticate, refresh, callback, validateSession, checkDevice,
                MarkWipeDelivered, ReadRefresh, RefreshCheck, RefreshSession, RevokeSession, consume,
                Exchange, IssueSession, InsertSession, RegisterDevice, answer, ResolveOIDCUser,
                LinkOIDCIdentity, Fail, account
  <2>4. ASSUME NEW d \in Devices, WipeDevice(d) \/ RevokeDevice(d) PROVE user' = user
    BY <2>4 DEF WipeDevice, RevokeDevice, account
  <2>5. ASSUME start \/ Tick \/ RotateKey \/ Restart \/ UNCHANGED vars PROVE user' = user
    BY <2>5 DEF start, Tick, RotateKey, Restart, vars, account
  <2>6. user.oidc # None => user'.oidc = user.oidc
    BY <2>2, <2>3, <2>4, <2>5 DEF Next
  <2>7. ProviderOK'
    BY StepIInv DEF IInv
  <2> QED BY <2>6, <2>7 DEF ProviderOK
<1> QED BY Invariance, <1>1, PTL DEF Spec, LinkedOnce
================================================================================
