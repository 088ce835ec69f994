---------------------------------- MODULE Users ----------------------------------
(****************************************************************************)
(* kernel/identity, one account: its password, its second factor (TOTP),    *)
(* its recovery codes and its external identity. Every step of a request is *)
(* one transaction: what an earlier step read may be stale when a later one *)
(* writes.                                                                  *)
(*                                                                          *)
(* A code of the authenticator is the secret it is made from and the step   *)
(* of the clock it is made for; 0 stands for NULL in the columns.           *)
(****************************************************************************)
EXTENDS Naturals, FiniteSets, Sequences, Tables

CONSTANTS
  Clients,           \* requests being served at the same time
  MaxFailedAttempts, \* totpMaxFailedAttempts
  LockoutWindow,     \* totpLockoutWindow, in steps of the clock
  RecoveryCodes,     \* the codes of one set
  Subjects,          \* external identities of the provider
  Scenarios,         \* budgets: what may happen in one behaviour, and how often
  None

Kinds == {"login", "oidc", "refresh", "call", "logout", "enroll", "confirm", "disable",
          "start", "wipe", "revoke", "tick", "fail", "rotate", "restart"}

ASSUME UsersAssumption ==
  /\ MaxFailedAttempts \in Nat \ {0} /\ LockoutWindow \in Nat \ {0}
  /\ IsFiniteSet(Clients) /\ IsFiniteSet(RecoveryCodes)
  /\ Scenarios \subseteq [Kinds -> Nat]

VARIABLES
  now,       \* the clock, in TOTP steps
  user,      \* the row of users
  codes,     \* totp_recovery_codes: which set is stored, and which of it are used
  fresh,     \* how many secrets, sets of codes and tokens have been generated
  req,       \* req[c]: the request c is serving and the step it takes next
  accepted,  \* history: the <<set, code>> that let a request in, in order
  failed,    \* history: wrong second factors recorded since the last right one
  left       \* what the scenario still allows

account == <<user, codes, fresh, accepted, failed>>

Idle == [op |-> "idle", at |-> "idle"]
Goto(c, step) == req' = [req EXCEPT ![c].at = step]
End(c) == req' = [req EXCEPT ![c] = Idle]
Spend(k) == /\ left[k] > 0
            /\ left' = [left EXCEPT ![k] = @ - 1]

NoFactor == [secret |-> 0, enabled |-> FALSE, last |-> 0, failures |-> 0, locked |-> 0]
NoCodes == [set |-> 0, used |-> {}]

UsersTypeOK ==
  /\ now \in Nat \ {0}
  /\ user \in [password : BOOLEAN, oidc : Subjects \cup {None}, secret : 0..fresh.secret,
               enabled : BOOLEAN, last : 0..now + 1, failures : Nat,
               locked : 0..now + LockoutWindow]
  /\ codes \in [set : 0..fresh.set, used : SUBSET RecoveryCodes]
  /\ fresh \in [secret : Nat, set : Nat, token : Nat]
  /\ \A i \in DOMAIN accepted : accepted[i] \in (1..fresh.set) \X RecoveryCodes
  /\ failed \in Nat
  /\ left \in [Kinds -> Nat]

\* A new account with a password, one that already has a second factor, and one that
\* signs in through the identity provider alone.
UsersInit ==
  /\ now = 2
  /\ \E enrolled \in BOOLEAN, password \in BOOLEAN :
       /\ enrolled => password
       /\ user = Amend([password |-> password, oidc |-> None],
                       IF enrolled THEN [NoFactor EXCEPT !.secret = 1, !.enabled = TRUE, !.last = 1]
                                   ELSE NoFactor)
       /\ codes = [set |-> IF enrolled THEN 1 ELSE 0, used |-> {}]
       /\ fresh = [secret |-> IF enrolled THEN 1 ELSE 0, set |-> IF enrolled THEN 1 ELSE 0,
                   token |-> 1]
  /\ req = [c \in Clients |-> Idle]
  /\ accepted = <<>> /\ failed = 0
  /\ left \in Scenarios

\* What a caller may present: a password, right or wrong, and a code of either kind or
\* none. It may be an old one, or one from the near future of a clock that runs ahead.
Credentials ==
  [password : BOOLEAN, kind : {"none"}]
  \cup [password : {TRUE}, kind : {"totp"}, secret : 1..fresh.secret,
        step : {n \in now - 1 .. now + 1 : n > 0}]
  \cup [password : {TRUE}, kind : {"recovery"}, set : 1..fresh.set, code : RecoveryCodes]
--------------------------------------------------------------------------------
(* provider.go: the one decision every proof of identity goes through. *)

TOTPLockedAt(u, t) == t < u.locked

\* The code is one of the current step, the one before or the one after, of this secret,
\* and later than the last one used.
ValidateTOTP(u, creds, t) ==
  /\ creds.kind = "totp"
  /\ creds.secret = u.secret
  /\ creds.step \in {t, t - 1, t + 1}
  /\ creds.step > u.last

\* Where each operation continues once the caller has proved who it is.
Proved(op) == [login |-> "device", enroll |-> "start", disable |-> "disable"][op]

\* verify: reads the account, checks the password, and demands a second factor exactly
\* when the account has one.
verify(c) ==
  LET u == user creds == req[c].creds IN
  /\ req[c].at = "verify"
  /\ \/ /\ ~(u.password /\ creds.password) \/ (u.enabled /\ TOTPLockedAt(u, now))
        /\ End(c)
     \/ /\ u.password /\ creds.password /\ ~u.enabled
        /\ Goto(c, Proved(req[c].op))
     \/ /\ u.password /\ creds.password /\ u.enabled /\ ~TOTPLockedAt(u, now)
        /\ req' = [req EXCEPT ![c] = Amend(@, [u |-> u, t |-> now, at |-> "factor"])]
  /\ UNCHANGED <<now, account, left>>

\* Mutant: looks whether the code is unused in the row read earlier, then marks it.
ConsumeStale(c) ==
  LET creds == req[c].creds IN
  /\ req[c].at = "factor" /\ creds.kind = "recovery"
  /\ codes' = [codes EXCEPT !.used = @ \cup {creds.code}]
  /\ accepted' = Append(accepted, <<creds.set, creds.code>>)
  /\ Goto(c, "clear")
  /\ UNCHANGED <<now, user, fresh, failed, left>>

\* One statement marks the code used if it is there and unused.
ConsumeRecoveryCode(c) ==
  LET creds == req[c].creds
      consumed == creds.set = codes.set /\ creds.code \notin codes.used
  IN /\ req[c].at = "factor" /\ creds.kind = "recovery"
     /\ codes' = IF consumed THEN [codes EXCEPT !.used = @ \cup {creds.code}] ELSE codes
     /\ accepted' = IF consumed THEN Append(accepted, <<creds.set, creds.code>>) ELSE accepted
     /\ Goto(c, IF consumed THEN "clear" ELSE "failed")
     /\ UNCHANGED <<now, user, fresh, failed, left>>

\* The code is judged by the row and the time verify read; its step is then written
\* whatever the row holds by now.
SetTOTPLastCounter(c) ==
  LET creds == req[c].creds
      ok == ValidateTOTP(req[c].u, creds, req[c].t)
  IN /\ req[c].at = "factor" /\ creds.kind # "recovery"
     /\ user' = IF ok THEN [user EXCEPT !.last = creds.step] ELSE user
     /\ Goto(c, IF ok THEN "clear" ELSE "failed")
     /\ UNCHANGED <<now, codes, fresh, accepted, failed, left>>

\* Whichever of the two the caller presented.
secondFactor(c) == ConsumeRecoveryCode(c) \/ SetTOTPLastCounter(c)

\* Mutant: counts from the row verify read.
RecordFailureStale(c) ==
  /\ req[c].at = "failed"
  /\ user' = [user EXCEPT !.failures = req[c].u.failures + 1,
                          !.locked = IF req[c].u.failures + 1 >= MaxFailedAttempts
                                     THEN req[c].t + LockoutWindow ELSE @]
  /\ failed' = failed + 1
  /\ End(c)
  /\ UNCHANGED <<now, codes, fresh, accepted, left>>

\* Counts and locks in one statement, from the stored value.
recordTOTPFailure(c) ==
  /\ req[c].at = "failed"
  /\ user' = [user EXCEPT !.failures = @ + 1,
                          !.locked = IF user.failures + 1 >= MaxFailedAttempts
                                     THEN req[c].t + LockoutWindow ELSE @]
  /\ failed' = failed + 1
  /\ End(c)
  /\ UNCHANGED <<now, codes, fresh, accepted, left>>

clearTOTPFailures(c) ==
  /\ req[c].at = "clear"
  /\ user' = [user EXCEPT !.failures = 0, !.locked = 0]
  /\ failed' = 0
  /\ Goto(c, Proved(req[c].op))
  /\ UNCHANGED <<now, codes, fresh, accepted, left>>
--------------------------------------------------------------------------------
(* Enrolling, confirming and disabling the second factor. *)

\* The handlers look at the account before they ask for a proof.
totpEnroll(c) ==
  /\ req[c].at = "caller" /\ req[c].op = "enroll"
  /\ IF user.enabled \/ ~user.password THEN End(c) ELSE Goto(c, "verify")
  /\ UNCHANGED <<now, account, left>>

totpDisable(c) ==
  /\ req[c].at = "caller" /\ req[c].op = "disable"
  /\ IF user.enabled THEN Goto(c, "verify") ELSE End(c)
  /\ UNCHANGED <<now, account, left>>

\* It checks again by its own read, and then writes in another transaction.
StartTOTPEnrollment(c) ==
  /\ req[c].at = "start"
  /\ IF user.enabled \/ ~user.password THEN End(c) ELSE Goto(c, "enroll")
  /\ UNCHANGED <<now, account, left>>

\* The secret is pending: stored, not enabled. It replaces whatever is there by now.
StoreSecret(c) ==
  /\ req[c].at = "enroll"
  /\ fresh' = [fresh EXCEPT !.secret = @ + 1]
  /\ user' = [user EXCEPT !.secret = fresh.secret + 1, !.enabled = FALSE]
  /\ Goto(c, "answer")
  /\ UNCHANGED <<now, codes, accepted, failed, left>>

ConfirmTOTPEnrollment(c) ==
  LET ok == ~user.enabled /\ user.secret # 0 /\ ValidateTOTP(user, req[c].creds, now) IN
  /\ req[c].at = "confirm"
  /\ IF ok THEN Goto(c, "enable") ELSE End(c)
  /\ UNCHANGED <<now, account, left>>

newRecoveryCodes == [set |-> fresh.set + 1, used |-> {}]

\* The flag, the step used and a new set of recovery codes, in one transaction.
Enable(c) ==
  /\ req[c].at = "enable"
  /\ user' = [user EXCEPT !.enabled = TRUE, !.last = req[c].creds.step]
  /\ fresh' = [fresh EXCEPT !.set = @ + 1]
  /\ codes' = newRecoveryCodes
  /\ Goto(c, "answer")
  /\ UNCHANGED <<now, accepted, failed, left>>

DisableTOTP(c) ==
  /\ req[c].at = "disable"
  /\ codes' = NoCodes
  /\ user' = Amend(user, NoFactor)
  /\ failed' = 0
  /\ Goto(c, "answer")
  /\ UNCHANGED <<now, fresh, accepted, left>>

UsersStep(c) ==
  \/ verify(c) \/ secondFactor(c)
  \/ recordTOTPFailure(c) \/ clearTOTPFailures(c)
  \/ totpEnroll(c) \/ totpDisable(c) \/ StartTOTPEnrollment(c) \/ StoreSecret(c)
  \/ ConfirmTOTPEnrollment(c) \/ Enable(c) \/ DisableTOTP(c)
--------------------------------------------------------------------------------
(* Properties. *)

\* Recovery codes let one request in each, whatever requests race for them, and an
\* account with a second factor has a set of them stored, used up or not: enabling and
\* minting are one transaction. The user sees them later, in the answer, or not at all.
RecoveryWorks ==
  /\ \A i, j \in DOMAIN accepted : accepted[i] = accepted[j] => i = j
  /\ user.enabled => codes.set # 0

\* Wrong second factors are all counted since the last right one, however many requests
\* present them at once, and at the limit the account is locked: no failure is lost to
\* another that read the account before it. A right one resets both, and it may have
\* read the account before the lock (LockHolds).
LockoutCounts ==
  /\ user.failures = failed
  /\ failed >= MaxFailedAttempts => user.locked # 0

\* What recordTOTPFailure's comment warns of: no request "holding a pre-lock snapshot"
\* unlocks the account. A lock in force goes only with the factor itself.
LockHolds ==
  [][ now < user.locked /\ user'.locked < user.locked
      => \E c \in Clients : req[c].at = "disable" /\ req'[c] # req[c] ]_<<now, account, req>>
================================================================================
