-------------------------------- MODULE Sessions ---------------------------------
(****************************************************************************)
(* Sessions and devices over Users: logging in with a password or through   *)
(* the identity provider, the gateway's authentication of every call,       *)
(* refreshing and revoking a session, and what an administrator does to a   *)
(* device. The rows of sessions and of devices are read and written in      *)
(* transactions of their own.                                               *)
(****************************************************************************)
EXTENDS Users

CONSTANTS
  Devices,       \* device ids; a browser without one is given an unused one
  SessionTTL,
  MinJWKSRefetch, \* minJWKSRefetch, in steps of the clock
  FlowTTL        \* oidcFlowTTL, likewise

ASSUME SessionsAssumption ==
  /\ SessionTTL \in Nat \ {0} /\ MinJWKSRefetch \in Nat /\ FlowTTL \in Nat
  /\ None \notin [revoked : BOOLEAN, wiped : BOOLEAN, delivered : BOOLEAN]

VARIABLES
  device,    \* device[d]: its row, None before it is registered
  session,   \* the rows of sessions
  jar,       \* jar[d]: the cookies of the browser that has id d, None without any
  flow,      \* sign-ins started at the provider
  spent,     \* spentStates: the flows this process has seen come back, and when
  provider   \* external: the provider's signing key and the codes it has redeemed;
             \* the client's cached key and when it was fetched

vars == <<now, account, req, left, device, session, jar, flow, spent, provider>>

NewDevice == [revoked |-> FALSE, wiped |-> FALSE, delivered |-> FALSE]
Registered(d) == device[d] # None
Wiped(d) == Registered(d) /\ device[d].wiped
Revoked(d) == Registered(d) /\ device[d].revoked

TypeOK ==
  /\ UsersTypeOK
  /\ device \in [Devices -> [revoked : BOOLEAN, wiped : BOOLEAN, delivered : BOOLEAN] \cup {None}]
  /\ \A i \in DOMAIN session :
       session[i] \in [dev : Devices, token : 1..fresh.token, expires : 0..now + SessionTTL,
                       revoked : BOOLEAN, flow : 0..flow]
  /\ \A d \in Devices : jar[d] # None => jar[d].sess \in DOMAIN session
  /\ spent \subseteq [flow : 1..flow, at : 0..now]
  /\ provider \in [key : Nat, cached : Nat, fetched : Nat, redeemed : SUBSET (1..flow)]
  /\ \A d \in Devices : Registered(d) /\ device[d].delivered => device[d].wiped

\* One device has a session already.
Init ==
  /\ UsersInit
  /\ \E d \in Devices :
       /\ device = [x \in Devices |-> IF x = d THEN NewDevice ELSE None]
       /\ session = <<[dev |-> d, token |-> 1, expires |-> now + SessionTTL,
                       revoked |-> FALSE, flow |-> 0]>>
       /\ jar = [x \in Devices |-> IF x = d THEN [sess |-> 1, token |-> 1] ELSE None]
  /\ flow = 0 /\ spent = {}
  /\ provider = [key |-> 1, cached |-> 1, fetched |-> now, redeemed |-> {}]
--------------------------------------------------------------------------------
(* Requests. `out` and `wipedOut` remember which devices an administrator had acted on
   when the request began; they are history. *)

Request(c, op, d, step, more) ==
  /\ req[c] = Idle /\ Spend(op)
  /\ req' = [req EXCEPT ![c] = Amend(more,
       [op |-> op, at |-> step, dev |-> d, out |-> {x \in Devices : Revoked(x) \/ Wiped(x)},
        wipedOut |-> {x \in Devices : Wiped(x)}])]

\* deviceID: the id in the cookie, or one nobody has.
Unused(d) == /\ ~Registered(d)
             /\ \A i \in DOMAIN session : session[i].dev # d
             /\ \A c \in Clients : req[c] # Idle => req[c].dev # d
deviceID == {d \in Devices : jar[d] # None \/ Unused(d)}

login(c) ==
  /\ \E d \in deviceID, creds \in Credentials :
       Request(c, "login", d, "verify", [creds |-> creds, flow |-> 0])
  /\ UNCHANGED <<now, account, device, session, jar, flow, spent, provider>>

\* An authenticated call: the gateway validates the token in the cookie first.
Authenticated == {"call", "logout", "enroll", "confirm", "disable"}
authenticate(c) ==
  /\ \E d \in Devices, op \in Authenticated, creds \in Credentials :
       /\ jar[d] # None
       /\ op \in {"call", "logout"} => creds = [password |-> TRUE, kind |-> "none"]
       /\ op = "enroll" => creds.kind = "none"
       /\ op = "confirm" => creds.kind = "totp"
       /\ Request(c, op, d, "session", [creds |-> creds, token |-> jar[d].token, again |-> FALSE])
  /\ UNCHANGED <<now, account, device, session, jar, flow, spent, provider>>

refresh(c) ==
  /\ \E d \in Devices :
       /\ jar[d] # None
       /\ Request(c, "refresh", d, "refresh", [sess |-> jar[d].sess])
  /\ UNCHANGED <<now, account, device, session, jar, flow, spent, provider>>
--------------------------------------------------------------------------------
(* Validating the token of an authenticated call. *)

\* The row is found by its token, which a refresh may have replaced meanwhile.
SessionOf(token) == {i \in DOMAIN session : session[i].token = token}
Live(i) == ~session[i].revoked /\ now <= session[i].expires

validateSession(c) ==
  /\ req[c].at = "session"
  /\ \/ \E i \in SessionOf(req[c].token) :
          Live(i) /\ req' = [req EXCEPT ![c] = Amend(@, [sess |-> i, at |-> "check"])]
     \/ /\ \A i \in SessionOf(req[c].token) : ~Live(i)
        /\ End(c)
  /\ UNCHANGED <<now, account, left, device, session, jar, flow, spent, provider>>

\* Where an authenticated request goes next; logout validates the token a second time.
Handler(c) ==
  CASE req[c].op = "call" -> "answer"
    [] req[c].op = "confirm" -> "confirm"
    [] req[c].op = "logout" -> IF req[c].again THEN "revoke" ELSE "session"
    [] OTHER -> "caller"

\* A session whose device is not registered is let through; a revoked device keeps its
\* session until that expires.
checkDevice(c) ==
  /\ req[c].at = "check"
  /\ IF Wiped(session[req[c].sess].dev)
     THEN Goto(c, "deliver")
     ELSE req' = [req EXCEPT ![c] = Amend(@, [again |-> TRUE, at |-> Handler(c)])]
  /\ UNCHANGED <<now, account, left, device, session, jar, flow, spent, provider>>

\* The refusal stands whether or not this write succeeds.
MarkWipeDelivered(c) ==
  /\ req[c].at = "deliver"
  /\ device' = [device EXCEPT ![req[c].dev].delivered = TRUE]
  /\ End(c)
  /\ UNCHANGED <<now, account, left, session, jar, flow, spent, provider>>
--------------------------------------------------------------------------------
(* Refreshing: the device is asked after the session row was read. *)

ReadRefresh(c) ==
  /\ req[c].at = "refresh"
  /\ IF session[req[c].sess].revoked THEN End(c) ELSE Goto(c, "recheck")
  /\ UNCHANGED <<now, account, left, device, session, jar, flow, spent, provider>>

\* Mutant: refreshing looks for a wipe only.
RefreshUnlessWiped(c) ==
  /\ req[c].at = "recheck"
  /\ IF Wiped(req[c].dev) THEN Goto(c, "deliver") ELSE Goto(c, "extend")
  /\ UNCHANGED <<now, account, left, device, session, jar, flow, spent, provider>>

RefreshCheck(c) ==
  /\ req[c].at = "recheck"
  /\ CASE Wiped(req[c].dev) -> Goto(c, "deliver")
       [] Revoked(req[c].dev) /\ ~Wiped(req[c].dev) -> End(c)
       [] OTHER -> Goto(c, "extend")
  /\ UNCHANGED <<now, account, left, device, session, jar, flow, spent, provider>>

\* The old token stops working; a session revoked meanwhile stays revoked.
RefreshSession(c) ==
  /\ req[c].at = "extend"
  /\ fresh' = [fresh EXCEPT !.token = @ + 1]
  /\ session' = [session EXCEPT ![req[c].sess] =
                   Amend(@, [token |-> fresh.token + 1, expires |-> now + SessionTTL])]
  /\ req' = [req EXCEPT ![c] = Amend(@, [token |-> fresh.token + 1, at |-> "answer"])]
  /\ UNCHANGED <<now, user, codes, accepted, failed, left, device, jar, flow, spent, provider>>

RevokeSession(c) ==
  /\ req[c].at = "revoke"
  /\ session' = [session EXCEPT ![req[c].sess].revoked = TRUE]
  /\ Goto(c, "answer")
  /\ UNCHANGED <<now, account, left, device, jar, flow, spent, provider>>
--------------------------------------------------------------------------------
(* Issuing a session: the device is asked, the row inserted, the device registered. *)

IssueSession(c) ==
  /\ req[c].at = "device"
  /\ IF Wiped(req[c].dev) \/ Revoked(req[c].dev) THEN End(c) ELSE Goto(c, "insert")
  /\ UNCHANGED <<now, account, left, device, session, jar, flow, spent, provider>>

InsertSession(c) ==
  /\ req[c].at = "insert"
  /\ fresh' = [fresh EXCEPT !.token = @ + 1]
  /\ session' = Append(session, [dev |-> req[c].dev, token |-> fresh.token + 1,
                                 expires |-> now + SessionTTL, revoked |-> FALSE,
                                 flow |-> req[c].flow])
  /\ req' = [req EXCEPT ![c] = Amend(@, [sess |-> Len(session) + 1, token |-> fresh.token + 1,
                                         at |-> "register"])]
  /\ UNCHANGED <<now, user, codes, accepted, failed, left, device, jar, flow, spent, provider>>

\* Logging in again never clears what an administrator decided.
RegisterDevice(c) ==
  /\ req[c].at = "register"
  /\ device' = IF Registered(req[c].dev) THEN device
               ELSE [device EXCEPT ![req[c].dev] = NewDevice]
  /\ Goto(c, "answer")
  /\ UNCHANGED <<now, account, left, session, jar, flow, spent, provider>>

\* The audit row is written, then the answer with its cookies. A logout clears them, the
\* device id too; a confirmation or any other call leaves them.
answer(c) ==
  /\ req[c].at = "answer"
  /\ jar' = CASE req[c].op \in {"login", "oidc", "refresh"} ->
                   [jar EXCEPT ![req[c].dev] = [sess |-> req[c].sess, token |-> req[c].token]]
              [] req[c].op = "logout" -> [jar EXCEPT ![req[c].dev] = None]
              [] OTHER -> jar
  /\ End(c)
  /\ UNCHANGED <<now, account, left, device, session, flow, spent, provider>>
--------------------------------------------------------------------------------
(* Signing in through the identity provider. *)

start ==
  /\ Spend("start")
  /\ flow' = flow + 1
  /\ UNCHANGED <<now, account, req, device, session, jar, spent, provider>>

\* The provider's redirect comes back with a code for a flow, asserting a subject whose
\* address it has verified or not. One redirect may come back twice.
callback(c) ==
  /\ \E d \in deviceID, f \in 1..flow, subject \in Subjects, verified \in BOOLEAN :
       Request(c, "oidc", d, "callback", [flow |-> f, subject |-> subject, verified |-> verified])
  /\ UNCHANGED <<now, account, device, session, jar, flow, spent, provider>>

\* A state is refused the second time; the ones older than FlowTTL are swept first.
consume(c) ==
  LET kept == {x \in spent : now - x.at <= FlowTTL}
      seen == \E x \in kept : x.flow = req[c].flow
  IN /\ req[c].at = "callback"
     /\ spent' = IF seen THEN kept ELSE kept \cup {[flow |-> req[c].flow, at |-> now]}
     /\ IF seen THEN End(c) ELSE Goto(c, "exchange")
     /\ UNCHANGED <<now, account, left, device, session, jar, flow, provider>>

\* keySet: an unknown key has the keys fetched again, but not more often than
\* MinJWKSRefetch.
Known == provider.cached = provider.key
Refetch == ~Known /\ now - provider.fetched >= MinJWKSRefetch

\* External: the provider redeems a code once.
Redeems(f) == f \notin provider.redeemed

Exchange(c) ==
  LET refetch == Redeems(req[c].flow) /\ Refetch IN
  /\ req[c].at = "exchange"
  /\ provider' = [provider EXCEPT !.redeemed = @ \cup {req[c].flow},
                                  !.cached = IF refetch THEN provider.key ELSE @,
                                  !.fetched = IF refetch THEN now ELSE @]
  /\ IF Redeems(req[c].flow) /\ (Known \/ Refetch) THEN Goto(c, "resolve") ELSE End(c)
  /\ UNCHANGED <<now, account, left, device, session, jar, flow, spent>>

GetUserByOIDCSubject(subject) == user.oidc = subject

\* By subject, or by a verified address (the account's) that is then linked.
ResolveOIDCUser(c) ==
  /\ req[c].at = "resolve"
  /\ CASE GetUserByOIDCSubject(req[c].subject) -> Goto(c, "device")
       [] ~GetUserByOIDCSubject(req[c].subject) /\ req[c].verified -> Goto(c, "link")
       [] OTHER -> End(c)
  /\ UNCHANGED <<now, account, left, device, session, jar, flow, spent, provider>>

\* Mutant: the account is linked to the subject that signed in last.
LinkAlways(c) ==
  /\ req[c].at = "link"
  /\ user' = [user EXCEPT !.oidc = req[c].subject]
  /\ Goto(c, "device")
  /\ UNCHANGED <<now, codes, fresh, accepted, failed, left, device, session, jar, flow, spent, provider>>

\* One statement links an account that is not linked.
LinkOIDCIdentity(c) ==
  /\ req[c].at = "link"
  /\ user' = IF user.oidc = None THEN [user EXCEPT !.oidc = req[c].subject] ELSE user
  /\ IF user.oidc = None THEN Goto(c, "device") ELSE End(c)
  /\ UNCHANGED <<now, codes, fresh, accepted, failed, left, device, session, jar, flow, spent, provider>>

\* External: the provider changes its signing key.
RotateKey ==
  /\ Spend("rotate")
  /\ provider' = [provider EXCEPT !.key = @ + 1]
  /\ UNCHANGED <<now, account, req, device, session, jar, flow, spent>>
--------------------------------------------------------------------------------
(* Administrators, the clock and failures. *)

\* A stamp that is there already stays.
stamp(d, column) == device' = [device EXCEPT ![d] = [@ EXCEPT ![column] = TRUE]]

WipeDevice(d) ==
  /\ Registered(d) /\ Spend("wipe")
  /\ stamp(d, "wiped")
  /\ UNCHANGED <<now, account, req, session, jar, flow, spent, provider>>

RevokeDevice(d) ==
  /\ Registered(d) /\ Spend("revoke")
  /\ stamp(d, "revoked")
  /\ UNCHANGED <<now, account, req, session, jar, flow, spent, provider>>

Tick ==
  /\ Spend("tick")
  /\ now' = now + 1
  /\ UNCHANGED <<account, req, device, session, jar, flow, spent, provider>>

\* A statement fails, or the answer is lost: what was committed before stays.
Fail(c) ==
  /\ req[c] # Idle /\ Spend("fail")
  /\ End(c)
  /\ UNCHANGED <<now, account, device, session, jar, flow, spent, provider>>

\* The process starts again: requests die, the states it remembered are gone, and
\* newOIDCLogin fetches the keys.
Restart ==
  /\ Spend("restart")
  /\ req' = [c \in Clients |-> Idle]
  /\ spent' = {}
  /\ provider' = [provider EXCEPT !.cached = provider.key, !.fetched = now]
  /\ UNCHANGED <<now, account, device, session, jar, flow>>

SessionsStep(c) ==
  \/ login(c) \/ authenticate(c) \/ refresh(c) \/ callback(c)
  \/ validateSession(c) \/ checkDevice(c) \/ MarkWipeDelivered(c)
  \/ ReadRefresh(c) \/ RefreshCheck(c) \/ RefreshSession(c) \/ RevokeSession(c)
  \/ IssueSession(c) \/ InsertSession(c) \/ RegisterDevice(c) \/ answer(c)
  \/ consume(c) \/ Exchange(c) \/ ResolveOIDCUser(c) \/ LinkOIDCIdentity(c)
  \/ Fail(c)

Next ==
  \/ \E c \in Clients : \/ SessionsStep(c)
                        \/ UsersStep(c) /\ UNCHANGED <<device, session, jar, flow, spent, provider>>
  \/ \E d \in Devices : WipeDevice(d) \/ RevokeDevice(d)
  \/ start \/ Tick \/ RotateKey \/ Restart

Spec == Init /\ [][Next]_vars
--------------------------------------------------------------------------------
(* Properties. *)

\* A device an administrator has revoked or wiped gets no session and no longer one: only
\* a request that had begun before may still create or extend it. No call that begins
\* after a wipe is served.
DevicesStayOut ==
  [][ /\ \A i \in DOMAIN session' :
           i \notin DOMAIN session \/ session'[i].token # session[i].token
           => \E c \in Clients : /\ req[c].at \in {"insert", "extend"} /\ req'[c] # req[c]
                                 /\ session'[i].dev \notin req[c].out
      /\ \A c \in Clients :
           req[c].at = "answer" /\ req'[c] # req[c] => req[c].dev \notin req[c].wipedOut ]_vars

\* An account keeps the external identity it was first linked to, and one sign-in at the
\* provider gives one session, restarts included: the process forgets the flow but the
\* provider does not redeem its code twice.
LinkedOnce ==
  [][ /\ user.oidc # None => user'.oidc = user.oidc
      /\ \A i, j \in DOMAIN session' :
           session'[i].flow # 0 /\ session'[i].flow = session'[j].flow => i = j ]_vars
================================================================================
