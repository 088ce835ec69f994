---------------------------------- MODULE Vault ----------------------------------
(****************************************************************************)
(* kernel/secrets and kernel/outbound: the stored secrets, the key file     *)
(* they are wrapped under, its rotation by `lasterp secrets rotate` while   *)
(* the server runs, and the destinations whose URL is a secret.             *)
(*                                                                          *)
(* A secret is sealed under a data key of its own, which is stored wrapped  *)
(* under a key of the file. Sealing is perfect: a value opens with the key  *)
(* it was sealed under, and with no other. Of the value, a URL, the model   *)
(* keeps the host.                                                          *)
(****************************************************************************)
EXTENDS Authz

CONSTANTS
  Names,         \* names of secrets, in their order
  Keys,          \* ids of keys of the file, in the order they are made
  Destinations,  \* ids of destinations
  Hosts

ASSUME VaultAssumption == Names \subseteq Nat /\ Keys \subseteq Nat /\ 1 \in Keys /\ IsFiniteSet(Names)

VARIABLES
  file,          \* the key file: its current key, and the keys it holds
  loaded,        \* the key file as the running server read it when it started
  secrets,       \* the table secrets, a function from names
  destinations,  \* outbound_destinations, a function from ids to [host, secret]
  cli,           \* the rotation in progress in the operator's process
  drained        \* the key the last rotation that ended well was for

vault == <<file, loaded, secrets, destinations, cli, drained>>

NoRotation == [at |-> "idle"]

VaultInit ==
  /\ file = [current |-> 1, keys |-> {1}]
  /\ loaded = file
  /\ \E h \in Hosts :
       secrets = Row(Min(Names), [key |-> 1, wrapped |-> 1, sealed |-> 1, host |-> h])
  /\ destinations = <<>>
  /\ cli = NoRotation
  /\ drained = 0

VaultTypeOK ==
  /\ file \in [current : Keys, keys : SUBSET Keys] /\ loaded \in [current : Keys, keys : SUBSET Keys]
  /\ DOMAIN secrets \subseteq Names
  /\ \A n \in DOMAIN secrets :
       secrets[n] \in [key : Keys, wrapped : 1..fresh.dek, sealed : 1..fresh.dek, host : Hosts]
  /\ DOMAIN destinations \subseteq Destinations
  /\ \A d \in DOMAIN destinations : destinations[d] \in [host : Hosts, secret : Names]
  /\ drained \in Keys \cup {0}
--------------------------------------------------------------------------------
(* secrets.go. *)

\* Unwrap and open: the key is in the source, and it gives the data key of the value.
Opens(row, src) == row.key \in src.keys /\ row.wrapped = row.sealed

Authorized(u, perm) == Can(u, perm)

\* Mutant: replacing a secret replaces its value and leaves the wrapped data key.
PutForgetsDataKey(c) ==
  LET t == task[c]
      row == [key |-> loaded.current, wrapped |-> fresh.dek + 1, sealed |-> fresh.dek + 1, host |-> t.host]
  IN /\ At(c, "put", "put")
     /\ fresh' = [fresh EXCEPT !.dek = @ + 1]
     /\ secrets' = IF t.name \in DOMAIN secrets
                   THEN [secrets EXCEPT ![t.name].sealed = fresh.dek + 1, ![t.name].host = t.host]
                   ELSE Amend(secrets, Row(t.name, row))
     /\ End(c)
     /\ UNCHANGED <<tables, scenario, left, file, loaded, destinations, cli, drained>>

\* A new data key each time, wrapped under the current key of the running server.
Put(c) ==
  LET t == task[c] IN
  /\ At(c, "put", "put")
  /\ fresh' = [fresh EXCEPT !.dek = @ + 1]
  /\ secrets' = Amend(secrets, Row(t.name, [key |-> loaded.current, wrapped |-> fresh.dek + 1,
                                            sealed |-> fresh.dek + 1, host |-> t.host]))
  /\ End(c)
  /\ UNCHANGED <<tables, scenario, left, file, loaded, destinations, cli, drained>>

\* Deleting a secret that is not there is an answer of its own.
DeleteSecret(c) ==
  /\ At(c, "drop", "drop")
  /\ secrets' = Restrict(secrets, DOMAIN secrets \ {task[c].name})
  /\ End(c)
  /\ UNCHANGED <<tables, scenario, fresh, left, file, loaded, destinations, cli, drained>>

\* putSecret and deleteSecret authorize, then act in another transaction.
BeginSecret(c) ==
  /\ task[c] = Idle
  /\ \E u \in Users, n \in Names, h \in Hosts, op \in {"put", "drop"} :
       /\ Spend(op) /\ Authorized(u, "secret")
       /\ task' = [task EXCEPT ![c] = [op |-> op, at |-> op, name |-> n, host |-> h]]
  /\ UNCHANGED <<tables, scenario, fresh, vault>>
--------------------------------------------------------------------------------
(* rotate.go, run by the operator while the server serves. *)

\* The names under another key than the current one of the file, read once.
RotateList ==
  /\ cli = NoRotation /\ Spend("rotate")
  /\ scenario.careful => loaded = file
  /\ cli' = [at |-> "read", src |-> file,
             stale |-> {n \in DOMAIN secrets : secrets[n].key # file.current}]
  /\ UNCHANGED <<tables, scenario, fresh, task, file, loaded, secrets, destinations, drained>>

\* rewrap reads the row: one that is gone, or that does not unwrap, ends the rotation; one
\* that is under the current key by now is left alone.
RewrapRead ==
  /\ cli.at = "read" /\ cli.stale # {}
  /\ LET n == Min(cli.stale) IN
     cli' = IF n \notin DOMAIN secrets THEN NoRotation
            ELSE IF secrets[n].key = cli.src.current THEN [cli EXCEPT !.stale = @ \ {n}]
            ELSE IF secrets[n].key \notin cli.src.keys THEN NoRotation
            ELSE Amend(cli, [row |-> secrets[n], at |-> "write"])
  /\ UNCHANGED <<tables, scenario, fresh, task, left, file, loaded, secrets, destinations, drained>>

\* ... and writes the data key it read, wrapped anew. Postgres lets another transaction
\* write the row in between; SQLite makes this one start again.
RewrapWrite ==
  LET n == Min(cli.stale)
      same == n \in DOMAIN secrets /\ secrets[n] = cli.row
  IN /\ cli.at = "write"
     /\ \/ /\ scenario.dialect = "sqlite" /\ ~same
           /\ cli' = [cli EXCEPT !.at = "read"] /\ UNCHANGED secrets
        \/ /\ scenario.dialect = "sqlite" => same
           /\ secrets' = IF n \in DOMAIN secrets
                         THEN [secrets EXCEPT ![n].key = cli.src.current,
                                              ![n].wrapped = cli.row.wrapped]
                         ELSE secrets
           /\ cli' = [cli EXCEPT !.at = "read", !.stale = @ \ {n}]
     /\ UNCHANGED <<tables, scenario, fresh, task, left, file, loaded, destinations, drained>>

RotateDone ==
  /\ cli.at = "read" /\ cli.stale = {}
  /\ cli' = NoRotation /\ drained' = cli.src.current
  /\ UNCHANGED <<tables, scenario, fresh, task, left, file, loaded, secrets, destinations>>

\* The process of the operator dies, or one of its statements fails.
RotateDies ==
  /\ cli # NoRotation /\ Spend("fail")
  /\ cli' = NoRotation
  /\ UNCHANGED <<tables, scenario, fresh, task, file, loaded, secrets, destinations, drained>>

\* docs/09: the new key is added and made current; the old one is removed after a rotation
\* to the current key. Under way is neither while a rotation runs.
NewKey ==
  /\ cli = NoRotation /\ Spend("newkey")
  /\ \E k \in Keys \ file.keys : /\ k > file.current
                                 /\ file' = [current |-> k, keys |-> file.keys \cup {k}]
  /\ UNCHANGED <<tables, scenario, fresh, task, loaded, secrets, destinations, cli, drained>>

RetireKey ==
  /\ cli = NoRotation /\ drained = file.current /\ Spend("retire")
  /\ \E k \in file.keys \ {file.current} : file' = [file EXCEPT !.keys = @ \ {k}]
  /\ UNCHANGED <<tables, scenario, fresh, task, loaded, secrets, destinations, cli, drained>>

\* The server is started again: it reads the file, and what it was doing is over.
Restart ==
  /\ Spend("restart")
  /\ loaded' = file
  /\ task' = [c \in Clients |-> Idle]
  /\ UNCHANGED <<tables, scenario, fresh, file, secrets, destinations, cli, drained>>
--------------------------------------------------------------------------------
(* outbound/destination.go. *)

\* resolveURL: the secret opens, and its URL still points at the host of the row.
Resolves(dest) ==
  /\ dest.secret \in DOMAIN secrets
  /\ Opens(secrets[dest.secret], loaded)
  /\ secrets[dest.secret].host = dest.host

BeginDestination(c) ==
  /\ task[c] = Idle
  /\ \E u \in Users, d \in Destinations, dest \in [host : Hosts, secret : Names],
        op \in {"register", "unregister"} :
       /\ Spend(op) /\ Authorized(u, "manage")
       /\ task' = [task EXCEPT ![c] = [op |-> op, at |-> "check", dest |-> d, row |-> dest]]
  /\ UNCHANGED <<tables, scenario, fresh, vault>>

\* Register: the secret is opened in one transaction, the row written in the next.
RegisterCheck(c) ==
  /\ At(c, "register", "check")
  /\ IF Resolves(task[c].row) THEN Goto(c, "write") ELSE End(c)
  /\ UNCHANGED <<tables, scenario, fresh, left, vault>>

RegisterWrite(c) ==
  /\ At(c, "register", "write")
  /\ destinations' = Amend(destinations, Row(task[c].dest, task[c].row))
  /\ End(c)
  /\ UNCHANGED <<tables, scenario, fresh, left, file, loaded, secrets, cli, drained>>

\* deleteDestination: 404 for one that is not there.
DeleteDestination(c) ==
  /\ At(c, "unregister", "check")
  /\ destinations' = Restrict(destinations, DOMAIN destinations \ {task[c].dest})
  /\ End(c)
  /\ UNCHANGED <<tables, scenario, fresh, left, file, loaded, secrets, cli, drained>>

VaultNext ==
  \/ RotateList \/ RewrapRead \/ RewrapWrite \/ RotateDone \/ RotateDies
  \/ NewKey \/ RetireKey \/ Restart
  \/ \E c \in Clients : \/ BeginSecret(c) \/ Put(c) \/ DeleteSecret(c)
                        \/ BeginDestination(c) \/ RegisterCheck(c) \/ RegisterWrite(c)
                        \/ DeleteDestination(c)
--------------------------------------------------------------------------------
\* Every stored secret opens with the keys of the file, whatever Put, Delete, a rotation that
\* stops half-way and starts again, and the removal of an old key do in between: what
\* docs/09 promises of its procedure, in which the old key is removed last. The code keeps
\* it for a careful operator only.
SecretsOpen == \A n \in DOMAIN secrets : Opens(secrets[n], file)

\* The operator restarts the server after a new key and before the rotation, so that it
\* seals under the new key, and the database is SQLite, where nobody writes a row between
\* the two statements of a rewrap.
Careful == scenario.careful /\ scenario.dialect = "sqlite"

\* For a careful operator the data key stored beside a value is the one it was sealed under,
\* and the key it is wrapped under is still in the file, however often a rotation stops and
\* is run again while secrets are put and dropped.
CarefulSecretsOpen == Careful => SecretsOpen
================================================================================
