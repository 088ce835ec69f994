------------------------------- MODULE MCReplica -------------------------------
(* Small instances of Replica: two objects, one row each, and one row of the  *)
(* first object that a command creates.                                       *)
EXTENDS Replica, TLC

CONSTANTS c1, c2, c3, c4, c5

MCObjectOf == 1 :> 1 @@ 2 :> 2 @@ 3 :> 1

\* c1, c2 and c3 are of different rows; c3 then c4 create a row and change it; c1
\* and c5 are two changes of one row.
MCMethodOf == c1 :> "PATCH" @@ c2 :> "DELETE" @@ c3 :> "POST" @@ c4 :> "PATCH" @@ c5 :> "PATCH"
MCRowOf == c1 :> 1 @@ c2 :> 2 @@ c3 :> 3 @@ c4 :> 3 @@ c5 :> 1

Calm(writes) == [write |-> writes, edit |-> 0, reject |-> 0, busy |-> 0, lost |-> 0,
                 offline |-> 0, grant |-> 0, module |-> 0, wipe |-> 0]
Fresh(b) == [budget |-> b, hydrated |-> FALSE]
InStep(b) == [budget |-> b, hydrated |-> TRUE]

\* Others write; commands are refused; a replica is filled, with edits in between.
MCConverges ==
  {InStep([Calm({c1, c2, c3}) EXCEPT !.edit = 2, !.busy = 1, !.offline = 1]),
   InStep([Calm({c1, c2, c3}) EXCEPT !.reject = 3, !.busy = 2, !.offline = 1]),
   Fresh([Calm({c1}) EXCEPT !.edit = 2, !.busy = 1, !.offline = 2, !.grant = 1])}

\* Two changes of one row, with lost answers; a row created and changed while a grant comes
\* and goes, or on a new device while a module is switched off and on; a wipe.
MCSettles ==
  {InStep([Calm({c1, c5}) EXCEPT !.edit = 1, !.reject = 1, !.busy = 1, !.lost = 2, !.offline = 1]),
   InStep([Calm({c3, c4}) EXCEPT !.reject = 1, !.lost = 1, !.offline = 1, !.grant = 2, !.wipe = 1]),
   Fresh([Calm({c3, c4}) EXCEPT !.reject = 1, !.lost = 1, !.offline = 1, !.module = 2, !.wipe = 1])}

\* A command is executed, its answer is lost, and the gateway refuses the re-send.
MCLateRefusal == {InStep([Calm({c1}) EXCEPT !.lost = 1, !.reject = 1])}

\* One edit while a replica is being filled.
MCSnapshotRace == {Fresh([Calm({}) EXCEPT !.edit = 1])}
================================================================================
