-------------------------------- MODULE Cache --------------------------------
(***************************************************************************)
(* pkg/cache: rows of a database cached in redis under their primary key,  *)
(* and primary keys under a unique index.  Callers in several processes    *)
(* fetch one row by either key while others change it with Exec.  The      *)
(* rockscache client underneath (external) locks a missing or deleted key  *)
(* for one loader; a deleted key's old value is still returned, and loaded *)
(* anew in the background.                                                 *)
(***************************************************************************)
EXTENDS Integers, Sequences, FiniteSets

CONSTANTS
  Callers,
  Fills,       \* whether FetchIndex's fn stores the row in v, besides its key
  MaxVersion,  \* bound: changes of the row
  MaxLapses    \* bound: locks that time out and keys that expire

Keys == {"pk", "index"}

None == -1    \* no field value in redis
Blank == -2   \* the zero value of the row's type
NoRow == 0    \* no such row, and the empty string that redis keeps for it

VARIABLES
  db,      \* the row's version in the database
  value,   \* per key: its field value
  until,   \* per key: lockUntil, "none", "past" or "future"
  owner,   \* per key: lockOwner, as a set
  pc,      \* per caller
  loader,  \* per caller and key: the load it runs, in the background or not
  loaded,  \* per caller and key: what the load read
  found,   \* per caller: Fetch's found
  v,       \* per caller: FetchIndex's v
  fills,   \* what fn does
  late,    \* history: FetchIndex stored a row that had changed and been deleted
  failed,  \* history: an Exec could not delete the keys, and said so
  version, lapses

redis == <<value, until, owner>>
local == <<pc, loader, loaded, found, v>>
vars == <<db, redis, local, fills, late, failed, version, lapses>>

Init ==
  /\ db = 1 /\ version = 1
  /\ value = [k \in Keys |-> None] /\ until = [k \in Keys |-> "none"]
  /\ owner = [k \in Keys |-> {}]
  /\ pc = [c \in Callers |-> "idle"]
  /\ loader = [c \in Callers |-> [k \in Keys |-> "off"]]
  /\ loaded = [c \in Callers |-> [k \in Keys |-> None]]
  /\ found = [c \in Callers |-> FALSE] /\ v = [c \in Callers |-> Blank]
  /\ fills \in Fills
  /\ late = FALSE /\ failed = FALSE /\ lapses = 0

GoTo(c, phase) == pc' = [pc EXCEPT ![c] = phase]

-----------------------------------------------------------------------------
\* Fetch of a key: pc is the key, then these two.
Waiting(k) == IF k = "pk" THEN "wait_pk" ELSE "wait_index"
Got(k) == IF k = "pk" THEN "got_pk" ELSE "got_index"

Free(k) == until[k] = "past" \/ (until[k] = "none" /\ value[k] = None)

\* rocks.Fetch2: the caller becomes the loader, and waits only if there is no
\* value at all ...
Lock(c, k) ==
  /\ pc[c] = k /\ Free(k)
  /\ until' = [until EXCEPT ![k] = "future"] /\ owner' = [owner EXCEPT ![k] = {c}]
  /\ loader' = [loader EXCEPT ![c][k] = "load"]
  /\ GoTo(c, IF value[k] = None THEN Waiting(k) ELSE Got(k))
  /\ loaded' = [loaded EXCEPT ![c][k] = value[k]]
  /\ UNCHANGED <<db, value, found, v, fills, late, failed, version, lapses>>

\* ... or takes the value there is.  Without one it tries again later.
Hit(c, k) ==
  /\ pc[c] = k /\ ~Free(k) /\ value[k] # None
  /\ loaded' = [loaded EXCEPT ![c][k] = value[k]]
  /\ GoTo(c, Got(k))
  /\ UNCHANGED <<db, redis, loader, found, v, fills, late, failed, version, lapses>>

\* The function given to Fetch2: the row or, under the index, its key; an error
\* gives the lock up.  For the index, fn may store the row in v.
Load(c, k) ==
  /\ loader[c][k] = "load"
  /\ \/ /\ loader' = [loader EXCEPT ![c][k] = "set"]
        /\ loaded' = [loaded EXCEPT ![c][k] = IF k = "pk" \/ db = NoRow THEN db ELSE 1]
        /\ found' = [found EXCEPT ![c] = db # NoRow]
        /\ v' = IF db # NoRow /\ (k = "pk" \/ fills) THEN [v EXCEPT ![c] = db] ELSE v
        /\ UNCHANGED <<pc, redis>>
     \/ /\ loader' = [loader EXCEPT ![c][k] = "off"]
        /\ until' = IF owner[k] = {c} THEN [until EXCEPT ![k] = "past"] ELSE until
        /\ owner' = [owner EXCEPT ![k] = @ \ {c}]
        /\ IF pc[c] = Waiting(k) THEN GoTo(c, "error") ELSE UNCHANGED pc
        /\ UNCHANGED <<loaded, found, v, value>>
  /\ UNCHANGED <<db, fills, late, failed, version, lapses>>

\* The result is stored if the lock is still the loader's.
Set(c, k) ==
  /\ loader[c][k] = "set"
  /\ loader' = [loader EXCEPT ![c][k] = "off"]
  /\ IF owner[k] = {c}
     THEN /\ value' = [value EXCEPT ![k] = loaded[c][k]]
          /\ until' = [until EXCEPT ![k] = "none"] /\ owner' = [owner EXCEPT ![k] = {}]
     ELSE UNCHANGED redis
  /\ IF pc[c] = Waiting(k) THEN GoTo(c, Got(k)) ELSE UNCHANGED pc
  /\ UNCHANGED <<db, loaded, found, v, fills, late, failed, version, lapses>>

\* Fetch has a row, which is decoded into v, or the empty string: not found.
GotRow(c) ==
  /\ pc[c] = "got_pk"
  /\ IF loaded[c]["pk"] = NoRow THEN GoTo(c, "error") /\ UNCHANGED v
     ELSE GoTo(c, "done") /\ v' = [v EXCEPT ![c] = loaded[c]["pk"]]
  /\ UNCHANGED <<db, redis, loader, loaded, found, fills, late, failed, version, lapses>>

-----------------------------------------------------------------------------
\* The operations

\* A fetch, by primary key or by index; v is a new variable.
Begin(c) ==
  /\ pc[c] = "idle"
  /\ \E k \in Keys : GoTo(c, k)
  /\ UNCHANGED <<db, redis, loader, loaded, found, v, fills, late, failed, version, lapses>>

\* FetchIndex has the primary key.  Read from the database, it is taken to have
\* come with the row; otherwise the row is fetched.
GotIndex(c) ==
  /\ pc[c] = "got_index"
  /\ GoTo(c, IF loaded[c]["index"] = NoRow THEN "error" ELSE IF found[c] THEN "raw" ELSE "pk")
  /\ UNCHANGED <<db, redis, loader, loaded, found, v, fills, late, failed, version, lapses>>

\* rocks.RawSet: the row in v is stored whatever happened since it was read; an
\* error of redis is ignored.
RawSet(c) ==
  /\ pc[c] = "raw"
  /\ \/ /\ value' = [value EXCEPT !["pk"] = v[c]]
        /\ late' = (late \/ (v[c] # db /\ \A d \in Callers : pc[d] # "delete"))
     \/ UNCHANGED <<value, late>>
  /\ GoTo(c, "done")
  /\ UNCHANGED <<db, until, owner, loader, loaded, found, v, fills, failed, version, lapses>>

Change(n) == db' \in {n, NoRow} /\ version' = n
Tagged == /\ until' = [k \in Keys |-> "past"] /\ owner' = [k \in Keys |-> {}] /\ UNCHANGED value

\* Fault: Exec deletes the keys before it changes the row.
ExecDeletesFirst(c) ==
  /\ pc[c] \in {"idle", "delete"} /\ version < MaxVersion
  /\ IF pc[c] = "idle"
     THEN Tagged /\ GoTo(c, "delete") /\ UNCHANGED <<db, version>>
     ELSE Change(version + 1) /\ GoTo(c, "executed") /\ UNCHANGED redis
  /\ UNCHANGED <<loader, loaded, found, v, fills, late, failed, lapses>>

\* Exec: f changes the row, or fails and nothing more happens.
Exec(c) ==
  /\ pc[c] = "idle" /\ version < MaxVersion
  /\ \/ Change(version + 1) /\ GoTo(c, "delete")
     \/ GoTo(c, "error") /\ UNCHANGED <<db, version>>
  /\ UNCHANGED <<redis, loader, loaded, found, v, fills, late, failed, lapses>>

\* Deletes: both keys are marked, or the command fails and so does Exec.
Deletes(c) ==
  /\ pc[c] = "delete"
  /\ \/ Tagged /\ GoTo(c, "executed") /\ UNCHANGED failed
     \/ GoTo(c, "error") /\ failed' = TRUE /\ UNCHANGED redis
  /\ UNCHANGED <<db, loader, loaded, found, v, fills, late, version, lapses>>

\* A caller is done and may start again.
Again(c) ==
  /\ pc[c] \in {"done", "executed", "error"} /\ \A k \in Keys : loader[c][k] = "off"
  /\ pc' = [pc EXCEPT ![c] = "idle"] /\ v' = [v EXCEPT ![c] = Blank]
  /\ found' = [found EXCEPT ![c] = FALSE]
  /\ loaded' = [loaded EXCEPT ![c] = [k \in Keys |-> None]]
  /\ UNCHANGED <<db, redis, loader, fills, late, failed, version, lapses>>

\* Time passes in redis: a lock times out, a key expires.
Lapse(k) ==
  /\ lapses < MaxLapses /\ lapses' = lapses + 1
  /\ \/ until[k] = "future" /\ until' = [until EXCEPT ![k] = "past"] /\ UNCHANGED <<value, owner>>
     \/ /\ value' = [value EXCEPT ![k] = None] /\ until' = [until EXCEPT ![k] = "none"]
        /\ owner' = [owner EXCEPT ![k] = {}]
  /\ UNCHANGED <<db, local, fills, late, failed, version>>

Next ==
  \/ \E c \in Callers :
       \/ Begin(c) \/ GotRow(c) \/ GotIndex(c) \/ RawSet(c) \/ Exec(c) \/ Deletes(c) \/ Again(c)
       \/ \E k \in Keys : Lock(c, k) \/ Hit(c, k) \/ Load(c, k) \/ Set(c, k)
  \/ \E k \in Keys : Lapse(k)

Spec == Init /\ [][Next]_vars

-----------------------------------------------------------------------------

\* A row in redis that nobody will load anew is the database's, between the
\* change of a row and the deletion of its keys excepted.  Only two things make
\* it stale for good: an Exec that could not delete the keys and returned an
\* error, and FetchIndex, which stores a row it read earlier.
StaleOnlyByIndex ==
  (value["pk"] # None /\ until["pk"] = "none" /\ value["pk"] # db) =>
    late \/ failed \/ \E c \in Callers : pc[c] = "delete"

\* FetchIndex and Fetch return a row that the database had: "fn: query primary
\* index by unique index", "f: query value by primary index".
RowReturned == \A c \in Callers : pc[c] = "done" => v[c] # Blank

=============================================================================
