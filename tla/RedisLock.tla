------------------------------ MODULE RedisLock ------------------------------
(***************************************************************************)
(* pkg/lock: a lock is a key in redis with the value of the Lock object,   *)
(* made once in New, and a lease.  Unlock deletes the key if it has that   *)
(* value.  Replies may be lost; a Lock object may be shared by goroutines. *)
(***************************************************************************)
CONSTANTS Users, LockObjects

VARIABLES
  object,   \* per user: the Lock object it uses
  key,      \* the value of the key in redis, as a set
  within,   \* users that were told they have the lock, and whose lease has not ended
  working   \* users that were told so and have not called Unlock

lockVars == <<object, key, within, working>>

Init ==
  /\ object \in [Users -> LockObjects]
  /\ key = {} /\ within = {} /\ working = {}

\* Lock: SetNX with the lease; an error may hide a success.
Lock(u) ==
  /\ u \notin working
  /\ IF key = {}
     THEN /\ key' = {object[u]}
          /\ \/ within' = within \union {u} /\ working' = working \union {u}
             \/ UNCHANGED <<within, working>>
     ELSE UNCHANGED <<key, within, working>>
  /\ UNCHANGED object

\* Fault: the key is deleted whatever its value.
UnlockAny(u) ==
  /\ u \in working
  /\ key' = {}
  /\ within' = within \ {u} /\ working' = working \ {u}
  /\ UNCHANGED object

\* Unlock: the script compares and deletes in one step.
Unlock(u) ==
  /\ u \in working
  /\ key' = key \ {object[u]}
  /\ within' = within \ {u} /\ working' = working \ {u}
  /\ UNCHANGED object

\* The lease ends: redis drops the key, and with it every user's claim to it.
Expire ==
  /\ key # {}
  /\ key' = {}
  /\ within' = {u \in within : object[u] \notin key}
  /\ UNCHANGED <<object, working>>

Next == Expire \/ \E u \in Users : Lock(u) \/ Unlock(u)

Spec == Init /\ [][Next]_lockVars

-----------------------------------------------------------------------------

\* At most one user is within its lease, also when an earlier holder unlocks
\* after its own lease ended, or a reply was lost; unless one of the users
\* shares its Lock object, whose value does not tell its acquisitions apart.
LeaseExclusive ==
  (\A u, w \in Users : object[u] = object[w] => u = w) => \A u, w \in within : u = w

=============================================================================
