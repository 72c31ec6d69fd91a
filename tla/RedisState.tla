----------------------------- MODULE RedisState -----------------------------
(***************************************************************************)
(* The two components that keep their state in redis, side by side: a      *)
(* cached row with its clients and a lock with its users.                  *)
(***************************************************************************)

CONSTANTS Clients, Fills, MaxVersion, MaxLapses, Users, LockObjects

VARIABLES
  db, value, until, owner, pc, loader, loaded, found, v, fills, late, failed, version, lapses,
  object, key, within, working

Row == INSTANCE Cache WITH Callers <- Clients
Lease == INSTANCE RedisLock

\* A cached row is stale only through FetchIndex or a failed Exec; see Cache.
StaleOnlyByIndex == Row!StaleOnlyByIndex

\* One holder within its lease; see RedisLock.
LeaseExclusive == Lease!LeaseExclusive

=============================================================================
