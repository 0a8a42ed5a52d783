------------------------------- MODULE IdCache -------------------------------
(***************************************************************************)
(* The duplicate filter of model/myprotocol4-id-cache.{h,cc}.  The vector  *)
(* m_idCache is searched linearly and never holds two unexpired entries    *)
(* for one (context, timestamp), so its order is immaterial and it is a    *)
(* set of records [context, timestamp, expire].                            *)
(***************************************************************************)
EXTENDS Naturals

\* m_lifetime: how long an identifier is remembered (2.4 s in the code).
CONSTANT IdLifetime

\* Mutants, used by no specification: Purge with "<=" for "<", a search that
\* compares the address only, IsDuplicate without its push_back, and with an
\* m_expire before now.
PurgeIdsEarly(cache, now) == {u \in cache : u.expire > now}
IsDuplicateByAddress(cache, addr, timestamp, now) ==
  \E u \in cache : u.expire >= now /\ u.context = addr
RememberNothing(cache, addr, timestamp, now) == {u \in cache : u.expire >= now}

RememberLapsed(cache, addr, timestamp, now) ==
  cache \cup {[context |-> addr, timestamp |-> timestamp, expire |-> now - IdLifetime]}

\* Purge: IsExpired is "m_expire < Now", so an entry survives its last tick.
PurgeIds(cache, now) == {u \in cache : u.expire >= now}

\* The value IsDuplicate returns: the search runs after the purge.
IsDuplicate(cache, addr, timestamp, now) ==
  \E u \in PurgeIds(cache, now) : u.context = addr /\ u.timestamp = timestamp

\* The cache IsDuplicate leaves: a hit does not refresh the entry.
Remember(cache, addr, timestamp, now) ==
  IF IsDuplicate(cache, addr, timestamp, now)
    THEN PurgeIds(cache, now)
    ELSE PurgeIds(cache, now) \cup
           {[context |-> addr, timestamp |-> timestamp, expire |-> now + IdLifetime]}
==============================================================================
