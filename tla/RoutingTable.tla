---------------------------- MODULE RoutingTable -----------------------------
(***************************************************************************)
(* The position table of model/myprotocol4-rtable.cc: a map from address   *)
(* to entry, held as a set of records with at most one record per adress   *)
(* (the source's spelling).  The operators read only the fields adress and *)
(* timestamp; what else an entry carries is the caller's.                  *)
(***************************************************************************)
EXTENDS Naturals

\* m_entryLifeTime, in seconds (30 in the code).
CONSTANT EntryLifeTime

\* LookupRoute: whether the table holds the address, and the entry it holds.
HasRoute(table, addr) == \E r \in table : r.adress = addr
LookupRoute(table, addr) == CHOOSE r \in table : r.adress = addr

\* AddRoute is std::map::insert: an existing entry wins.
AddRoute(table, rt) ==
  IF HasRoute(table, rt.adress) THEN table ELSE table \cup {rt}

\* Mutant, used by no specification: Update by std::map::insert.
UpdateInserts(table, rt) == AddRoute(table, rt)

\* Update overwrites whatever is there, older or newer.
Update(table, rt) == {r \in table : r.adress # rt.adress} \cup {rt}

\* Mutant, used by no specification: what is older replaces what is newer.
MergeOlder(table, rt) ==
  IF HasRoute(table, rt.adress) /\ LookupRoute(table, rt.adress).timestamp < rt.timestamp
    THEN table ELSE Update(table, rt)

\* What Forwarding (routing-protocol.cc) does with the position in a data header:
\* the table takes it if it is newer, or the table has none.
Merge(table, rt) ==
  IF HasRoute(table, rt.adress) /\ LookupRoute(table, rt.adress).timestamp >= rt.timestamp
    THEN table ELSE Update(table, rt)

\* Mutant, used by no specification: an entry lives a second too long.
PurgeRoutesLate(table, seconds) ==
  {r \in table : EntryLifeTime + r.timestamp >= seconds}

\* Purge: an entry is expired once its lifetime has passed in whole seconds.
PurgeRoutes(table, seconds) ==
  {r \in table : EntryLifeTime + r.timestamp > seconds}
==============================================================================
