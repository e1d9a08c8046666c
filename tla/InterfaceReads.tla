--------------------------- MODULE InterfaceReads ---------------------------
(***************************************************************************)
(* InterfaceSeries of internal/store/sqlite/query.go over the tables of    *)
(* Interfaces: what was counted from `from` until `to`, by points, at the  *)
(* resolution of the tier that was chosen.  It runs in one read            *)
(* transaction.  A point is the sum over the interface's generations, of   *)
(* which any may have a dirty minute.                                      *)
(***************************************************************************)
EXTENDS Interfaces

LastBefore(g, t) ==
  LET before == {s \in Rows(g) : s.at < t} IN IF before = {} THEN {} ELSE {LastRow(before)}
\* queryInterfaceRaw: the differences between rows of a generation, from the
\* last row before the range on, each in the point of its later row.
RawRows(g, from, to) == {s \in Rows(g) : from <= s.at /\ s.at < to} \cup LastBefore(g, from)
Grown(s, from, to) ==
  LET before == {r \in RawRows(s.generation, from, to) : r.at < s.at}
  IN  IF before = {} THEN 0 ELSE s.counter - LastRow(before).counter
RawDelta(p, width, from, to) ==
  LET inPoint == {s \in UNION {RawRows(g, from, to) : g \in Ids} : Bucket(s.at, width) = p}
  IN  SumFunction([s \in inPoint |-> Grown(s, from, to)])

\* queryInterfaceRollupPoints, but for buckets in `skip` and, unless parents is
\* Everything, only those of an hour in `parents`.
Everything == Hours
Table(resolution) == IF resolution = M THEN minute ELSE hour
RollupDelta(p, width, resolution, from, to, skip, parents) ==
  LET inPoint == {k \in DOMAIN Table(resolution) :
                    /\ Bucket(from, resolution) <= k[2] /\ k[2] < to /\ Bucket(k[2], width) = p
                    /\ k[2] \notin skip /\ Bucket(k[2], H) \in parents}
  IN  SumFunction([k \in inPoint |-> Table(resolution)[k].delta])

\* Buckets the rollups are not to be taken for: the one of this moment, and
\* those dirty in any generation.
DirtyMinutes(from, to, width) ==
  {m \in {Bucket(now, M)} : m < to /\ from - width <= m}
    \cup {d[3] : d \in {e \in dirty : e[1] = M /\ e[3] < to}}
DirtyHours_Marked(from, to, width) == \* fault: only this hour and those marked
  {h \in {Bucket(now, H)} : h < to /\ from - width <= h}
    \cup {d[3] : d \in {e \in dirty : e[1] = H /\ e[3] < to}}
DirtyHours(from, to, width) ==
  {h \in {Bucket(now, H)} : h < to /\ from - width <= h}
    \cup {Bucket(d[3], H) : d \in {e \in dirty : e[3] < to}}
\* InterfaceSeries, at point p.
Series(p, width, resolution, from, to) ==
  LET minutes == DirtyMinutes(from, to, width)
      hours == DirtyHours(from, to, width)
      exposed == {m \in minutes : m + M > from /\ m < to /\ Bucket(m, width) = p}
      raw(m) == RawDelta(p, width, IF m < from THEN from ELSE m, IF m + M > to THEN to ELSE m + M)
  IN  RollupDelta(p, width, resolution, from, to,
                  IF resolution = H THEN hours ELSE minutes, Everything)
        + (IF resolution = H THEN RollupDelta(p, width, M, from, to, minutes, hours) ELSE 0)
        + SumFunction([m \in exposed |-> raw(m)])

\* Where a tier begins.
Start(resolution) == Min({k[2] : k \in DOMAIN Table(resolution)} \cup {MaxTime + 1})
\* From where its tier begins, a series shows everything that was counted, once,
\* whichever generations and minutes are dirty (query.go:1077).  A poll changes
\* no table: it is enough to look before it.
SeriesIsExact ==
  queue = <<>> => \A width \in {M, H} :
    \A p \in {Bucket(t, width) : t \in Start(width) .. now} :
      Series(p, width, width, Start(width), now + 1)
        = SumFunction([g \in Ids |-> Truth(g, p, Min({p + width, now + 1})).delta])
=============================================================================
