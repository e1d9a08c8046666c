----------------------------- MODULE PingReads -----------------------------
(***************************************************************************)
(* What internal/store/sqlite/query.go and overview.go answer from the     *)
(* tables of Rollups.  A query runs in a read transaction, so it sees one  *)
(* state of the tables, which may be in the middle of a sweep; as_of is in *)
(* the tick `now`, so a range up to it ends before now + 1.  An answer     *)
(* maps the start of each point to what it counts.                         *)
(***************************************************************************)
EXTENDS Rollups

CONSTANT OverviewWindow \* of the overview; an hour at most

ASSUME OverviewAssumption == OverviewWindow \in 1 .. RawFloor

Anything == Slots \* no restriction to some source buckets
NoPoints == [p \in {} |-> Zero]
At(points, p) == IF p \in DOMAIN points THEN points[p] ELSE Zero
\* mergeQueryAggregate, of every point of b into a.
Merge(a, b) == [p \in DOMAIN a \cup DOMAIN b |-> Plus(At(a, p), At(b, p))]

\* queryRawAggregates: slots in [from, to); `allowed`, when not Anything, are
\* the source minutes whose rows count.  A source is also allowed by the first
\* minute of its hour, and missed slots are looked up by the start of the point.
Overdue_All(S) == S \* fault: a probe that may still be answered is unanswered
Overdue(S) == {s \in S : sample[s].sent + Timeout <= now}
Allows(allowed, t) == Bucket(t, M) \in allowed \/ Bucket(t, H) \in allowed
QueryRaw(from, to, width, allowed) ==
  LET rows == {s \in raw : from <= s /\ s < to /\ Allows(allowed, s)}
      Upto(p) == IF p + width < to THEN p + width ELSE to
      From(p) == IF p > from THEN p ELSE from
      missed == [p \in {Bucket(s, width) : s \in Slots} |->
                   IF Allows(allowed, p) /\ p < to /\ From(p) < Upto(p)
                     THEN MissedIn(From(p), Upto(p)) ELSE 0]
      points == {Bucket(s, width) : s \in rows} \cup {p \in DOMAIN missed : missed[p] > 0}
      Rows(p) == {s \in rows : Bucket(s, width) = p}
  IN  [p \in points |->
         Tally(Rows(p), Overdue(Rows(p)), missed[p])]

Table(resolution) == IF resolution = M THEN minute ELSE hour
\* queryRollupAggregates: buckets not in `skip` and, when `parents` is not
\* Anything, of an hour in `parents`.
QueryRollups(from, to, resolution, width, skip, parents) ==
  LET table == Table(resolution)
      buckets == {b \in DOMAIN table : /\ Bucket(from, resolution) <= b /\ b < to
                                       /\ b \notin skip
                                       /\ parents = Anything \/ Bucket(b, H) \in parents}
  IN  [p \in {Bucket(b, width) : b \in buckets} |->
         Total({b \in buckets : Bucket(b, width) = p}, table)]

DirtyMinutes_Over(to) == \* fault: only minutes of a dirty hour
  {m \in Minutes : <<M, m>> \in dirty /\ <<H, Bucket(m, H)>> \in dirty /\ m < to}
DirtyMinutes(to) == {m \in Minutes : <<M, m>> \in dirty /\ m < to}
\* overlayDirty: the points over a bucket that is dirty, or not over yet, are
\* built again: from the clean rollups, for hours from the clean minutes of the
\* hours replaced, and from the raw rows of the dirty minutes.
OverlayDirty(from, to, resolution, width, result) ==
  LET current(unit, since) == {b \in {Bucket(now, unit)} : since <= b /\ b < to}
      marked == {d \in dirty : d[1] <= resolution /\ d[2] < to}
      replace == current(resolution, from)
                   \cup {b \in {Bucket(d[2], resolution) : d \in marked} :
                           from - resolution <= b}
      dirtyMinutes == current(M, from - width) \cup DirtyMinutes(to)
      affected == {Bucket(b, width) : b \in replace}
      start == Min(affected)
      end == Max(affected) + width
      clean == QueryRollups(start, end, resolution, width, replace, Anything)
      finer == IF resolution = H
                 THEN QueryRollups(start, end, M, width, dirtyMinutes, replace) ELSE NoPoints
      rebuilt == IF dirtyMinutes = {} THEN Merge(clean, finer)
                 ELSE Merge(Merge(clean, finer), QueryRaw(start, end, width, dirtyMinutes))
  IN  IF replace = {} THEN result
      ELSE [p \in (DOMAIN result \ affected) \cup (affected \cap DOMAIN rebuilt) |->
              IF p \in affected THEN rebuilt[p] ELSE result[p]]

\* planSeriesResolution: the tier asked for when it reaches back to `from`,
\* else one that does; <<0, width>> stands for raw rows.  The target is known
\* from tick 0 on (first_seen_us), so seriesCoverageStart is `from`.
RawStart == Min(raw \cup {g.first : g \in gaps} \cup {MaxTime + 1})
Start(resolution) ==
  IF resolution = 0 THEN RawStart ELSE Min(DOMAIN Table(resolution) \cup {MaxTime + 1})
RoundWidth(width, base) == ((width + base - 1) \div base) * base
PlanSeriesResolution(desired, from) ==
  LET Covers(r) == Start(r) <= from
      Valid(r) == Start(r) <= MaxTime
      Take(r) == <<r, IF r = 0 THEN desired ELSE RoundWidth(desired, r)>>
  IN  CASE (desired >= H \/ ~(Covers(0) \/ Covers(M))) /\ Covers(H) -> Take(H)
        [] (desired >= M \/ ~Covers(0)) /\ Covers(M) -> Take(M)
        [] OTHER ->
             IF Covers(0) THEN Take(0)
             ELSE IF desired >= H /\ Valid(H) THEN Take(H)
             ELSE IF desired >= M /\ Valid(M) THEN Take(M)
             ELSE IF Valid(0) THEN Take(0)
             ELSE IF Valid(M) THEN Take(M)
             ELSE IF Valid(H) THEN Take(H) ELSE Take(0)

\* PingSeries, of the points with a width of `desired` or what its tier allows.
PingSeries(desired, from, to) ==
  LET plan == PlanSeriesResolution(desired, from)
      resolution == plan[1]
      width == plan[2]
  IN  IF resolution = 0 THEN QueryRaw(from, to, width, Anything)
      ELSE OverlayDirty(from, to, resolution, width,
             QueryRollups(from, to, resolution, width, {}, Anything))

\* overviewPing: clean whole minutes; raw rows for the rest, a stretch of
\* minutes without a clean row at a time.
OverviewPing(from, to) ==
  LET whole == IF Bucket(from, M) < from THEN Bucket(from, M) + M ELSE from
      minutes == QueryRollups(whole, Bucket(to - 1, M), M, M, DirtyMinutes(to), Anything)
      stretch == {m \in Minutes : Bucket(from, M) <= m /\ m < to} \ DOMAIN minutes
      piece == [m \in stretch |-> QueryRaw(IF m > from THEN m ELSE from,
                                          IF m + M < to THEN m + M ELSE to, M, Anything)]
  IN  [m \in DOMAIN minutes \cup {n \in stretch : piece[n] # NoPoints} |->
         IF m \in DOMAIN minutes THEN minutes[m] ELSE piece[m][m]]
-----------------------------------------------------------------------------
\* What an answer has to say of [from, to): everything observed, and a probe
\* that still may be answered is not unanswered.
Observed(from, to) ==
  LET rows == {s \in Slots : from <= s /\ s < to /\ sample[s] # NoSample}
  IN  Tally(rows, {s \in rows : sample[s].sent + Timeout <= now},
            Cardinality(MissedBy(gapLog) \cap (from .. to - 1)))
Exact(points, width, from, to) ==
  \A p \in {Bucket(t, width) : t \in from .. to - 1} :
    LET start == IF p > from THEN p ELSE from
        end == IF p + width < to THEN p + width ELSE to
    IN  At(points, p) = Observed(start, end)

\* The overview counts every observation of its window once, whatever part of
\* it is dirty, being swept or not yet a whole minute (overview.go:134, "No
\* raw/rollup observations are duplicated").
OverviewIsExact ==
  LET from == IF now >= OverviewWindow THEN now + 1 - OverviewWindow ELSE 0
  IN  Exact(OverviewPing(from, now + 1), M, from, now + 1)

\* A series of minutes counts every observation once, however old the minutes
\* that are dirty (docs/implementation-plan.md:415): from the first minute there
\* is, or from the start of the month that is kept when there are older ones.
MinuteSeriesIsExact ==
  LET from == Max({Start(M), Bucket(now - Month, H)})
  IN  from <= now => Exact(PingSeries(M, from, now + 1), M, from, now + 1)

\* The same of the points of an hour or more.
WideSeriesIsExact ==
  LET from == Bucket(Start(M) + H - 1, H)
      width == PlanSeriesResolution(H, from)[2]
  IN  from <= now => Exact(PingSeries(H, from, now + 1), width, from, now + 1)
=============================================================================
