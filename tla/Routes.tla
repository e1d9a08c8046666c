------------------------------ MODULE Routes ------------------------------
(***************************************************************************)
(* The traces and route changes that are stored                            *)
(* (internal/store/sqlite/events_extra.go), and how retention              *)
(* (retention.go) deletes them, composed with the tracer that makes the    *)
(* traces.                                                                 *)
(*                                                                         *)
(* Of a row of trace_runs the model keeps what is read again: its id, its  *)
(* target and its day.  Time is counted in days.  The bus keeps results in *)
(* order and the writer stores one transaction after another: where a      *)
(* result waits, and whether retention runs during a trace, is seen by     *)
(* nobody.                                                                 *)
(***************************************************************************)
EXTENDS Traceroute

CONSTANTS MaxDays,                       \* bound: the clock
          TraceRetention, ChangeRetention, \* trace_retention and hour_retention, in days
          TraceFloor, ChangeFloor        \* the same under storage pressure

ASSUME RetentionAssumption ==
  /\ {MaxDays, TraceRetention, ChangeRetention, TraceFloor, ChangeFloor} \subseteq Nat

VARIABLES today,
          trace_runs,       \* rows of the table: [id, target, day]
          route_candidates, \* of each target: its row, or NoRow
          route_changes,    \* rows of the table
          recent            \* of each target: the last completed trace stored

storeVars == <<trace_runs, route_candidates, route_changes, recent>>
vars == <<tracerVars, today, storeVars>>

NoRow == [current |-> 0]
NoTrace == [id |-> 0]

\* The columns a route is told by.
Route(r) == [signature |-> r.signature, reachedHop |-> r.reachedHop]
Flow(r) == [endpoint |-> r.endpoint, method |-> r.method, source |-> r.source]

TypeOK ==
  /\ TracerTypeOK
  /\ today \in 0 .. MaxDays
  /\ trace_runs \subseteq [id : Nat \ {0}, target : Targets, day : 0 .. MaxDays]
  /\ \A r, s \in trace_runs : r.id = s.id => r = s
  /\ \A t \in Targets : route_candidates[t] # NoRow =>
       /\ route_candidates[t].flow.endpoint \in Endpoints
       /\ route_candidates[t].consecutive \in 0 .. 1
       /\ (route_candidates[t].candidate = NoTrace) = (route_candidates[t].consecutive = 0)
  /\ \A c \in route_changes : c.target \in Targets /\ c.day \in 0 .. MaxDays

Init ==
  /\ TracerInit
  /\ today = 0 /\ trace_runs = {} /\ route_changes = {}
  /\ route_candidates = [t \in Targets |-> NoRow]
  /\ recent = [t \in Targets |-> NoTrace]
-----------------------------------------------------------------------------
\* routeMeaningfullyDifferent.
MeaningfullyDifferent(old, new) ==
  \E ttl \in DOMAIN old \cap DOMAIN new : old[ttl] \cap new[ttl] = {}

\* SQLite gives a row the highest id and one more.
NextId_Count == 1 + Cardinality(trace_runs) \* fault: as many as there are and one more
NextId == 1 + Max({0} \cup {r.id : r \in trace_runs})

\* The trace took the way the row is of, but for routers that take turns.
SameRoute(row, r) ==
  /\ row.route.reachedHop = r.reachedHop
  /\ ~MeaningfullyDifferent(row.route.signature, r.signature)
Baseline(id, r) ==
  [current |-> id, flow |-> Flow(r), route |-> Route(r), candidate |-> NoTrace,
   consecutive |-> 0]
Reset_Keeps(row) == row \* fault: the candidate stays
Reset(row) == [row EXCEPT !.candidate = NoTrace, !.consecutive = 0]
Confirmed_Twice(row) == row.consecutive >= 2 \* fault: off by one
Confirmed(row) == row.consecutive + 1 >= 2
\* first_seen_us is 0 when the candidate's row is not found.
Change(row, id, r) ==
  [target |-> r.target, endpoint |-> r.endpoint,
   old |-> row.current, candidate |-> row.candidate.id, confirming |-> id,
   oldRoute |-> row.route, newRoute |-> Route(r),
   firstSeen |-> {s \in trace_runs : s.id = row.candidate.id}, day |-> today]

\* updateRouteCandidate: the row and the changes after a completed trace.
UpdateRouteCandidate(row, id, r) ==
  IF row = NoRow \/ row.flow # Flow(r) THEN [row |-> Baseline(id, r), changes |-> {}]
  ELSE IF SameRoute(row, r) THEN [row |-> Reset(row), changes |-> {}]
  ELSE IF row.candidate = NoTrace \/ row.candidate.route # Route(r)
    THEN [row |-> [row EXCEPT !.candidate = [id |-> id, route |-> Route(r)],
                              !.consecutive = 1], changes |-> {}]
  ELSE IF ~Confirmed(row)
    THEN [row |-> [row EXCEPT !.consecutive = @ + 1], changes |-> {}]
  ELSE [row |-> Baseline(id, r), changes |-> {Change(row, id, r)}]

\* insertTrace.
StoreTrace ==
  /\ queue # <<>> /\ queue' = Tail(queue)
  /\ LET r == Head(queue)
         t == r.target
         new == UpdateRouteCandidate(route_candidates[t], NextId, r)
     IN  /\ trace_runs' = trace_runs \cup {[id |-> NextId, target |-> t, day |-> today]}
         /\ IF r.status = "completed"
              THEN /\ route_candidates' = [route_candidates EXCEPT ![t] = new.row]
                   /\ route_changes' = route_changes \cup new.changes
                   /\ recent' = [recent EXCEPT ![t] = [id |-> NextId, flow |-> Flow(r), route |-> Route(r)]]
              ELSE UNCHANGED <<route_candidates, route_changes, recent>>
  /\ UNCHANGED <<engine, run, flight, today>>
-----------------------------------------------------------------------------
(* Retention: prune, and emergencyPruneStage while the storage is over its *)
(* budget.  Each deletion is a transaction of its own, and takes the       *)
(* oldest rows that may go, as many as it may take.                        *)

Candidates == {t \in Targets : route_candidates[t] # NoRow}
Referenced ==
  {route_candidates[t].current : t \in Candidates}
    \cup {route_candidates[t].candidate.id : t \in Candidates}
    \cup UNION {{c.old, c.candidate, c.confirming} : c \in route_changes}
OldTraces_Confirmed == \* fault: what only a candidate refers to is deleted
  {r \in trace_runs : /\ r.day + TraceRetention < today
                      /\ r.id \notin UNION {{c.old, c.candidate, c.confirming} : c \in route_changes}}
OldTraces == {r \in trace_runs : r.day + TraceRetention < today /\ r.id \notin Referenced}
\* Under pressure the first trace of a day is kept.
SpareTraces ==
  {r \in trace_runs : /\ r.day + TraceFloor < today /\ r.id \notin Referenced
                      /\ \E keep \in trace_runs :
                           keep.target = r.target /\ keep.day = r.day /\ keep.id < r.id}
Oldest(S, rows) == S \subseteq rows /\ \A r \in S, s \in rows \ S : r.day <= s.day

DeleteTraces ==
  /\ Quiet
  /\ \E rows \in {OldTraces, SpareTraces} : \E S \in (SUBSET rows) \ {{}} :
       Oldest(S, rows) /\ trace_runs' = trace_runs \ S
  /\ UNCHANGED <<tracerVars, today, route_candidates, route_changes, recent>>
DeleteChanges ==
  /\ Quiet
  /\ \E retention \in {ChangeRetention, ChangeFloor} :
       LET rows == {c \in route_changes : c.day + retention < today}
       IN  \E S \in (SUBSET rows) \ {{}} : Oldest(S, rows) /\ route_changes' = route_changes \ S
  /\ UNCHANGED <<tracerVars, today, trace_runs, route_candidates, recent>>

NextDay ==
  /\ Quiet /\ today < MaxDays /\ today' = today + 1
  /\ UNCHANGED <<tracerVars, storeVars>>

Next ==
  \/ TracerNext /\ UNCHANGED <<today, storeVars>>
  \/ StoreTrace \/ DeleteTraces \/ DeleteChanges \/ NextDay

Spec == Init /\ [][Next]_vars
-----------------------------------------------------------------------------
\* A route change is two completed traces in a row that took the same way, with
\* the flow of the baseline and meaningfully another than it, and is recorded
\* with the rows of all three ("must repeat in two consecutive completed traces
\* before a `route_changes` row is written", docs/implementation-plan.md:407),
\* although traces fail, are late or go to another endpoint in between.
RecordsConfirmed ==
  \A c \in route_changes' \ route_changes :
    /\ c.candidate = recent[c.target].id
    /\ recent[c.target].flow = recent'[c.target].flow
    /\ recent[c.target].route = recent'[c.target].route
    /\ recent[c.target].flow = route_candidates[c.target].flow
    /\ c.newRoute = recent'[c.target].route
    /\ \/ c.oldRoute.reachedHop # c.newRoute.reachedHop
       \/ MeaningfullyDifferent(c.oldRoute.signature, c.newRoute.signature)
    /\ c.confirming = recent'[c.target].id
ChangesAreConfirmed == [][RecordsConfirmed]_vars

\* And every one is: after two completed traces in a row with one flow that took
\* the same way, the baseline is that way.
FollowsRepeated ==
  \A t \in Targets :
    (/\ recent[t] # recent'[t] /\ recent[t] # NoTrace
     /\ recent[t].flow = recent'[t].flow /\ recent[t].route = recent'[t].route) =>
      /\ route_candidates'[t].route.reachedHop = recent'[t].route.reachedHop
      /\ ~MeaningfullyDifferent(route_candidates'[t].route.signature,
                                recent'[t].route.signature)
RepeatedRouteIsBaseline == [][FollowsRepeated]_vars

\* The traces the candidates and the changes refer to are there, of the same
\* target, and the first sight of a confirmed route is known, whatever retention
\* has deleted and although ids are given again (retention.go:67, :132).
ReferencedTracesAreKept ==
  /\ \A t \in Candidates :
       LET row == route_candidates[t]
       IN  \A id \in {row.current, row.candidate.id} \ {0} :
             \E r \in trace_runs : r.id = id /\ r.target = t
  /\ \A c \in route_changes :
       /\ \A id \in {c.old, c.candidate, c.confirming} :
            \E r \in trace_runs : r.id = id /\ r.target = c.target
       /\ \E r \in trace_runs : r.id = c.candidate /\ c.firstSeen = {r}
       /\ c.old < c.candidate /\ c.candidate < c.confirming
=============================================================================
