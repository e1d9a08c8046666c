------------------------------- MODULE Writer -------------------------------
(***************************************************************************)
(* internal/store/sqlite/writer.go: the one goroutine that takes events    *)
(* from the bus and stores them, a batch to a transaction; with the        *)
(* deletion of raw rows in retention.go, which decides what becomes of a   *)
(* reply whose row is not there.                                           *)
(*                                                                         *)
(* A reply may reach the bus before the row of its probe, because the send *)
(* loop publishes the row only after the packet has left; the writer then  *)
(* keeps the reply in `orphans`.  When the disk is full a batch is rolled  *)
(* back, kept, and applied again, until there is space.                    *)
(*                                                                         *)
(* An event is the row of probe n or its k-th reply.  Every probe stands   *)
(* for a minute bucket of its own.                                         *)
(***************************************************************************)
EXTENDS Integers, Sequences, FiniteSetsExt, Functions

CONSTANTS MaxProbes,  \* bound: probes sent
          MaxReplies, \* bound: replies to one probe
          MaxStray,   \* bound: replies to one probe from another host
          MaxTime,    \* bound: the clock
          Strays,     \* probes answered by another host than their endpoint
          Senders,    \* send loops, each with one probe between write and row
          BatchSize,  \* maxBatchSize
          MaxOrphans, \* maxOrphanReplies
          Lifetime,   \* orphanReplyLifetime
          Timeout,    \* of every target
          Retention,  \* raw_retention
          Floor,      \* the emergency floor of raw retention
          PruneBatch, \* pruneBatch: rows one deletion may take
          MayFill,    \* the disk may be full, or short, for a while
          MayCancel   \* the writer's context may be cancelled

ASSUME SizeAssumption ==
  {MaxProbes, MaxReplies, MaxStray, MaxTime, Senders, BatchSize, MaxOrphans,
   Lifetime, Timeout, Retention, Floor, PruneBatch} \subseteq Nat
ASSUME RetentionAssumption ==
  Timeout < Floor /\ Floor <= Retention /\ BatchSize > 0
ASSUME SwitchAssumption ==
  /\ Strays \subseteq 1 .. MaxProbes
  /\ {MayFill, MayCancel} \subseteq BOOLEAN

VARIABLES clock,
          bus,       \* events accepted and not yet received, in order
          closed,    \* the bus is closed
          cancelled, \* the writer's context is cancelled
          sentAt,    \* when each probe left, None before
          writing,   \* probes written whose row is not published yet
          replies,   \* replies published so far
          space,     \* SQLite finds room for a transaction
          pc, batch, \* RunWriter
          stage,     \* of the recovery from a full disk
          ready,     \* d.ready
          rows,      \* ping_samples
          dirty,     \* dirty_rollups: minutes to recompute
          rollup,    \* ping_rollups: the row a minute was computed from
          counts,    \* diagnostics: late_reply_evicted, reply_source_mismatch;
                     \* and what none of them counts: kept replies replaced (history)
          orphans,   \* replies kept for rows to come
          prunedThrough, \* d.prunedThrough
          log,       \* history: events of the committed batches, in order
          retired    \* history: rows as they were deleted

envVars == <<bus, closed, sentAt, writing, replies>>
pruneVars == <<rows, dirty, rollup, prunedThrough, retired>>
dbVars == <<pruneVars, counts, orphans>>
runVars == <<pc, batch, stage, ready, log>>
vars == <<clock, cancelled, space, envVars, runVars, dbVars>>

Probes == 1 .. MaxProbes
None == -1
NoRow == [reply |-> None, duplicates |-> None]
NewRow == [reply |-> 0, duplicates |-> 0]
Stored(n) == rows[n] # NoRow
Row(n) == [kind |-> "row", probe |-> n, number |-> 0]
Reply(n, k) == [kind |-> "reply", probe |-> n, number |-> k]
Events == {Row(n) : n \in Probes}
            \cup {Reply(n, k) : n \in Probes, k \in 1 .. MaxReplies}
RowOrNone == {NoRow} \cup [reply : 0 .. MaxReplies, duplicates : Nat]

\* The writer is at one of its points, a batch never exceeds its size, kept
\* replies never exceed their limit, and only stored minutes are dirty or
\* rolled up.
TypeOK ==
  /\ clock \in 0 .. MaxTime
  /\ {closed, cancelled, space, ready} \subseteq BOOLEAN
  /\ Range(bus) \cup Range(batch) \cup Range(log) \subseteq Events
  /\ Len(batch) <= BatchSize
  /\ sentAt \in [Probes -> Nat \cup {None}]
  /\ writing \subseteq Probes /\ Cardinality(writing) <= Senders
  /\ pc \in {"next", "collect", "apply", "recover", "paused", "expire",
             "pressed", "returned", "failed"}
  /\ stage \in 0 .. 2
  /\ {rows, rollup, retired} \subseteq [Probes -> RowOrNone]
  /\ \A n \in Probes : rows[n].duplicates > 0 => rows[n].reply > 0
  /\ DOMAIN orphans \subseteq Probes /\ Cardinality(DOMAIN orphans) <= MaxOrphans
  /\ dirty \subseteq {n \in Probes : Stored(n)}
  /\ \A n \in Probes \ dirty : Stored(n) => rollup[n] # NoRow

Init ==
  /\ clock = 0 /\ bus = <<>> /\ closed = FALSE /\ cancelled = FALSE
  /\ sentAt = [n \in Probes |-> None] /\ writing = {}
  /\ replies = [n \in Probes |-> 0]
  /\ space = TRUE
  /\ pc = "next" /\ batch = <<>> /\ stage = 0 /\ ready = TRUE
  /\ rows = [n \in Probes |-> NoRow] /\ rollup = rows /\ retired = rows
  /\ dirty = {} /\ prunedThrough = None
  /\ counts = [late |-> 0, mismatch |-> 0, replaced |-> 0]
  /\ orphans = <<>>
  /\ log = <<>>
-----------------------------------------------------------------------------
(* What one transaction does: a world is [rows, counts, orphans, dirty,    *)
(* failed], the tables, the map, and whether an event was an error.        *)

World == [rows |-> rows, counts |-> counts, orphans |-> orphans,
          dirty |-> dirty, failed |-> FALSE]
Without(f, n) == [m \in DOMAIN f \ {n} |-> f[m]]

\* Fault: the last reply is attached, and no duplicate is counted.
AttachReply_Last(w, e) ==
  LET n == e.probe
  IN  IF n \in Strays
        THEN [w EXCEPT !.counts.mismatch = @ + 1]
      ELSE [w EXCEPT !.rows[n].reply = e.number, !.dirty = @ \cup {n}]

\* applyReply, of a reply whose row is there.
AttachReply(w, e) ==
  LET n == e.probe
  IN  IF n \in Strays
        THEN [w EXCEPT !.counts.mismatch = @ + 1]
      ELSE IF w.rows[n].reply = 0
        THEN [w EXCEPT !.rows[n].reply = e.number, !.dirty = @ \cup {n}]
      ELSE [w EXCEPT !.rows[n].duplicates = @ + 1]

\* Fault: only the reply makes the minute dirty.
InsertProbe_Clean(w, n) ==
  LET stored == [w EXCEPT !.rows[n] = NewRow]
  IN  IF n \notin DOMAIN w.orphans THEN stored
      ELSE [AttachReply(stored, w.orphans[n].event)
              EXCEPT !.orphans = Without(@, n)]

\* insertProbe: the row, and the reply that was kept for it.
InsertProbe(w, n) ==
  LET stored == [w EXCEPT !.rows[n] = NewRow, !.dirty = @ \cup {n}]
  IN  IF n \notin DOMAIN w.orphans THEN stored
      ELSE [AttachReply(stored, w.orphans[n].event)
              EXCEPT !.orphans = Without(@, n)]

\* A reply without a row: too old, or kept until the row comes, in the place of
\* one that was kept before.
KeepReply(w, e) ==
  LET n == e.probe
  IN  IF sentAt[n] <= prunedThrough THEN [w EXCEPT !.counts.late = @ + 1]
      ELSE IF Cardinality(DOMAIN w.orphans) >= MaxOrphans
        THEN [w EXCEPT !.failed = TRUE]
      ELSE [w EXCEPT
              !.orphans = [m \in DOMAIN @ \cup {n} |->
                 IF m = n THEN [event |-> e, addedAt |-> clock] ELSE @[m]],
              !.counts.replaced = @ + (IF n \in DOMAIN w.orphans THEN 1 ELSE 0)]

ApplyEvent(w, e) ==
  IF w.failed THEN w
  ELSE IF e.kind = "row" THEN InsertProbe(w, e.probe)
  ELSE IF w.rows[e.probe] # NoRow THEN AttachReply(w, e)
  ELSE KeepReply(w, e)

\* The world after the first i events of the batch.
After[i \in 0 .. Len(batch)] ==
  IF i = 0 THEN World ELSE ApplyEvent(After[i - 1], batch[i])
-----------------------------------------------------------------------------
(* The bus's other side: send loops, receive loops and the application.    *)
(* A send loop with a reservation publishes the row without waiting, so    *)
(* nothing that takes time (a tick of the clock, the 250 ms a batch waits  *)
(* for more) happens between a packet's departure and its row.             *)

Prompt == writing = {}

Send(n) ==
  /\ ~closed /\ Cardinality(writing) < Senders
  /\ sentAt[n] = None /\ \A m \in 1 .. n - 1 : sentAt[m] # None
  /\ sentAt' = [sentAt EXCEPT ![n] = clock]
  /\ writing' = writing \cup {n}
  /\ UNCHANGED <<clock, cancelled, space, bus, closed, replies, runVars, dbVars>>

PublishRow(n) ==
  /\ n \in writing
  /\ writing' = writing \ {n}
  /\ bus' = Append(bus, Row(n))
  /\ UNCHANGED <<clock, cancelled, space, closed, sentAt, replies, runVars, dbVars>>

PublishReply(n) ==
  /\ ~closed /\ sentAt[n] # None
  /\ replies[n] < MaxReplies /\ (n \in Strays => replies[n] < MaxStray)
  /\ replies' = [replies EXCEPT ![n] = @ + 1]
  /\ bus' = Append(bus, Reply(n, replies[n] + 1))
  /\ UNCHANGED <<clock, cancelled, space, closed, sentAt, writing, runVars, dbVars>>

\* bus.Close, after the producers have returned.
Close ==
  /\ ~closed /\ Prompt
  /\ closed' = TRUE
  /\ UNCHANGED <<clock, cancelled, space, bus, sentAt, writing, replies, runVars, dbVars>>

\* Run cancels the writer only when the engine has stopped, at the earliest just
\* before it closes the bus: nothing is published between the two.
CancelWriter ==
  /\ MayCancel /\ closed /\ ~cancelled
  /\ cancelled' = TRUE
  /\ UNCHANGED <<clock, space, envVars, runVars, dbVars>>

SpaceChanges ==
  /\ MayFill
  /\ space' = ~space
  /\ UNCHANGED <<clock, cancelled, envVars, runVars, dbVars>>

Tick ==
  /\ clock < MaxTime /\ Prompt
  /\ clock' = clock + 1
  /\ UNCHANGED <<cancelled, space, envVars, runVars, dbVars>>
-----------------------------------------------------------------------------
(* RunWriter: collecting.                                                  *)

collecting == <<clock, cancelled, space, closed, sentAt, writing, replies,
                stage, ready, log, dbVars>>

TakeFirst ==
  /\ pc = "next" /\ bus # <<>>
  /\ pc' = "collect"
  /\ batch' = <<Head(bus)>> /\ bus' = Tail(bus)
  /\ UNCHANGED collecting

Collect ==
  /\ pc = "collect" /\ bus # <<>> /\ Len(batch) < BatchSize
  /\ batch' = Append(batch, Head(bus)) /\ bus' = Tail(bus)
  /\ pc' = pc
  /\ UNCHANGED collecting

\* Control moves on, and nothing else.
Goto(next) ==
  /\ pc' = next
  /\ UNCHANGED <<clock, cancelled, space, envVars, batch, stage, ready,
                 log, dbVars>>

\* The batch is full, its 250 ms are over, the bus closed or ctx cancelled.
CollectDone ==
  /\ pc = "collect"
  /\ Len(batch) = BatchSize \/ Prompt \/ closed \/ cancelled
  /\ Goto("apply")

ReturnClosed == pc = "next" /\ closed /\ bus = <<>> /\ Goto("returned")

Expired == {n \in DOMAIN orphans : clock - orphans[n].addedAt > Lifetime}
Evictable == {n \in Expired : sentAt[n] <= prunedThrough}

ReturnCancelled ==
  /\ cancelled
  /\ pc \in {"next", "apply", "recover", "paused"} \/ (pc = "expire" /\ Expired = {})
  /\ Goto("returned")

\* failWriter.
Fail ==
  /\ pc' = "failed" /\ ready' = FALSE
  /\ UNCHANGED <<clock, cancelled, space, envVars, batch, stage, log>>
-----------------------------------------------------------------------------
(* Deleting raw rows, and moving the mark of what is deleted.              *)

\* Minutes that are over and have nobody to wait for.
Eligible ==
  {n \in dirty : /\ sentAt[n] < clock
                 /\ rows[n].reply # 0 \/ sentAt[n] + Timeout <= clock}

\* The oldest rows before the cutoff whose minutes are not dirty.
Prunable(cutoff, unfinished) ==
  LET old == {n \in Probes \ unfinished : Stored(n) /\ sentAt[n] < cutoff}
  IN  {n \in old : Cardinality({m \in old : m < n}) < PruneBatch}

\* Raw rows are deleted, given the minutes that are dirty then.
DeleteRows(cutoff, unfinished) ==
  LET S == Prunable(cutoff, unfinished)
  IN  /\ rows' = [n \in Probes |-> IF n \in S THEN NoRow ELSE rows[n]]
      /\ retired' = [n \in Probes |-> IF n \in S THEN rows[n] ELSE retired[n]]
      /\ dirty' = unfinished \ S

\* advancePrunedThrough, once the rows are deleted.
Advance(cutoff) ==
  prunedThrough' =
    IF \E n \in Probes : rows'[n] # NoRow /\ sentAt[n] < cutoff THEN prunedThrough
    ELSE Max({cutoff, prunedThrough})

Prune(cutoff, unfinished) == DeleteRows(cutoff, unfinished) /\ Advance(cutoff)
-----------------------------------------------------------------------------
(* RunWriter: storing a batch.                                             *)

Attempting == ~cancelled /\ pc \in {"apply", "recover"}

\* The transaction commits.
Commit ==
  /\ Attempting /\ space
  /\ LET w == After[Len(batch)]
     IN  /\ ~w.failed
         /\ rows' = w.rows /\ counts' = w.counts /\ orphans' = w.orphans
         /\ dirty' = w.dirty
  /\ log' = log \o batch
  /\ batch' = <<>> /\ pc' = "expire" /\ stage' = 0
  /\ UNCHANGED <<clock, cancelled, space, envVars, ready, rollup,
                 prunedThrough, retired>>

\* Too many kept replies: an error of the batch, whatever the space.
OrphanLimit ==
  /\ Attempting /\ After[Len(batch)].failed
  /\ Fail
  /\ UNCHANGED dbVars

\* Fault: what the rolled back transaction did to the map stays done.
Restored_Dirty(i) == After[i].orphans

\* applyRetainedBatch: the map as it was before the attempt that stopped
\* after i events.
Restored(i) == orphans

\* The attempt finds the disk full, before, between or after its events.
FindsFull ==
  /\ ~cancelled /\ ~space
  /\ \E i \in 0 .. Len(batch) : ~After[i].failed /\ orphans' = Restored(i)
  /\ UNCHANGED <<clock, cancelled, space, envVars, batch, log, counts, rollup>>

\* The first attempt leads into the recovery.
Full ==
  /\ pc = "apply" /\ FindsFull
  /\ pc' = "recover" /\ stage' = 0
  /\ UNCHANGED <<ready, rows, dirty, prunedThrough, retired>>

\* Full again after a checkpoint: stage 0 of the ladder deletes raw rows.
PruneRaw ==
  /\ pc = "recover" /\ stage = 0 /\ FindsFull
  /\ stage' = 1 /\ Prune(clock - Floor, dirty)
  /\ UNCHANGED <<pc, ready>>

\* The rows are deleted, and there is no room to store the mark.
PruneRawHalf ==
  /\ pc = "recover" /\ stage = 0 /\ FindsFull
  /\ DeleteRows(clock - Floor, dirty)
  /\ pc' = "paused" /\ stage' = 0 /\ ready' = FALSE
  /\ UNCHANGED prunedThrough

\* The other stages delete what this module does not hold.
PruneRest ==
  /\ pc = "recover" /\ stage = 1 /\ FindsFull
  /\ stage' = 2
  /\ UNCHANGED <<pc, ready, rows, dirty, prunedThrough, retired>>

\* Fault: the batch is given up.
Pause_DropsBatch ==
  /\ pc = "recover" /\ ~cancelled
  /\ pc' = "expire" /\ stage' = 0 /\ ready' = FALSE /\ batch' = <<>>
  /\ UNCHANGED <<clock, cancelled, space, envVars, log, dbVars>>

\* The ladder is exhausted, the checkpoint is blocked by readers, or the five
\* seconds are over: admission is paused and the batch kept.
Pause ==
  /\ pc = "recover" /\ ~cancelled
  /\ pc' = "paused" /\ stage' = 0 /\ ready' = FALSE
  /\ UNCHANGED <<clock, cancelled, space, envVars, batch, log, dbVars>>

\* Fault: the retry waits for readiness, which nothing restores.
Retry_WhenReady == pc = "paused" /\ ready /\ Goto("apply")

Retry == pc = "paused" /\ Goto("apply")
-----------------------------------------------------------------------------
(* RunWriter: after a batch, and when idle.                                *)

\* expireOrphans: those of retired rows are counted.
ExpireOrphans ==
  /\ pc = "expire" /\ Expired = Evictable
  /\ Expired # {} => space /\ ~cancelled
  /\ pc' = "next"
  /\ orphans' = Restrict(orphans, DOMAIN orphans \ Expired)
  /\ counts' = [counts EXCEPT !.late = @ + Cardinality(Expired)]
  /\ UNCHANGED <<clock, cancelled, space, envVars, batch, stage, ready,
                 log, pruneVars>>

\* A kept reply whose row has not come is an error.
OrphanExpires ==
  /\ pc = "expire" /\ Expired # Evictable
  /\ Fail
  /\ UNCHANGED dbVars

\* The counter of evicted replies cannot be written.
ExpireFails ==
  /\ pc = "expire" /\ Evictable # {}
  /\ ~space \/ cancelled
  /\ Fail
  /\ UNCHANGED dbVars

\* maintenance: minutes are recomputed, then raw rows deleted; when little
\* room is left after that, more must go.
Maintain ==
  /\ pc = "next" /\ ~cancelled /\ space
  /\ rollup' = [n \in Probes |-> IF n \in Eligible THEN rows[n] ELSE rollup[n]]
  /\ Prune(clock - Retention, dirty \ Eligible)
  /\ pc' \in {"next"} \cup {x \in {"pressed"} : MayFill}
  /\ UNCHANGED <<clock, cancelled, space, envVars, batch, stage, ready,
                 log, counts, orphans>>

\* The emergency stages; admission is paused when they do not help.
Relieve ==
  /\ pc = "pressed" /\ ~cancelled /\ space
  /\ Prune(clock - Floor, dirty)
  /\ pc' = "next" /\ ready' \in {ready, FALSE}
  /\ UNCHANGED <<clock, cancelled, space, envVars, batch, stage, log,
                 counts, orphans, rollup>>

\* Admission is paused at once when the file system itself is short.
RelieveNot ==
  /\ pc = "pressed" /\ pc' = "next" /\ ready' = FALSE
  /\ UNCHANGED <<clock, cancelled, space, envVars, batch, stage, log, dbVars>>

\* A statement of the maintenance has no room, or a reader blocks the
\* checkpoint for five seconds.
MaintainFails ==
  /\ pc \in {"next", "pressed"}
  /\ ~space \/ cancelled \/ pc = "pressed"
  /\ Fail
  /\ UNCHANGED dbVars
-----------------------------------------------------------------------------
WriterStep ==
  \/ TakeFirst \/ Collect \/ CollectDone \/ ReturnClosed \/ ReturnCancelled
  \/ Commit \/ OrphanLimit \/ Full \/ PruneRaw \/ PruneRawHalf \/ PruneRest
  \/ Pause \/ Retry
  \/ ExpireOrphans \/ OrphanExpires \/ ExpireFails
  \/ Maintain \/ Relieve \/ RelieveNot \/ MaintainFails

Environment ==
  \/ \E n \in Probes : Send(n) \/ PublishRow(n) \/ PublishReply(n)
  \/ Close \/ CancelWriter \/ SpaceChanges \/ Tick

Next == WriterStep \/ Environment

\* The writer's goroutine runs, and so does a send loop that has its slot.
Fairness ==
  /\ WF_vars(WriterStep)
  /\ \A n \in Probes : WF_vars(PublishRow(n))

Spec == Init /\ [][Next]_vars /\ Fairness
-----------------------------------------------------------------------------
Positions(e, s) == {i \in DOMAIN s : s[i] = e}
Held == log \o batch \o bus
RepliesIn(s) == {e \in Range(s) : e.kind = "reply"}

\* However often a batch is rolled back and applied again (writer.go:97-163),
\* every event that reached the bus is in exactly one place: stored, in the
\* batch or still on the bus.
InOnePlace ==
  \A n \in Probes :
    /\ Cardinality(Positions(Row(n), Held)) =
         IF sentAt[n] = None \/ n \in writing THEN 0 ELSE 1
    /\ \A k \in 1 .. MaxReplies :
         Cardinality(Positions(Reply(n, k), Held)) = IF k <= replies[n] THEN 1 ELSE 0

\* The table agrees with the log: the rows of the committed batches are
\* there until they are deleted, and a row that is there leaves no reply
\* waiting for it.
RowsFollowLog ==
  \A n \in Probes :
    /\ (Row(n) \in Range(log)) <=> (Stored(n) \/ retired[n] # NoRow)
    /\ Stored(n) => n \notin DOMAIN orphans

\* A shutdown without cancellation stores everything that was published
\* (writer.go:52-54, 71-73): the bus closes, and the writer drains it.
CloseDrains ==
  pc = "returned" /\ ~cancelled =>
    \A n \in Probes :
      /\ sentAt[n] # None => Row(n) \in Range(log)
      /\ Cardinality({e \in RepliesIn(log) : e.probe = n}) = replies[n]

\* Every event is stored once: it is never in two places, the table holds what
\* the log says, and a writer that ends with the bus has stored it all.
EventOnce == InOnePlace /\ RowsFollowLog /\ CloseDrains

\* What the table holds and what the retired rows held: replies attached.
Attached(n) ==
  LET Of(r) == IF r = NoRow THEN 0
               ELSE r.duplicates + (IF r.reply = 0 THEN 0 ELSE 1)
  IN  Of(rows[n]) + Of(retired[n])

\* Where a reply of a committed batch can be: attached to its row, kept for it,
\* or counted.
Accounted ==
  SumFunction([n \in Probes |-> Attached(n)]) + Cardinality(DOMAIN orphans)
    + counts.late + counts.mismatch

\* However many replies a probe gets, none disappears: each one of a committed
\* batch is attached to its row, kept for it, or counted (writer.go:193-209,
\* 273-282, 320-330, 364-377).  The one exception is a reply replaced by a later
\* one while it was kept (writer.go:208: README).
RepliesAccounted == Cardinality(RepliesIn(log)) = Accounted + counts.replaced

\* Once there is room again for good, the batch that was retained is stored,
\* unless the writer fails or is cancelled: it is never kept for ever.
BatchIsStored ==
  []<>(space => batch = <<>> \/ pc \in {"failed", "returned"})
=============================================================================
