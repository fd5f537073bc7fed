------------------------------- MODULE Schemes ------------------------------
(* The revisions of one allowance scheme: internal/allocations/changes.go,    *)
(* schedule.go and the creating half of allocations.go.                       *)
(*                                                                            *)
(* A revision takes effect at a whole second and is never updated.  An editor *)
(* previews a change, sees the current and the scheduled revision and the     *)
(* time proposed, and sends these back as conditions.  The change runs in one *)
(* transaction that holds the only connection, so nothing else touches the    *)
(* tables meanwhile; but it reads the clock several times, and the clock and  *)
(* the zone move while it runs.  Its phases are "opened" (the scheme was read *)
(* and the conditions compared), "written" (rows inserted and deleted) and    *)
(* "checked" (finishChange), then the commit; it may be abandoned in each.    *)
(*                                                                            *)
(* Who may receive an allowance and what a pool is reserved for are in        *)
(* Workspaces, the funding of a share in Allowance, prices in Prices.  The    *)
(* clock does not run backwards here.                                         *)
EXTENDS Calendar

CONSTANTS
  Schedules, MemberSets, Zones,
  Resets,   \* Resets[z][c][t]: where the calendar window that holds t ends (Window)
  MaxTime, LastReset, MaxRevisions, MaxOpen, MaxDialogs   \* bounds

ASSUME SchemesAssumption ==
  /\ \A c \in Schedules :
       /\ validPeriod(c)
       /\ c.period = "durations" => /\ c.windows \subseteq Nat \ {0}
                                    /\ c.windows # {} /\ IsFiniteSet(c.windows)
  /\ \A z \in Zones, c \in {s \in Schedules : s.period # "durations"} :
       \A t \in 0..LastReset : Resets[z][c][t] \in Nat /\ Resets[z][c][t] > t
  /\ MaxTime \in Nat \ {0} /\ {LastReset, MaxRevisions, MaxOpen, MaxDialogs} \subseteq Nat

VARIABLES
  clock, zone,
  allocation_revisions,   \* rows [id, at, anchor, schedule, members]
  sequence,               \* sqlite_sequence of the table
  captured,               \* allocation_entries: [at, revision], a request's start and revision
  views,                  \* what the editors with a change in hand were shown
  dialogs,                \* editors so far
  tx                      \* the transaction that holds the connection

schemeVars == <<clock, zone, allocation_revisions, sequence, captured, views, dialogs, tx>>

None == [id |-> 0]
NoTx == [phase |-> "none"]

-----------------------------------------------------------------------------
(* Queries and reads.                                                         *)

\* 0 past the bound.
nextReset(c, now, z) == IF now <= LastReset THEN Resets[z][c][now] ELSE 0

nextEffective(c, now, z, anchor) ==
  IF c.period = "durations" THEN durationWindow(now, anchor, Max(c.windows)).end ELSE nextReset(c, now, z)

later(a, b) == a.at > b.at \/ (a.at = b.at /\ a.id >= b.id)

CurrentAllocationRevision(rows, t) ==
  LET started == {r \in rows : r.at <= t} IN
  IF started = {} THEN None ELSE CHOOSE r \in started : \A x \in started : later(r, x)

NextAllocationRevision(rows, t) ==
  LET future == {r \in rows : r.at > t}
      soonest == {r \in future : \A x \in future : r.at <= x.at} IN
  IF future = {} THEN None ELSE CHOOSE r \in soonest : \A x \in soonest : r.id >= x.id

AllocationHasEntries == captured # {}

\* The pair of WriteConditions, with what the rows hold.
readSchemeCore(rows, t) ==
  [current |-> CurrentAllocationRevision(rows, t), next |-> NextAllocationRevision(rows, t)]

\* AUTOINCREMENT: the id of a deleted row is not issued again.
nextId == sequence

appendRevision(s, at, anchor, schedule, members) ==
  [rows |-> s.rows \cup {[id |-> s.seq + 1, at |-> at, anchor |-> anchor, schedule |-> schedule, members |-> members]},
   seq |-> s.seq + 1]

DeleteAllocationPendingAt(s, at, now) ==
  [s EXCEPT !.rows = {r \in @ : ~(r.at = at /\ r.at > now /\ \A e \in captured : e.revision # r.id)}]

checkVersions(view, state) == view.current.id = state.current.id /\ view.next.id = state.next.id

\* Where the window that holds the scheduled start ends; 0 for a refusal.
movedTime(state, now) ==
  LET base == IF state.current = None THEN state.next ELSE state.current IN
  IF state.next = None \/ state.next.at <= now THEN 0
  ELSE nextEffective(base.schedule, state.next.at, zone, base.anchor)

\* The time that is scheduled already, or where the current window ends; 0 for a refusal.
ownTime(state, now) ==
  IF state.next # None THEN state.next.at
  ELSE IF state.current = None THEN 0
  ELSE nextEffective(state.current.schedule, now, zone, state.current.anchor)

targetTime(state, action, now) ==
  IF action = "reschedule" THEN movedTime(state, now) ELSE ownTime(state, now)

\* The time agreed to, or 0 for a refusal.
checkTime(expected, state, action, now) ==
  IF /\ expected = targetTime(state, action, now) /\ expected > now
     /\ state.next = None \/ state.next.at > now
  THEN expected ELSE 0

\* A scheduled replacement that moves takes its anchor along.
rescheduledAnchor(state, at) ==
  IF state.current = None \/ state.next.anchor # state.current.anchor THEN at ELSE state.next.anchor

\* The anchor a preview shows for a move.
movedAnchor(state, at) ==
  IF state.current = None \/ state.next.anchor # state.current.anchor THEN at ELSE state.next.anchor

\* The row a change starts from.
edited(state) == IF state.next # None THEN state.next ELSE state.current

previewAnchor(state, action, at) ==
  IF action = "replace" THEN at
  ELSE IF action = "reschedule" THEN movedAnchor(state, at) ELSE edited(state).anchor

shown(view) ==
  /\ Cardinality(views) < MaxOpen /\ dialogs < MaxDialogs
  /\ views' = views \cup {view} /\ dialogs' = dialogs + 1

Preview(action) ==
  /\ tx = NoTx /\ allocation_revisions # {}
  /\ \E state \in {readSchemeCore(allocation_revisions, clock)} :
     \E at \in {targetTime(state, action, clock)} \ {0} :
       shown([action |-> action, current |-> state.current, next |-> state.next, at |-> at,
              anchor |-> previewAnchor(state, action, at)])
  /\ UNCHANGED <<clock, zone, allocation_revisions, sequence, captured, tx>>

-----------------------------------------------------------------------------
(* Creation.                                                                  *)

\* The start the server would choose for a new scheme.
PreviewInitial(c) ==
  /\ tx = NoTx /\ allocation_revisions = {}
  /\ \E at \in {nextEffective(c, clock, zone, clock)} :
       shown([action |-> "create", current |-> None, next |-> None, at |-> at, anchor |-> at])
  /\ UNCHANGED <<clock, zone, allocation_revisions, sequence, captured, tx>>

\* With a start that was agreed to, windows of a duration may begin anywhere
\* up to one length ahead; a calendar's only where it resets.
creationTime(c, startNext, expected, now) ==
  LET target == IF startNext THEN nextEffective(c, now, zone, now) ELSE now IN
  IF expected = 0 THEN target
  ELSE IF /\ startNext /\ expected > now
          /\ IF c.period = "durations" THEN expected - now <= Max(c.windows) ELSE expected = target
  THEN expected ELSE 0

\* SaveScheme with no id; the start is computed twice when one was agreed to.
SaveScheme(c, members, startNext, expected) ==
  /\ tx = NoTx /\ allocation_revisions = {}
  /\ \E at \in {creationTime(c, startNext, expected, clock)} \ {0} :
     \E s \in {appendRevision([rows |-> {}, seq |-> sequence], at, at, c, members)} :
       tx' = [phase |-> "creating", schedule |-> c, startNext |-> startNext,
              expected |-> expected, at |-> at, rows |-> s.rows, seq |-> s.seq]
  /\ UNCHANGED <<clock, zone, allocation_revisions, sequence, captured, views, dialogs>>

creationChecked ==
  /\ tx.phase = "creating"
  /\ tx.expected # 0 => creationTime(tx.schedule, tx.startNext, tx.expected, clock) = tx.at
  /\ tx' = [tx EXCEPT !.phase = "checked"]
  /\ UNCHANGED <<clock, zone, allocation_revisions, sequence, captured, views, dialogs>>

-----------------------------------------------------------------------------
(* Changes of a scheme, each in three steps.                                  *)

openTx(v, op, c, members) ==
  /\ tx = NoTx /\ allocation_revisions # {}
  /\ \E state \in {readSchemeCore(allocation_revisions, clock)} :
       /\ checkVersions(v, state)
       /\ tx' = [phase |-> "opened", op |-> op, now |-> clock, state |-> state, schedule |-> c,
                 members |-> members, view |-> v]
  /\ views' = views \ {v}
  /\ UNCHANGED <<clock, zone, allocation_revisions, sequence, captured, dialogs>>

written(s, at, anchor) ==
  /\ tx' = [phase |-> "written", op |-> tx.op, state |-> tx.state, view |-> tx.view,
            now |-> 0, rows |-> s.rows, seq |-> s.seq, at |-> at, anchor |-> anchor]
  /\ UNCHANGED <<clock, zone, allocation_revisions, sequence, captured, views, dialogs>>

table == [rows |-> allocation_revisions, seq |-> nextId]

mApplyMembers(now) ==
  /\ tx.state.current # None /\ tx.state.current.members # tx.members
  /\ written(appendRevision(table, tx.state.current.at, tx.state.current.anchor, tx.state.current.schedule, tx.members),
             now, tx.state.current.anchor)

\* The new members take effect now, and in the scheduled revision too when its
\* rules can take them.
applyMembers(now) ==
  LET cur == tx.state.current
      nxt == tx.state.next
  IN  /\ cur # None
      /\ cur.members # tx.members
      /\ nxt # None => /\ nxt.members = cur.members
                       /\ (cur.schedule.mode = "ratio" /\ nxt.schedule.mode = "ratio")
                            \/ sameSchedule(cur.schedule, nxt.schedule)
      /\ \E s \in {appendRevision(table, now, cur.anchor, cur.schedule, tx.members)} :
           written(IF nxt = None THEN s ELSE appendRevision(s, nxt.at, nxt.anchor, nxt.schedule, tx.members),
                   now, cur.anchor)

UpdateMembers(v, members) == openTx(v, "members", [period |-> "none"], members)

\* UpdateMembers reads the clock again for the new revision; an update to apply
\* now, which may change nothing but members, uses the time it opened at.
membersWritten ==
  tx.phase = "opened" /\ tx.op = "members" /\ \E now \in {clock, tx.now} : applyMembers(now)

\* A schedule that differs must be confirmed as a replacement of the revision
\* in effect; one that is confirmed must differ.
replaces(state, c, confirmed) ==
  LET comparison == IF confirmed /\ state.current # None THEN state.current ELSE edited(state) IN
  ~sameSchedule(comparison.schedule, c)

updateScheme(v, c, members, confirmed) ==
  /\ allocation_revisions # {}
  /\ \E state \in {readSchemeCore(allocation_revisions, clock)} :
     \E initial \in {state.current = None /\ state.next # None}, changed \in {edited(state).members # members} :
       /\ replaces(state, c, confirmed) = confirmed
       /\ ~confirmed /\ changed => initial
       /\ initial /\ changed => ~AllocationHasEntries
  /\ openTx(v, IF confirmed THEN "replace" ELSE "schedule", c, members)

mReplacementAnchor(state, at, op) == edited(state).anchor

\* A replacement counts usage anew.
replacementAnchor(state, at, op) == IF op = "replace" THEN at ELSE edited(state).anchor

schemeWritten ==
  /\ tx.phase = "opened" /\ tx.op \in {"schedule", "replace"}
  /\ \E at \in {checkTime(tx.view.at, tx.state, "schedule", clock)} \ {0} :
     \E anchor \in {replacementAnchor(tx.state, at, tx.op)} :
       written(appendRevision(table, at, anchor, tx.schedule, tx.members), at, anchor)

ChangeSchedule(v, op) ==
  /\ allocation_revisions # {}
  /\ \E state \in {readSchemeCore(allocation_revisions, clock)} :
       state.next # None /\ (op = "cancel" => state.current # None)
  /\ openTx(v, op, [period |-> "none"], {})

\* Insert first; then the rows of the old time go.
scheduleWritten ==
  LET state == tx.state IN
  /\ tx.phase = "opened" /\ tx.op \in {"cancel", "reschedule"}
  /\ \E at \in {IF tx.op = "reschedule" THEN checkTime(tx.view.at, state, "reschedule", clock) ELSE 0} :
     \E anchor \in {IF tx.op = "reschedule" THEN rescheduledAnchor(state, at) ELSE 0} :
     \E moved \in {IF tx.op = "reschedule"
                   THEN appendRevision(table, at, anchor, state.next.schedule, state.next.members)
                   ELSE table} :
     \E s \in {DeleteAllocationPendingAt(moved, state.next.at, tx.now)} :
       /\ tx.op = "reschedule" => at # 0
       /\ NextAllocationRevision(s.rows, tx.now).id = IF tx.op = "reschedule" THEN s.seq ELSE 0
       /\ written(s, at, anchor)

mFinishChange ==
  /\ tx.phase = "written"
  /\ tx' = [tx EXCEPT !.phase = "checked", !.now = clock]
  /\ UNCHANGED <<clock, zone, allocation_revisions, sequence, captured, views, dialogs>>

\* The revision that was scheduled must not have started meanwhile, and the
\* time agreed to must still be the one the server would choose.
finishChange ==
  /\ tx.phase = "written"
  /\ tx.state.next # None => tx.state.next.at > clock
  /\ tx.op \in {"schedule", "replace"} => checkTime(tx.view.at, tx.state, "schedule", clock) # 0
  /\ tx.op = "reschedule" => checkTime(tx.view.at, tx.state, "reschedule", clock) # 0
  /\ tx' = [tx EXCEPT !.phase = "checked", !.now = clock]
  /\ UNCHANGED <<clock, zone, allocation_revisions, sequence, captured, views, dialogs>>

commit ==
  /\ tx.phase = "checked"
  /\ allocation_revisions' = tx.rows /\ sequence' = tx.seq
  /\ tx' = NoTx
  /\ UNCHANGED <<clock, zone, captured, views, dialogs>>

\* A refusal, an error, a client gone or a crash before the commit.
rollback ==
  /\ tx # NoTx /\ tx' = NoTx
  /\ UNCHANGED <<clock, zone, allocation_revisions, sequence, captured, views, dialogs>>

-----------------------------------------------------------------------------
(* Around the scheme.                                                         *)

\* Begin: a request admitted now captures the revision in effect.
Begin ==
  LET r == CurrentAllocationRevision(allocation_revisions, clock) IN
  IF tx = NoTx /\ r # None THEN captured \cup {[at |-> clock, revision |-> r.id]} ELSE captured

\* timezone.Save publishes the new location after its own transaction.  Bound:
\* locations are saved in one order.
SaveLocation(z) ==
  /\ z.order > zone.order /\ zone' = z
  /\ UNCHANGED <<clock, allocation_revisions, sequence, captured, views, dialogs, tx>>

\* A second ends, with a request admitted in it if the connection was free.
schemeTick ==
  /\ clock < MaxTime /\ clock' = clock + 1
  /\ captured' = Begin
  /\ UNCHANGED <<zone, allocation_revisions, sequence, views, dialogs, tx>>

-----------------------------------------------------------------------------
SchemesInit ==
  /\ clock = 1
  /\ zone \in Zones /\ \A z \in Zones : zone.order <= z.order
  /\ allocation_revisions = {} /\ sequence = 0 /\ captured = {}
  /\ views = {} /\ dialogs = 0
  /\ tx = NoTx

room == sequence < MaxRevisions

\* Changes of members and cancellations need no preview of their own: any
\* shows the revisions they are conditioned on.
shownFor(action) == {v \in views : v.action = action}

editorStep ==
  \/ \E action \in {"schedule", "reschedule", "replace"} : Preview(action)
  \/ \E c \in Schedules : PreviewInitial(c)
  \/ room /\ \E c \in Schedules, ms \in MemberSets, startNext \in BOOLEAN :
       \E expected \in {0} \cup {v.at : v \in shownFor("create")} :
         SaveScheme(c, ms, startNext, expected)
  \/ room /\ \E v \in shownFor("schedule"), ms \in MemberSets : UpdateMembers(v, ms)
  \/ room /\ \E confirmed \in BOOLEAN, c \in Schedules, ms \in MemberSets :
       \E v \in shownFor(IF confirmed THEN "replace" ELSE "schedule") : updateScheme(v, c, ms, confirmed)
  \/ room /\ \E v \in shownFor("schedule") : ChangeSchedule(v, "cancel")
  \/ room /\ \E v \in shownFor("reschedule") : ChangeSchedule(v, "reschedule")

SchemesNext ==
  \/ editorStep
  \/ creationChecked \/ membersWritten \/ schemeWritten \/ scheduleWritten
  \/ finishChange \/ commit \/ rollback
  \/ (\E z \in Zones : SaveLocation(z)) \/ schemeTick

SchemesSpec == SchemesInit /\ [][SchemesNext]_schemeVars

-----------------------------------------------------------------------------
(* Properties.                                                                *)

\* The types of the tables; ids are unique and below the sequence.
SchemesTypeOK ==
  /\ clock \in 1..MaxTime /\ zone \in Zones
  /\ \A r \in allocation_revisions :
       /\ r.id \in 1..sequence /\ r.at > 0 /\ r.anchor > 0 /\ r.schedule \in Schedules
       /\ r.members \in MemberSets
  /\ \A r, x \in allocation_revisions : r.id = x.id => r = x
  /\ tx.phase \in {"none", "creating", "opened", "written", "checked"}

\* At most one change is scheduled: whatever editors schedule, move, cancel and
\* change in between, the revisions still to come share one time.
OneSchedule ==
  Cardinality({r.at : r \in {x \in allocation_revisions : x.at > clock}}) <= 1

\* A change is committed against exactly the revisions its editor was shown:
\* both are, row for row, the ones in effect and scheduled when finishChange
\* looked, although the clock moved since the conditions were compared
\* (checkVersions, finishChange, AUTOINCREMENT).
CommittedAsSeen ==
  tx.phase = "checked" /\ "view" \in DOMAIN tx =>
    LET now == readSchemeCore(allocation_revisions, tx.now) IN
    tx.view.current = now.current /\ tx.view.next = now.next

\* What was shown is what is saved: the time and the accounting anchor of a
\* scheduled, replacing or moved revision are those of its preview.
PreviewKept ==
  tx.phase = "checked" /\ "view" \in DOMAIN tx =>
    (tx.op \in {"schedule", "replace", "reschedule"} => tx.at = tx.view.at /\ tx.anchor = tx.view.anchor)

\* No change is retroactive: in an earlier second than a request's start, no
\* revision ever takes precedence over the one the request captured.
NotRetroactive ==
  \A x \in captured : \A r \in allocation_revisions :
    r.at < x.at => \E own \in allocation_revisions : own.id = x.revision /\ later(own, r)

\* The revisions that have been in effect.
served == {CurrentAllocationRevision(allocation_revisions, t) : t \in 0..clock} \ {None}

\* Usage is added up from the accounting anchor: revisions in effect that share
\* one also share the windows usage is counted in.
AnchorSchedule ==
  \A r, x \in served : r.anchor = x.anchor => sameSchedule(r.schedule, x.schedule)

\* A replacement starts where the longest window it ends closes: a change of
\* schedule never cuts a window of a duration short, however often it is moved
\* and whatever changes of members come in between.
WindowsWhole ==
  \A r, x \in served :
    /\ x.anchor > r.anchor /\ r.schedule.period = "durations"
    /\ \A y \in served : ~(r.anchor < y.anchor /\ y.anchor < x.anchor)
    => (x.anchor - r.anchor) % Max(r.schedule.windows) = 0

\* Nothing a request captured is deleted, and no revision is ever altered.
RevisionsKept ==
  [][\A r \in allocation_revisions :
       \/ r \in allocation_revisions'
       \/ r.at > tx.now /\ (\A x \in captured : x.revision # r.id)
          /\ \A x \in allocation_revisions' : x.id # r.id]_schemeVars

\* A change commits what its editor was shown, against the revisions it was shown, and touches no other.
ChangesAsShown == [](SchemesTypeOK /\ CommittedAsSeen /\ PreviewKept) /\ RevisionsKept

\* The revisions form one line in time: one is scheduled at most, none is retroactive, and none cuts an
\* accounting window short or counts usage in windows it was not measured in.
RevisionsOrdered == OneSchedule /\ NotRetroactive /\ AnchorSchedule /\ WindowsWhole
=============================================================================
