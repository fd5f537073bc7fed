---------------------------- MODULE ResetCredits ----------------------------
(***************************************************************************)
(* Redemption of a Codex account's reset cards (internal/resets with       *)
(* internal/gateway/resets.go).  A manual call or a worker's check decides *)
(* to spend a card, commits a pending attempt with a fresh key, calls the  *)
(* provider and records the answer; an unresolved attempt is replayed by   *)
(* an administrator with the same key and card.  The process may stop      *)
(* between any two of these steps, and an answer or its record may be lost.*)
(*                                                                         *)
(* One account in one time zone; time is in days, and day d has at most    *)
(* one scheduled occurrence, d.  Rows of skipped checks are display only,  *)
(* apart from their occurrence and the room they take up in the history.   *)
(***************************************************************************)
EXTENDS Integers, FiniteSets

CONSTANTS
  Callers,     \* calls that may run at the same time (browsers and workers)
  Cards,       \* cards the provider has granted
  Configs,     \* settings an administrator saves
  MaxKeys,     \* bound on attempts
  MaxDay,      \* bound on time
  MaxChanges,  \* bound on edits of the settings and of the account
  MaxCrashes   \* bound on restarts

Nobody == "nobody"
NoCard == "none"
Keys == 1..MaxKeys

ASSUME SetsAssumption ==
  /\ Nobody \notin Callers /\ NoCard \notin Cards
  /\ IsFiniteSet(Cards)
  /\ Configs \subseteq [scheduled : BOOLEAN, exhausted : BOOLEAN, date : Nat, limit : Nat \ {0}]
  /\ {MaxKeys, MaxDay, MaxChanges, MaxCrashes} \subseteq Nat

VARIABLES
  day,          \* the clock
  settings,     \* accounts.reset_config
  revision,     \* accounts.reset_revision
  nextRun,      \* accounts.reset_next_run_at, 0 for none
  enabled,      \* the account is enabled and needs no authorization
  credentials,  \* accounts.models_revision, raised by a reauthorization
  attempts,     \* reset_runs with a key: outcome, card and day of each
  handled,      \* occurrences that have a row in reset_runs
  busy,         \* Service.busy of the account: its holder
  pc,           \* where each call stands
  seen,         \* seen[c]: what the call has read
  closed,       \* Service.closed
  cards,        \* the provider: cards not spent
  spent,        \* the provider: spent[k] is the card redeemed by key k
  crashes

stored == <<settings, revision, nextRun, attempts, handled>>
provider == <<cards, spent>>
vars == <<day, stored, enabled, credentials, busy, pc, seen, closed, provider, crashes>>

Answers == {"lost", "reset", "already_redeemed", "nothing_to_reset", "no_credit"}
NoAttempt == [outcome |-> "none", card |-> NoCard, day |-> 0]
Unread == [settings |-> CHOOSE c \in Configs : TRUE, revision |-> 0, credentials |-> 0,
           occurrence |-> 0, card |-> NoCard, key |-> 0, answer |-> "lost"]

Init ==
  /\ day = 1
  /\ settings \in Configs /\ ~settings.scheduled
  /\ revision = 0
  /\ nextRun = 0
  /\ enabled = TRUE
  /\ credentials = 0
  /\ attempts = [k \in Keys |-> NoAttempt]
  /\ handled = {}
  /\ busy = Nobody
  /\ pc = [c \in Callers |-> "idle"]
  /\ seen = [c \in Callers |-> Unread]
  /\ closed = FALSE
  /\ cards = Cards
  /\ spent = [k \in Keys |-> NoCard]
  /\ crashes = 0

Pending == {k \in Keys : attempts[k].outcome = "pending"}
Fresh == {k \in Keys : attempts[k].outcome = "none"}

\* CountResetUsage: attempts of the day that have spent a card or may have.
UsedToday == Cardinality({k \in Keys : attempts[k].outcome \in {"pending", "success"}
                                        /\ attempts[k].day = day})

-----------------------------------------------------------------------------
(* Settings and the schedule *)

\* Daily, or once on a date.
nextOccurrence(c) ==
  IF ~c.scheduled THEN 0
  ELSE IF c.date = 0 THEN day + 1
  ELSE IF c.date > day THEN c.date ELSE 0

\* lock: one call at a time works on the account.
lock(c) == pc[c] = "idle" /\ ~closed /\ busy = Nobody

unlock(c) == busy' = Nobody /\ pc' = [pc EXCEPT ![c] = "idle"] /\ seen' = [seen EXCEPT ![c] = Unread]

\* A one-time run that has been taken is not taken again by saving it again.
completedOnce(c) ==
  settings.scheduled /\ settings.date # 0 /\ nextRun = 0 /\ settings.date = c.date

Save(c) ==
  /\ lock(c)
  /\ revision + credentials < MaxChanges
  /\ \E s \in Configs :
       LET next == IF completedOnce(s) THEN 0 ELSE nextOccurrence(s)
       IN  /\ s.scheduled /\ s.date # 0 /\ next = 0 => completedOnce(s)
           /\ settings' = s
           /\ nextRun' = next
  /\ revision' = revision + 1
  /\ UNCHANGED <<day, attempts, handled, enabled, credentials, busy, pc, seen, closed, provider,
                 crashes>>

-----------------------------------------------------------------------------
(* Run: decide, inspect, reserve, redeem, record *)

Read(occurrence) ==
  [Unread EXCEPT !.settings = settings, !.revision = revision, !.credentials = credentials,
                 !.occurrence = occurrence]

\* PruneResetRuns, at the end of a run: resolved attempts of earlier days that
\* are not among the newest rows.  How many rows are newer depends on the rows of
\* skipped checks, and the statement may fail.
mPrunable(a) == {k \in Keys : a[k].outcome \in {"success", "skipped"}}

prunable(a) == {k \in Keys : a[k].outcome \in {"success", "skipped"} /\ a[k].day < day}

prune(a) ==
  \E S \in SUBSET prunable(a) :
    attempts' = [k \in Keys |-> IF k \in S THEN [a[k] EXCEPT !.outcome = "pruned"] ELSE a[k]]

\* The row of an occurrence that was skipped, unless that write fails.
recordSkip(occurrence) ==
  /\ handled' = handled \/ handled' = handled \cup ({occurrence} \ {0})
  /\ prune(attempts)

\* A usable account is inspected next, with the lock held; otherwise the run is
\* skipped.
Decide(c, occurrence) ==
  \/ /\ enabled
     /\ busy' = c
     /\ pc' = [pc EXCEPT ![c] = "inspect"]
     /\ seen' = [seen EXCEPT ![c] = Read(occurrence)]
     /\ UNCHANGED <<attempts, handled>>
  \/ ~enabled /\ recordSkip(occurrence) /\ UNCHANGED <<busy, pc, seen>>

RunManual(c) ==
  /\ lock(c)
  /\ Pending = {}
  /\ Decide(c, 0)
  /\ UNCHANGED <<day, settings, revision, nextRun, enabled, credentials, closed, provider, crashes>>

due == settings.scheduled /\ nextRun # 0 /\ nextRun <= day

mClaim == UNCHANGED nextRun

\* AdvanceResetSchedule: the due occurrence is claimed by moving on to the next.
claim == nextRun' = nextOccurrence(settings)

\* An occurrence more than five minutes old is missed.
RunScheduled(c) ==
  /\ lock(c)
  /\ Pending = {}
  /\ due
  /\ claim
  /\ \/ nextRun = day /\ Decide(c, nextRun)
     \/ recordSkip(nextRun) /\ UNCHANGED <<busy, pc, seen>>
  /\ UNCHANGED <<day, settings, revision, enabled, credentials, closed, provider, crashes>>

RunExhausted(c) ==
  /\ lock(c)
  /\ Pending = {}
  /\ ~due /\ settings.exhausted
  /\ Decide(c, 0)
  /\ UNCHANGED <<day, settings, revision, nextRun, enabled, credentials, closed, provider, crashes>>

skip(c) == recordSkip(seen[c].occurrence) /\ unlock(c)

\* Quota and inventory are read from the provider; PrepareCards picks a card.
Inspect(c) ==
  /\ pc[c] = "inspect"
  /\ \/ \E card \in cards :
          /\ pc' = [pc EXCEPT ![c] = "reserve"]
          /\ seen' = [seen EXCEPT ![c].card = card]
          /\ UNCHANGED <<attempts, busy, handled>>
     \/ skip(c)
  /\ UNCHANGED <<day, settings, revision, nextRun, enabled, credentials, closed, provider, crashes>>

\* Neither the account nor its settings changed while the provider was asked.
unchanged(c) ==
  enabled /\ seen[c].credentials = credentials /\ seen[c].revision = revision

\* The pending attempt commits before the provider is called.
Reserve(c) ==
  /\ pc[c] = "reserve"
  /\ unchanged(c) /\ Pending = {} /\ UsedToday < seen[c].settings.limit
  /\ seen[c].occurrence \notin handled
  /\ \E k \in Fresh :
       /\ \A j \in Fresh : k <= j
       /\ attempts' = [attempts EXCEPT ![k] = [outcome |-> "pending", card |-> seen[c].card, day |-> day]]
       /\ seen' = [seen EXCEPT ![c].key = k]
  /\ handled' = handled \cup ({seen[c].occurrence} \ {0})
  /\ pc' = [pc EXCEPT ![c] = "redeem"]
  /\ UNCHANGED <<day, settings, revision, nextRun, enabled, credentials, busy, closed, provider, crashes>>

\* The account or its settings changed, or the daily limit is reached.
ReserveSkipped(c) ==
  /\ pc[c] = "reserve"
  /\ ~unchanged(c) \/ UsedToday >= seen[c].settings.limit
  /\ skip(c)
  /\ UNCHANGED <<day, settings, revision, nextRun, enabled, credentials, closed, provider, crashes>>

\* An administrator replays the pending attempt, with its key and its card.
mFreshKey(c) ==
  \E k \in Fresh, card \in cards : seen' = [seen EXCEPT ![c].key = k, ![c].card = card]

replay(c) ==
  \E k \in Pending : seen' = [seen EXCEPT ![c].key = k, ![c].card = attempts[k].card]

Retry(c) ==
  /\ lock(c)
  /\ enabled
  /\ Pending # {}
  /\ replay(c)
  /\ busy' = c
  /\ pc' = [pc EXCEPT ![c] = "redeem"]
  /\ UNCHANGED <<day, stored, enabled, credentials, closed, provider, crashes>>

\* The provider, idempotent in the key: a used key is recognised, otherwise the
\* card is spent if there is something to reset.  The answer may be lost.
Redeem(c) ==
  LET key == seen[c].key  card == seen[c].card
      Answered(a) == seen' = [seen EXCEPT ![c].answer = a]
  IN  /\ pc[c] = "redeem"
      /\ \/ UNCHANGED provider /\ Answered("lost")
         \/ /\ spent[key] # NoCard
            /\ Answered("already_redeemed")
            /\ UNCHANGED provider
         \/ /\ spent[key] = NoCard /\ card \in cards
            /\ spent' = [spent EXCEPT ![key] = card]
            /\ cards' = cards \ {card}
            /\ Answered("reset") \/ Answered("lost")
         \/ /\ spent[key] = NoCard
            /\ Answered("nothing_to_reset") \/ (card \notin cards /\ Answered("no_credit"))
            /\ UNCHANGED provider
      /\ pc' = [pc EXCEPT ![c] = "record"]
      /\ UNCHANGED <<day, stored, enabled, credentials, busy, closed, crashes>>

mLostIsSkipped(answer) ==
  IF answer \in {"reset", "already_redeemed"} THEN "success" ELSE "skipped"

outcomeOf(answer) ==
  IF answer \in {"reset", "already_redeemed"} THEN "success"
  ELSE IF answer \in {"nothing_to_reset", "no_credit"} THEN "skipped"
  ELSE "pending"

\* consume writes the answer, unless that write fails; FinishResetRun touches a
\* pending row only, and drops its card once it is resolved.
Record(c) ==
  LET key == seen[c].key  result == outcomeOf(seen[c].answer)
  IN  /\ pc[c] = "record"
      /\ \/ UNCHANGED attempts
         \/ /\ attempts[key].outcome = "pending"
            /\ prune([attempts EXCEPT ![key].outcome = result,
                         ![key].card = IF result = "pending" THEN @ ELSE NoCard])
      /\ unlock(c)
      /\ UNCHANGED <<day, settings, revision, nextRun, handled, enabled, credentials, closed, provider,
                     crashes>>

\* A call may fail anywhere before its reservation commits.
Fail(c) ==
  /\ pc[c] = "reserve"
  /\ unlock(c)
  /\ UNCHANGED <<day, stored, enabled, credentials, closed, provider, crashes>>

-----------------------------------------------------------------------------
(* Elsewhere *)

\* accounts.save of an existing account: same identity, new credential.
Reauthorize ==
  /\ revision + credentials < MaxChanges
  /\ credentials' = credentials + 1
  /\ enabled' = TRUE
  /\ UNCHANGED <<day, stored, busy, pc, seen, closed, provider, crashes>>

\* SetEnabled, or a rejected credential.
SetEnabled ==
  /\ enabled' = ~enabled
  /\ UNCHANGED <<day, stored, credentials, busy, pc, seen, closed, provider, crashes>>

\* A card is used in the provider's own application, or expires.
SpendElsewhere ==
  /\ \E card \in cards : cards' = cards \ {card}
  /\ UNCHANGED <<day, stored, enabled, credentials, busy, pc, seen, closed, spent, crashes>>

Close ==
  /\ ~closed
  /\ closed' = TRUE
  /\ UNCHANGED <<day, stored, enabled, credentials, busy, pc, seen, provider, crashes>>

\* The process stops, from any state, and starts again.
Restart ==
  /\ crashes < MaxCrashes
  /\ crashes' = crashes + 1
  /\ busy' = Nobody
  /\ pc' = [c \in Callers |-> "idle"]
  /\ seen' = [c \in Callers |-> Unread]
  /\ closed' = FALSE
  /\ UNCHANGED <<day, stored, enabled, credentials, provider>>

Tick ==
  /\ day < MaxDay
  /\ day' = day + 1
  /\ UNCHANGED <<stored, enabled, credentials, busy, pc, seen, closed, provider, crashes>>

Next ==
  \/ \E c \in Callers :
       \/ Save(c) \/ RunManual(c) \/ RunScheduled(c) \/ RunExhausted(c) \/ Inspect(c)
       \/ Reserve(c) \/ ReserveSkipped(c) \/ Retry(c) \/ Redeem(c) \/ Record(c) \/ Fail(c)
  \/ Reauthorize \/ SetEnabled \/ SpendElsewhere \/ Close \/ Restart \/ Tick

Spec == Init /\ [][Next]_vars

-----------------------------------------------------------------------------
(* Properties *)

Outcomes == {"none", "pending", "success", "skipped", "pruned"}

TypeOK ==
  /\ day \in Nat /\ revision \in Nat /\ credentials \in Nat /\ nextRun \in Nat /\ crashes \in Nat
  /\ settings \in Configs
  /\ enabled \in BOOLEAN /\ closed \in BOOLEAN
  /\ attempts \in [Keys -> [outcome : Outcomes, card : Cards \cup {NoCard}, day : Nat]]
  /\ handled \subseteq Nat
  /\ busy \in Callers \cup {Nobody}
  /\ pc \in [Callers -> {"idle", "inspect", "reserve", "redeem", "record"}]
  /\ seen \in [Callers -> [settings : Configs, revision : Nat, credentials : Nat, occurrence : Nat,
                           card : Cards \cup {NoCard}, key : Keys \cup {0}, answer : Answers]]
  /\ cards \subseteq Cards
  /\ spent \in [Keys -> Cards \cup {NoCard}]

Spent == {k \in Keys : spent[k] # NoCard}

\* SpendAccounted: a card the provider has taken is always on record as used or
\* as unresolved, whatever call, answer or write was lost or wherever the process
\* stopped: never as skipped and never under a key without a row.  While it is
\* unresolved the row still names the card that was taken, so a replay can ask for
\* that one (Run's reservation before IO, consume, FinishResetRun).
SpendAccounted ==
  \A k \in Spent :
    /\ attempts[k].outcome \in {"pending", "success", "pruned"}
    /\ attempts[k].outcome = "pending" => attempts[k].card = spent[k]

\* NoSpendWhileUncertain: no card is taken while another taken card is still
\* unresolved; uncertainty is settled by replaying its own key, never by a second
\* attempt (PendingResetRun in Run, Retry).
NoSpendWhileUncertain ==
  [][\A k \in Keys : spent[k] = NoCard /\ spent'[k] # NoCard =>
       \A j \in Spent : attempts[j].outcome \in {"success", "pruned"}]_vars

\* DailyLimitKept: a new attempt is reserved only while the cards really taken by
\* attempts of the day are fewer than the limit in force, whatever pruning of the
\* history and edits of the settings came before it (CountResetUsage, prune).
DailyLimitKept ==
  [][\A k \in Keys : attempts[k].outcome = "none" /\ attempts'[k].outcome = "pending" =>
       Cardinality({j \in Spent : attempts[j].day = day}) < settings.limit]_vars

\* ClaimedOnce: an occurrence being worked on has no row yet and the schedule has
\* moved past it, so no later check, save or restart works on it again, and the
\* insert of its row is never ignored (AdvanceResetSchedule in Run, completedOnce).
ClaimedOnce ==
  \A c \in Callers : seen[c].occurrence # 0 /\ pc[c] \in {"inspect", "reserve"} =>
    /\ seen[c].occurrence \notin handled
    /\ nextRun # 0 => nextRun > seen[c].occurrence

\* Every card the provider has taken is on record with its attempt, and no occurrence of a schedule is
\* worked on twice, whatever call, answer or write was lost.
CardsAccounted == TypeOK /\ SpendAccounted /\ ClaimedOnce

\* No card is taken beside an unresolved one or beyond the day's limit.
SpendsGuarded == NoSpendWhileUncertain /\ DailyLimitKept
=============================================================================
