---------------------------- MODULE Quotas_proofs ----------------------------
(***************************************************************************)
(* Proofs about ResetCredits, Schemes and Calendar, for every set of       *)
(* callers, cards, settings, schedules, members and zones, and every bound.*)
(*                                                                         *)
(* Of the cards, SpendAccounted is not inductive by itself: it needs that  *)
(* the call between reservation and record works on the one pending row    *)
(* (OnePending, Underway) and that a refusal it is about to record is the  *)
(* provider's own (AnswerTruthful).  The daily limit needs that pruned     *)
(* rows are of earlier days, and the schedule that it stays ahead of every *)
(* occurrence on record.                                                   *)
(*                                                                         *)
(* Of the revisions, the invariant is a line in time (Line) that a change  *)
(* under way already holds for the tables it prepares (Written, Finished), *)
(* with what was shown, read and captured tied to the rows it came from.   *)
(***************************************************************************)
EXTENDS ResetCredits, Schemes, FiniteSetTheorems, WellFoundedInduction, TLAPS

Attempt == [outcome : Outcomes, card : Cards \cup {NoCard}, day : Nat]
Call == [settings : Configs, revision : Nat, credentials : Nat, occurrence : Nat,
         card : Cards \cup {NoCard}, key : Keys \cup {0}, answer : Answers]

\* The call at work on the account holds its lock.
SingleHolder == \A c \in Callers : pc[c] # "idle" => busy = c

OnePending ==
  \A j, k \in Keys : attempts[j].outcome = "pending" /\ attempts[k].outcome = "pending" => j = k

Underway ==
  \A c \in Callers : pc[c] \in {"redeem", "record"} =>
    /\ seen[c].key \in Keys
    /\ attempts[seen[c].key].outcome = "pending"
    /\ attempts[seen[c].key].card = seen[c].card

AnswerTruthful ==
  \A c \in Callers : pc[c] = "record" /\ seen[c].answer \in {"nothing_to_reset", "no_credit"} =>
    spent[seen[c].key] = NoCard

SettingsHeld ==
  \A c \in Callers : pc[c] \in {"inspect", "reserve"} => seen[c].settings = settings

PrunedAreOld == \A k \in Keys : attempts[k].outcome = "pruned" => attempts[k].day < day

ScheduleAhead ==
  /\ \A h \in handled : h <= day /\ (nextRun # 0 => h < nextRun)
  /\ \A c \in Callers : pc[c] \in {"inspect", "reserve"} => seen[c].occurrence <= day

SpendInv == OnePending /\ Underway /\ AnswerTruthful /\ SpendAccounted /\ PrunedAreOld
CallInv == SingleHolder /\ SettingsHeld /\ ScheduleAhead /\ ClaimedOnce

IInv == TypeOK /\ SpendInv /\ CallInv

-----------------------------------------------------------------------------
(* What the shared parts of a step do *)

\* prune: rows keep their card and their day, and only resolved rows of earlier
\* days leave the history.
LEMMA PruneEffect ==
  ASSUME NEW a \in [Keys -> Attempt], day \in Nat, prune(a)
  PROVE  /\ attempts' \in [Keys -> Attempt]
         /\ \A k \in Keys :
              /\ attempts'[k].card = a[k].card /\ attempts'[k].day = a[k].day
              /\ \/ attempts'[k].outcome = a[k].outcome
                 \/ /\ attempts'[k].outcome = "pruned"
                    /\ a[k].outcome \in {"success", "skipped"} /\ a[k].day < day
  BY DEF prune, prunable, Attempt, Outcomes

\* A new call's copy of what it read has the type of one.
LEMMA UnreadType ==
  ASSUME settings \in Configs, revision \in Nat, credentials \in Nat, NEW o \in Nat
  PROVE  Unread \in Call /\ Read(o) \in Call
  <1>1. (CHOOSE c \in Configs : TRUE) \in Configs
    OBVIOUS
  <1>2. Unread \in Call
    BY <1>1 DEF Unread, Call, Answers
  <1> QED
    BY <1>2 DEF Read, Call

\* nextOccurrence lies in the future, if there is one.
LEMMA NextIsLater ==
  ASSUME NEW c \in Configs, day \in Nat
  PROVE  nextOccurrence(c) \in Nat /\ (nextOccurrence(c) # 0 => nextOccurrence(c) > day)
  BY SetsAssumption DEF nextOccurrence

\* The attempts of a step that reserves nothing and records nothing.
AttemptsKept ==
  \A k \in Keys :
    /\ attempts'[k].card = attempts[k].card /\ attempts'[k].day = attempts[k].day
    /\ \/ attempts'[k].outcome = attempts[k].outcome
       \/ /\ attempts'[k].outcome = "pruned"
          /\ attempts[k].outcome \in {"success", "skipped"} /\ attempts[k].day < day

\* The calls that have reserved do not move in a step of another kind.
ReservedKept ==
  \A c \in Callers : pc'[c] \in {"redeem", "record"} => pc[c] = pc'[c] /\ seen'[c] = seen[c]

\* Such a step preserves what is known of the cards.
LEMMA SpendFrame ==
  ASSUME TypeOK, SpendInv, AttemptsKept, ReservedKept, spent' = spent, day' \in Nat, day <= day'
  PROVE  SpendInv'
  <1> USE DEF TypeOK, SpendInv, Attempt, Outcomes
  <1>1. OnePending'
    BY DEF OnePending, AttemptsKept
  <1>2. Underway'
    BY DEF Underway, AttemptsKept, ReservedKept
  <1>3. AnswerTruthful'
    BY DEF AnswerTruthful, ReservedKept
  <1>4. SpendAccounted'
    BY DEF SpendAccounted, Spent, AttemptsKept
  <1>5. PrunedAreOld'
    BY DEF PrunedAreOld, AttemptsKept
  <1> QED
    BY <1>1, <1>2, <1>3, <1>4, <1>5

\* A step that leaves the lock, the schedule and the calls alone.
LEMMA CallFrame ==
  ASSUME TypeOK, CallInv, UNCHANGED <<busy, pc, seen, settings, nextRun, handled>>,
         day' \in Nat, day <= day'
  PROVE  CallInv'
  BY DEF TypeOK, Call, CallInv, SingleHolder, SettingsHeld, ScheduleAhead, ClaimedOnce

\* A step after which no call is at work, its own occurrence being put on record
\* or lost.
LEMMA CallEnds ==
  ASSUME TypeOK, CallInv, NEW c \in Callers, pc[c] # "idle", unlock(c),
         UNCHANGED <<day, settings, nextRun>>,
         handled' = handled \/ (/\ pc[c] \in {"inspect", "reserve"}
                                /\ handled' = handled \cup ({seen[c].occurrence} \ {0}))
  PROVE  CallInv' /\ ReservedKept
  <1>1. \A d \in Callers : pc'[d] = "idle"
    BY DEF TypeOK, CallInv, SingleHolder, unlock
  <1>2. \A h \in handled' : h <= day /\ (nextRun # 0 => h < nextRun)
    <2>1. seen[c].occurrence \in Nat /\ nextRun \in Nat /\ day \in Nat
      BY DEF TypeOK
    <2>2. pc[c] \in {"inspect", "reserve"} /\ seen[c].occurrence # 0 =>
            seen[c].occurrence <= day /\ (nextRun # 0 => seen[c].occurrence < nextRun)
      BY <2>1 DEF CallInv, ScheduleAhead, ClaimedOnce
    <2> QED
      BY <2>2 DEF CallInv, ScheduleAhead
  <1> QED
    BY <1>1, <1>2 DEF CallInv, SingleHolder, SettingsHeld, ScheduleAhead, ClaimedOnce, ReservedKept

\* Decide: either the call goes on, with the lock, or its occurrence is recorded.
LEMMA DecideEffect ==
  ASSUME TypeOK, SpendInv, NEW c \in Callers, NEW o \in Nat, Decide(c, o)
  PROVE  /\ attempts' \in [Keys -> Attempt] /\ AttemptsKept
         /\ \/ /\ busy' = c /\ pc' = [pc EXCEPT ![c] = "inspect"]
               /\ seen' = [seen EXCEPT ![c] = Read(o)] /\ UNCHANGED handled
            \/ /\ UNCHANGED <<busy, pc, seen>>
               /\ handled' = handled \/ handled' = handled \cup ({o} \ {0})
  <1>1. CASE /\ enabled /\ busy' = c /\ pc' = [pc EXCEPT ![c] = "inspect"]
             /\ seen' = [seen EXCEPT ![c] = Read(o)] /\ UNCHANGED <<attempts, handled>>
    BY <1>1 DEF TypeOK, Attempt, AttemptsKept
  <1>2. CASE ~enabled /\ recordSkip(o) /\ UNCHANGED <<busy, pc, seen>>
    <2>1. prune(attempts) /\ day \in Nat /\ attempts \in [Keys -> Attempt]
      BY <1>2 DEF recordSkip, TypeOK, Attempt
    <2> QED
      BY <1>2, <2>1, PruneEffect DEF recordSkip, AttemptsKept
  <1> QED
    BY <1>1, <1>2 DEF Decide

\* skip(c): the call ends and its occurrence is on record, or that write failed.
LEMMA SkipEffect ==
  ASSUME TypeOK, NEW c \in Callers, skip(c)
  PROVE  /\ attempts' \in [Keys -> Attempt] /\ AttemptsKept
         /\ unlock(c)
         /\ handled' = handled \/ handled' = handled \cup ({seen[c].occurrence} \ {0})
  <1>1. prune(attempts) /\ day \in Nat /\ attempts \in [Keys -> Attempt]
    BY DEF skip, recordSkip, TypeOK, Attempt
  <1> QED
    BY <1>1, PruneEffect DEF skip, recordSkip, AttemptsKept

\* unlock leaves the calls well typed.
LEMMA UnlockType ==
  ASSUME TypeOK, NEW c \in Callers, unlock(c)
  PROVE  /\ busy' \in Callers \cup {Nobody}
         /\ pc' \in [Callers -> {"idle", "inspect", "reserve", "redeem", "record"}]
         /\ seen' \in [Callers -> Call]
  <1>1. Unread \in Call
    BY UnreadType DEF TypeOK
  <1> QED
    BY <1>1 DEF TypeOK, unlock, Call

\* A check that starts: settings and schedule are as the call read them.
LEMMA CallStarts ==
  ASSUME TypeOK, CallInv, NEW c \in Callers, lock(c), NEW o \in Nat,
         pc' = [pc EXCEPT ![c] = "inspect"], seen' = [seen EXCEPT ![c] = Read(o)], busy' = c,
         UNCHANGED <<day, settings, handled>>, nextRun' \in Nat,
         nextRun' = nextRun \/ nextRun' = 0 \/ nextRun' > day,
         o = 0 \/ (o = day /\ o = nextRun /\ nextRun' # nextRun)
  PROVE  CallInv' /\ ReservedKept
  <1>1. \A d \in Callers : d # c => pc'[d] = "idle"
    BY SetsAssumption DEF TypeOK, CallInv, SingleHolder, lock
  <1>2. pc'[c] = "inspect" /\ seen'[c] = Read(o)
    BY DEF TypeOK
  <1>3. Read(o).settings = settings /\ Read(o).occurrence = o
    BY DEF Read, Unread
  <1>4. \A h \in handled : h <= day /\ (nextRun' # 0 => h < nextRun')
    BY DEF TypeOK, CallInv, ScheduleAhead
  <1>5. o # 0 => o \notin handled /\ (nextRun' # 0 => nextRun' > o)
    BY DEF TypeOK, CallInv, ScheduleAhead
  <1> QED
    BY <1>1, <1>2, <1>3, <1>4, <1>5
    DEF TypeOK, CallInv, SingleHolder, SettingsHeld, ScheduleAhead, ClaimedOnce, ReservedKept

\* An occurrence that is claimed and only recorded, or a save of the settings.
LEMMA ScheduleMoves ==
  ASSUME TypeOK, CallInv, NEW c \in Callers, lock(c), UNCHANGED <<busy, pc, seen, day>>,
         nextRun' \in Nat, nextRun' = 0 \/ nextRun' > day,
         handled' = handled \/ (nextRun <= day /\ handled' = handled \cup ({nextRun} \ {0}))
  PROVE  CallInv' /\ ReservedKept
  <1>1. \A d \in Callers : pc'[d] = "idle"
    BY SetsAssumption DEF TypeOK, CallInv, SingleHolder, lock
  <1>2. \A h \in handled' : h <= day /\ (nextRun' # 0 => h < nextRun')
    <2>1. \A h \in handled : h \in Nat /\ h <= day
      BY DEF TypeOK, CallInv, ScheduleAhead
    <2>2. \A h \in handled' : h \in Nat /\ h <= day
      BY <2>1 DEF TypeOK
    <2> QED
      BY <2>2 DEF TypeOK
  <1> QED
    BY <1>1, <1>2 DEF CallInv, SingleHolder, SettingsHeld, ScheduleAhead, ClaimedOnce, ReservedKept

-----------------------------------------------------------------------------
(* The steps *)

\* The checks that decide: manual, scheduled, exhausted.
LEMMA RunSteps ==
  ASSUME IInv, NEW c \in Callers, RunManual(c) \/ RunScheduled(c) \/ RunExhausted(c)
  PROVE  IInv'
  <1> USE DEF IInv
  <1>0. TypeOK /\ SpendInv /\ CallInv /\ lock(c)
    BY DEF RunManual, RunScheduled, RunExhausted
  <1>1. UNCHANGED <<day, settings, revision, enabled, credentials, closed, provider, crashes>>
    BY DEF RunManual, RunScheduled, RunExhausted
  <1>2. \/ Decide(c, 0) /\ UNCHANGED nextRun
        \/ due /\ claim /\ nextRun = day /\ Decide(c, nextRun)
        \/ due /\ claim /\ recordSkip(nextRun) /\ UNCHANGED <<busy, pc, seen>>
    BY DEF RunManual, RunScheduled, RunExhausted
  <1>3. day \in Nat /\ nextRun \in Nat /\ attempts \in [Keys -> Attempt] /\ spent' = spent
    BY <1>0, <1>1 DEF TypeOK, Attempt, provider
  <1>4. claim /\ due => nextRun' \in Nat /\ (nextRun' = 0 \/ nextRun' > day) /\ nextRun <= day
    BY <1>0, NextIsLater DEF TypeOK, claim, due
  <1>5. ASSUME NEW o \in Nat, Decide(c, o), nextRun' \in Nat,
               nextRun' = nextRun \/ nextRun' = 0 \/ nextRun' > day,
               o = 0 \/ (o = day /\ o = nextRun /\ nextRun' # nextRun),
               o = 0 => nextRun' = nextRun
        PROVE  /\ attempts' \in [Keys -> Attempt] /\ AttemptsKept /\ ReservedKept /\ CallInv'
               /\ seen' \in [Callers -> Call] /\ handled' \subseteq Nat
               /\ busy' \in Callers \cup {Nobody}
               /\ pc' \in [Callers -> {"idle", "inspect", "reserve", "redeem", "record"}]
    <2>1. attempts' \in [Keys -> Attempt] /\ AttemptsKept
      BY <1>0, <1>5, DecideEffect
    <2>2. Read(o) \in Call
      BY <1>0, UnreadType DEF TypeOK
    <2>3. CASE /\ busy' = c /\ pc' = [pc EXCEPT ![c] = "inspect"]
               /\ seen' = [seen EXCEPT ![c] = Read(o)] /\ UNCHANGED handled
      <3>1. CallInv' /\ ReservedKept
        BY <1>0, <1>1, <1>5, <2>3, CallStarts
      <3> QED
        BY <1>0, <2>1, <2>2, <2>3, <3>1 DEF TypeOK, Call
    <2>4. CASE /\ UNCHANGED <<busy, pc, seen>>
               /\ handled' = handled \/ handled' = handled \cup ({o} \ {0})
      <3>1. CASE o = 0
        <4>1. handled' = handled /\ nextRun' = nextRun
          BY <1>5, <2>4, <3>1
        <4>2. CallInv'
          BY <1>0, <1>1, <1>3, <2>4, <4>1, CallFrame
        <4> QED
          BY <1>0, <2>1, <2>4, <4>1, <4>2 DEF TypeOK, Call, ReservedKept
      <3>2. CASE o # 0
        <4>1. CallInv' /\ ReservedKept
          BY <1>0, <1>1, <1>3, <1>5, <2>4, <3>2, ScheduleMoves
        <4> QED
          BY <1>0, <2>1, <2>4, <4>1 DEF TypeOK, Call
      <3> QED
        BY <3>1, <3>2
    <2> QED
      BY <1>0, <1>5, <2>3, <2>4, DecideEffect
  <1>6. /\ attempts' \in [Keys -> Attempt] /\ AttemptsKept /\ ReservedKept /\ CallInv'
        /\ seen' \in [Callers -> Call] /\ handled' \subseteq Nat
        /\ busy' \in Callers \cup {Nobody}
        /\ pc' \in [Callers -> {"idle", "inspect", "reserve", "redeem", "record"}]
        /\ nextRun' \in Nat
    <2>1. CASE Decide(c, 0) /\ UNCHANGED nextRun
      BY <1>3, <1>5, <2>1
    <2>2. CASE due /\ claim /\ nextRun = day /\ Decide(c, nextRun)
      <3>1. nextRun' # nextRun /\ nextRun # 0
        BY <1>3, <1>4, <2>2 DEF due
      <3> QED
        BY <1>3, <1>4, <1>5, <2>2, <3>1
    <2>3. CASE due /\ claim /\ recordSkip(nextRun) /\ UNCHANGED <<busy, pc, seen>>
      <3>1. attempts' \in [Keys -> Attempt] /\ AttemptsKept
        BY <1>3, <2>3, PruneEffect DEF recordSkip, AttemptsKept
      <3>2. handled' = handled \/ handled' = handled \cup ({nextRun} \ {0})
        BY <2>3 DEF recordSkip
      <3>3. CallInv' /\ ReservedKept
        BY <1>0, <1>1, <1>3, <1>4, <2>3, <3>2, ScheduleMoves
      <3> QED
        BY <1>0, <1>3, <1>4, <2>3, <3>1, <3>2, <3>3 DEF TypeOK, Call
    <2> QED
      BY <1>2, <2>1, <2>2, <2>3
  <1>7. SpendInv'
    BY <1>0, <1>1, <1>3, <1>6, SpendFrame
  <1>8. TypeOK'
    BY <1>0, <1>1, <1>6 DEF TypeOK, Call, Attempt, provider
  <1> QED
    BY <1>6, <1>7, <1>8

\* A run that ends before it has reserved anything.
LEMMA SkipSteps ==
  ASSUME IInv, NEW c \in Callers, pc[c] \in {"inspect", "reserve"},
         skip(c) \/ (unlock(c) /\ UNCHANGED <<attempts, handled>>),
         UNCHANGED <<day, settings, revision, nextRun, enabled, credentials, closed, provider, crashes>>
  PROVE  IInv'
  <1> USE DEF IInv
  <1>1. /\ attempts' \in [Keys -> Attempt] /\ AttemptsKept /\ unlock(c)
        /\ handled' = handled \/ handled' = handled \cup ({seen[c].occurrence} \ {0})
    <2>1. CASE skip(c)
      BY <2>1, SkipEffect
    <2>2. CASE unlock(c) /\ UNCHANGED <<attempts, handled>>
      BY <2>2 DEF TypeOK, Attempt, AttemptsKept
    <2> QED
      BY <2>1, <2>2
  <1>2. CallInv' /\ ReservedKept
    BY <1>1, CallEnds
  <1>3. SpendInv'
    BY <1>1, <1>2, SpendFrame DEF TypeOK, provider
  <1>4. seen[c].occurrence \in Nat
    BY DEF TypeOK
  <1>5. TypeOK'
    BY <1>1, <1>4, UnlockType DEF TypeOK, Attempt, Call, provider
  <1> QED
    BY <1>2, <1>3, <1>5

LEMMA InspectStep ==
  ASSUME IInv, NEW c \in Callers, Inspect(c)
  PROVE  IInv'
  <1> USE DEF IInv
  <1>1. CASE skip(c)
    BY <1>1, SkipSteps DEF Inspect
  <1>2. CASE /\ \E card \in cards :
                  pc' = [pc EXCEPT ![c] = "reserve"] /\ seen' = [seen EXCEPT ![c].card = card]
             /\ UNCHANGED <<attempts, busy, handled>>
    <2>1. PICK card \in cards :
            pc' = [pc EXCEPT ![c] = "reserve"] /\ seen' = [seen EXCEPT ![c].card = card]
      BY <1>2
    <2>2. UNCHANGED <<day, settings, revision, nextRun, enabled, credentials, closed, spent, cards, crashes>>
      BY DEF Inspect, provider
    <2>3. card \in Cards /\ pc[c] = "inspect"
      BY DEF TypeOK, Inspect
    <2>4. TypeOK'
      <3>1. seen' \in [Callers -> Call]
        BY <2>1, <2>3 DEF TypeOK, Call
      <3>2. pc' \in [Callers -> {"idle", "inspect", "reserve", "redeem", "record"}]
        BY <2>1 DEF TypeOK
      <3> QED
        BY <1>2, <2>2, <3>1, <3>2 DEF TypeOK, Call
    <2>5. AttemptsKept /\ ReservedKept
      BY <1>2, <2>1 DEF TypeOK, AttemptsKept, ReservedKept
    <2>6. SpendInv'
      BY <2>2, <2>5, SpendFrame DEF TypeOK
    <2>7. \A d \in Callers : /\ seen'[d].occurrence = seen[d].occurrence
                             /\ seen'[d].settings = seen[d].settings
                             /\ d # c => pc'[d] = pc[d]
      BY <2>1 DEF TypeOK
    <2>8. \A d \in Callers : pc'[d] \in {"inspect", "reserve"} => pc[d] \in {"inspect", "reserve"}
      BY <2>1, <2>3 DEF TypeOK
    <2>9. SingleHolder'
      BY <1>2, <2>3, <2>7 DEF CallInv, SingleHolder
    <2>10. CallInv'
      BY <1>2, <2>2, <2>7, <2>8, <2>9 DEF CallInv, SettingsHeld, ScheduleAhead, ClaimedOnce
    <2> QED
      BY <2>4, <2>6, <2>10
  <1> QED
    BY <1>1, <1>2 DEF Inspect

LEMMA ReserveStep ==
  ASSUME IInv, NEW c \in Callers, Reserve(c)
  PROVE  IInv'
  <1> USE DEF IInv
  <1>1. PICK k \in Fresh :
          /\ attempts' = [attempts EXCEPT ![k] = [outcome |-> "pending", card |-> seen[c].card, day |-> day]]
          /\ seen' = [seen EXCEPT ![c].key = k]
    BY DEF Reserve
  <1>2. /\ pc[c] = "reserve" /\ pc' = [pc EXCEPT ![c] = "redeem"] /\ Pending = {}
        /\ handled' = handled \cup ({seen[c].occurrence} \ {0})
        /\ UNCHANGED <<day, settings, revision, nextRun, enabled, credentials, busy, closed, cards, spent,
                       crashes>>
    BY DEF Reserve, provider
  <1>3. k \in Keys /\ attempts[k].outcome = "none" /\ spent[k] = NoCard
    BY <1>1 DEF Fresh, SpendInv, SpendAccounted, Spent
  <1>4. /\ attempts'[k] = [outcome |-> "pending", card |-> seen[c].card, day |-> day]
        /\ \A j \in Keys : j # k => attempts'[j] = attempts[j] /\ attempts[j].outcome # "pending"
    BY <1>1, <1>2, <1>3 DEF TypeOK, Pending
  <1>5. /\ seen'[c].key = k /\ seen'[c].card = seen[c].card
        /\ \A d \in Callers : d # c => seen'[d] = seen[d]
        /\ pc'[c] = "redeem" /\ \A d \in Callers : d # c => pc'[d] = pc[d]
    BY <1>1, <1>2 DEF TypeOK
  <1>6. \A d \in Callers : d # c => pc[d] = "idle"
    BY <1>2 DEF CallInv, SingleHolder
  <1>7. TypeOK'
    <2>1. seen[c].occurrence \in Nat /\ seen[c].card \in Cards \cup {NoCard}
      BY DEF TypeOK
    <2>2. attempts' \in [Keys -> [outcome : Outcomes, card : Cards \cup {NoCard}, day : Nat]]
      BY <1>1, <2>1 DEF TypeOK, Outcomes
    <2>3. seen' \in [Callers -> [settings : Configs, revision : Nat, credentials : Nat, occurrence : Nat,
                           card : Cards \cup {NoCard}, key : Keys \cup {0}, answer : Answers]]
      BY <1>1, <1>3 DEF TypeOK
    <2> QED
      BY <1>2, <2>1, <2>2, <2>3 DEF TypeOK
  <1>8. SpendInv'
    <2>1. OnePending'
      BY <1>4 DEF OnePending
    <2>2. Underway'
      BY <1>3, <1>4, <1>5, <1>6 DEF Underway
    <2>3. AnswerTruthful'
      BY <1>5, <1>6 DEF AnswerTruthful
    <2>4. SpendAccounted'
      BY <1>2, <1>3, <1>4 DEF SpendInv, SpendAccounted, Spent
    <2>5. PrunedAreOld'
      BY <1>2, <1>4 DEF SpendInv, PrunedAreOld
    <2> QED
      BY <2>1, <2>2, <2>3, <2>4, <2>5 DEF SpendInv
  <1>9. CallInv'
    <2>1. seen[c].occurrence \in Nat /\ nextRun \in Nat /\ day \in Nat
      BY DEF TypeOK
    <2>2. seen[c].occurrence # 0 =>
            seen[c].occurrence <= day /\ (nextRun # 0 => seen[c].occurrence < nextRun)
      BY <1>2, <2>1 DEF CallInv, ScheduleAhead, ClaimedOnce
    <2>3. ScheduleAhead'
      BY <1>2, <1>5, <1>6, <2>2 DEF CallInv, ScheduleAhead
    <2> QED
      BY <1>2, <1>5, <1>6, <2>3 DEF CallInv, SingleHolder, SettingsHeld, ClaimedOnce
  <1> QED
    BY <1>7, <1>8, <1>9

LEMMA RetryStep ==
  ASSUME IInv, NEW c \in Callers, Retry(c)
  PROVE  IInv'
  <1> USE DEF IInv
  <1>1. PICK k \in Pending : seen' = [seen EXCEPT ![c].key = k, ![c].card = attempts[k].card]
    BY DEF Retry, replay
  <1>2. /\ lock(c) /\ busy' = c /\ pc' = [pc EXCEPT ![c] = "redeem"]
        /\ UNCHANGED <<day, settings, revision, nextRun, attempts, handled, enabled, credentials, closed,
                       cards, spent, crashes>>
    BY DEF Retry, stored, provider
  <1>3. k \in Keys /\ attempts[k].outcome = "pending" /\ attempts[k].card \in Cards \cup {NoCard}
    BY DEF Pending, TypeOK
  <1>4. /\ seen'[c].key = k /\ seen'[c].card = attempts[k].card
        /\ \A d \in Callers : d # c => seen'[d] = seen[d]
        /\ pc'[c] = "redeem" /\ \A d \in Callers : d # c => pc'[d] = pc[d]
    BY <1>1, <1>2 DEF TypeOK
  <1>5. \A d \in Callers : pc[d] = "idle"
    BY <1>2, SetsAssumption DEF lock, CallInv, SingleHolder
  <1>6. TypeOK'
    <2>1. seen' \in [Callers -> Call]
      <3> DEFINE f == [seen EXCEPT ![c].key = k]
      <3>1. f \in [Callers -> Call]
        BY <1>3 DEF TypeOK, Call
      <3>2. seen' = [f EXCEPT ![c].card = attempts[k].card]
        BY <1>1
      <3> HIDE DEF f
      <3> QED
        BY <1>3, <3>1, <3>2 DEF Call
    <2>2. pc' \in [Callers -> {"idle", "inspect", "reserve", "redeem", "record"}]
      BY <1>2 DEF TypeOK
    <2> QED
      BY <1>2, <2>1, <2>2 DEF TypeOK, Call
  <1>7. SpendInv'
    BY <1>2, <1>3, <1>4, <1>5
    DEF SpendInv, OnePending, Underway, AnswerTruthful, SpendAccounted, Spent, PrunedAreOld
  <1>8. CallInv'
    BY <1>2, <1>4, <1>5 DEF CallInv, SingleHolder, SettingsHeld, ScheduleAhead, ClaimedOnce
  <1> QED
    BY <1>6, <1>7, <1>8

LEMMA RedeemStep ==
  ASSUME IInv, NEW c \in Callers, Redeem(c)
  PROVE  IInv'
  <1> USE DEF IInv
  <1> DEFINE key == seen[c].key
             card == seen[c].card
  <1>1. /\ pc[c] = "redeem" /\ pc' = [pc EXCEPT ![c] = "record"]
        /\ UNCHANGED <<day, settings, revision, nextRun, attempts, handled, enabled, credentials, busy,
                       closed, crashes>>
    BY DEF Redeem, stored
  <1>2. PICK a \in Answers :
          /\ seen' = [seen EXCEPT ![c].answer = a]
          /\ \/ UNCHANGED <<cards, spent>> /\ (a \in {"nothing_to_reset", "no_credit"} => spent[key] = NoCard)
             \/ /\ spent[key] = NoCard /\ card \in cards /\ a \in {"reset", "lost"}
                /\ spent' = [spent EXCEPT ![key] = card] /\ cards' = cards \ {card}
    BY DEF Redeem, provider, Answers
  <1>3. key \in Keys /\ attempts[key].outcome = "pending" /\ attempts[key].card = card
    BY <1>1 DEF SpendInv, Underway
  <1>4. /\ seen'[c].key = key /\ seen'[c].card = card /\ seen'[c].answer = a
        /\ \A d \in Callers : d # c => seen'[d] = seen[d]
        /\ pc'[c] = "record" /\ \A d \in Callers : d # c => pc'[d] = pc[d]
    BY <1>1, <1>2 DEF TypeOK
  <1>5. \A d \in Callers : d # c => pc[d] = "idle"
    BY <1>1 DEF CallInv, SingleHolder
  <1>6. TypeOK'
    <2>1. seen' \in [Callers -> [settings : Configs, revision : Nat, credentials : Nat, occurrence : Nat,
                           card : Cards \cup {NoCard}, key : Keys \cup {0}, answer : Answers]]
      BY <1>2 DEF TypeOK
    <2>2. cards' \subseteq Cards /\ spent' \in [Keys -> Cards \cup {NoCard}]
      BY <1>2 DEF TypeOK
    <2> QED
      BY <1>1, <2>1, <2>2 DEF TypeOK
  <1>7. SpendInv'
    <2>1. \A j \in Keys : j # key => spent'[j] = spent[j]
      BY <1>2 DEF TypeOK
    <2>2. spent'[key] = spent[key] \/ spent'[key] = card
      BY <1>2, <1>3 DEF TypeOK
    <2>3. SpendAccounted'
      BY <1>1, <1>3, <2>1, <2>2 DEF SpendInv, SpendAccounted, Spent
    <2>4. AnswerTruthful'
      BY <1>2, <1>4, <1>5 DEF AnswerTruthful
    <2>5. Underway'
      BY <1>1, <1>3, <1>4, <1>5 DEF Underway
    <2> QED
      BY <1>1, <2>3, <2>4, <2>5 DEF SpendInv, OnePending, PrunedAreOld
  <1>8. CallInv'
    BY <1>1, <1>4, <1>5 DEF CallInv, SingleHolder, SettingsHeld, ScheduleAhead, ClaimedOnce
  <1> QED
    BY <1>6, <1>7, <1>8

LEMMA RecordStep ==
  ASSUME IInv, NEW c \in Callers, Record(c)
  PROVE  IInv'
  <1> USE DEF IInv
  <1> DEFINE key == seen[c].key
             result == outcomeOf(seen[c].answer)
             a == [attempts EXCEPT ![key].outcome = result,
                                   ![key].card = IF result = "pending" THEN @ ELSE NoCard]
  <1>1. /\ pc[c] = "record" /\ unlock(c) /\ (UNCHANGED attempts \/ prune(a))
        /\ UNCHANGED <<day, settings, revision, nextRun, handled, enabled, credentials, closed, cards, spent,
                       crashes>>
    BY DEF Record, provider
  <1>2. CallInv' /\ ReservedKept
    BY <1>1, CallEnds
  <1>3. key \in Keys /\ attempts[key].outcome = "pending" /\ day \in Nat
    BY <1>1 DEF SpendInv, Underway, TypeOK
  <1>4. \A d \in Callers : pc'[d] = "idle"
    BY <1>1 DEF TypeOK, CallInv, SingleHolder, unlock
  <1>5. attempts' \in [Keys -> Attempt] /\ SpendInv'
    <2>1. CASE UNCHANGED attempts
      <3>1. AttemptsKept /\ attempts' \in [Keys -> Attempt]
        BY <2>1 DEF TypeOK, AttemptsKept, Attempt
      <3> QED
        BY <1>1, <1>2, <1>3, <3>1, SpendFrame
    <2>2. CASE prune(a)
      <3>1. result \in {"pending", "success", "skipped"}
        BY DEF outcomeOf
      <3>2. /\ a \in [Keys -> Attempt]
            /\ a[key].outcome = result /\ a[key].day = attempts[key].day
            /\ result = "pending" => a[key].card = attempts[key].card
            /\ \A j \in Keys : j # key => a[j] = attempts[j]
        <4> DEFINE b == [attempts EXCEPT ![key].outcome = result]
                   x == IF result = "pending" THEN attempts[key].card ELSE NoCard
        <4>1. b \in [Keys -> Attempt] /\ b[key].outcome = result /\ b[key].card = attempts[key].card
              /\ b[key].day = attempts[key].day /\ \A j \in Keys : j # key => b[j] = attempts[j]
          BY <1>3, <3>1 DEF TypeOK, Attempt, Outcomes
        <4>2. x \in Cards \cup {NoCard} /\ (result = "pending" => x = attempts[key].card)
          BY <1>3 DEF TypeOK
        <4>3. a = [b EXCEPT ![key].card = x]
          BY <1>3, <4>1 DEF TypeOK
        <4> HIDE DEF b, x, a
        <4> QED
          BY <1>3, <4>1, <4>2, <4>3 DEF Attempt
      <3> HIDE DEF a
      <3>3. /\ attempts' \in [Keys -> Attempt]
            /\ \A k \in Keys :
                 /\ attempts'[k].card = a[k].card /\ attempts'[k].day = a[k].day
                 /\ \/ attempts'[k].outcome = a[k].outcome
                    \/ /\ attempts'[k].outcome = "pruned"
                       /\ a[k].outcome \in {"success", "skipped"} /\ a[k].day < day
        BY <1>3, <2>2, <3>2, PruneEffect
      <3>4. result = "skipped" => spent[key] = NoCard
        BY <1>1 DEF SpendInv, AnswerTruthful, outcomeOf
      <3> HIDE DEF result, key
      <3>5. OnePending'
        BY <1>3, <3>2, <3>3 DEF SpendInv, OnePending
      <3>6. Underway' /\ AnswerTruthful'
        BY <1>4 DEF Underway, AnswerTruthful
      <3>7. SpendAccounted'
        BY <1>1, <1>3, <3>1, <3>2, <3>3, <3>4 DEF SpendInv, SpendAccounted, Spent
      <3>8. PrunedAreOld'
        BY <1>1, <1>3, <3>1, <3>2, <3>3 DEF SpendInv, PrunedAreOld
      <3> QED
        BY <3>3, <3>5, <3>6, <3>7, <3>8 DEF SpendInv
    <2> QED
      BY <1>1, <2>1, <2>2
  <1>6. TypeOK'
    BY <1>1, <1>5, UnlockType DEF TypeOK, Attempt, Call
  <1> QED
    BY <1>2, <1>5, <1>6

LEMMA SaveStep ==
  ASSUME IInv, NEW c \in Callers, Save(c)
  PROVE  IInv'
  <1> USE DEF IInv
  <1>1. PICK s \in Configs : settings' = s /\ (nextRun' = 0 \/ nextRun' = nextOccurrence(s))
    BY DEF Save
  <1>2. /\ lock(c) /\ revision' = revision + 1
        /\ UNCHANGED <<day, attempts, handled, enabled, credentials, busy, pc, seen, closed, cards, spent,
                       crashes>>
    BY DEF Save, provider
  <1>3. nextRun' \in Nat /\ (nextRun' = 0 \/ nextRun' > day) /\ day \in Nat
    BY <1>1, NextIsLater DEF TypeOK
  <1>4. CallInv' /\ ReservedKept
    BY <1>2, <1>3, ScheduleMoves
  <1>5. AttemptsKept
    BY <1>2 DEF AttemptsKept
  <1>6. SpendInv'
    BY <1>2, <1>3, <1>4, <1>5, SpendFrame
  <1>7. TypeOK'
    BY <1>1, <1>2, <1>3 DEF TypeOK
  <1> QED
    BY <1>4, <1>6, <1>7

\* What happens elsewhere touches no call and no attempt.
LEMMA OutsideSteps ==
  ASSUME IInv, Reauthorize \/ SetEnabled \/ SpendElsewhere \/ Close \/ Tick
  PROVE  IInv'
  <1> USE DEF IInv
  <1>1. /\ UNCHANGED <<settings, revision, nextRun, attempts, handled, busy, pc, seen, spent, crashes>>
        /\ day' \in Nat /\ day <= day' /\ credentials' \in Nat /\ cards' \subseteq Cards
        /\ enabled' \in BOOLEAN /\ closed' \in BOOLEAN
    <2>1. CASE Reauthorize
      BY <2>1 DEF Reauthorize, stored, provider, TypeOK
    <2>2. CASE SetEnabled
      BY <2>2 DEF SetEnabled, stored, provider, TypeOK
    <2>3. CASE SpendElsewhere
      BY <2>3 DEF SpendElsewhere, stored, TypeOK
    <2>4. CASE Close
      BY <2>4 DEF Close, stored, provider, TypeOK
    <2>5. CASE Tick
      BY <2>5 DEF Tick, stored, provider, TypeOK
    <2> QED
      BY <2>1, <2>2, <2>3, <2>4, <2>5
  <1>2. AttemptsKept /\ ReservedKept
    BY <1>1 DEF AttemptsKept, ReservedKept
  <1>3. SpendInv'
    BY <1>1, <1>2, SpendFrame
  <1>4. CallInv'
    BY <1>1, CallFrame
  <1>5. TypeOK'
    BY <1>1 DEF TypeOK
  <1> QED
    BY <1>3, <1>4, <1>5

LEMMA RestartStep ==
  ASSUME IInv, Restart
  PROVE  IInv'
  <1> USE DEF IInv
  <1>1. /\ crashes' = crashes + 1 /\ busy' = Nobody /\ pc' = [c \in Callers |-> "idle"]
        /\ seen' = [c \in Callers |-> Unread] /\ closed' = FALSE
        /\ UNCHANGED <<day, settings, revision, nextRun, attempts, handled, enabled, credentials, cards, spent>>
    BY DEF Restart, stored, provider
  <1>2. AttemptsKept /\ ReservedKept
    BY <1>1 DEF AttemptsKept, ReservedKept
  <1>3. SpendInv'
    BY <1>1, <1>2, SpendFrame DEF TypeOK
  <1>4. CallInv'
    BY <1>1 DEF CallInv, SingleHolder, SettingsHeld, ScheduleAhead, ClaimedOnce
  <1>5. Unread \in Call
    BY UnreadType DEF TypeOK
  <1>6. TypeOK'
    <2>1. seen' \in [Callers -> Call]
      BY <1>1, <1>5
    <2>2. pc' \in [Callers -> {"idle", "inspect", "reserve", "redeem", "record"}]
      BY <1>1
    <2>3. closed' \in BOOLEAN
      BY <1>1, Zenon
    <2>4. crashes' \in Nat
      BY <1>1 DEF TypeOK
    <2> QED
      BY <1>1, <2>1, <2>2, <2>3, <2>4, Zenon DEF TypeOK, Call
  <1> QED
    BY <1>3, <1>4, <1>6

-----------------------------------------------------------------------------
(* Theorems *)

\* Invariance: the inductive invariant holds in every reachable state.
THEOREM Invariance == Spec => []IInv
  <1>1. Init => IInv
    <2> SUFFICES ASSUME Init PROVE IInv
      OBVIOUS
    <2>1. Unread \in Call
      BY UnreadType DEF Init
    <2>2. TypeOK
      BY <2>1 DEF Init, TypeOK, Call, NoAttempt, Outcomes
    <2>3. SpendInv
      BY DEF Init, SpendInv, OnePending, Underway, AnswerTruthful, SpendAccounted, Spent, PrunedAreOld,
             NoAttempt
    <2>4. CallInv
      BY DEF Init, CallInv, SingleHolder, SettingsHeld, ScheduleAhead, ClaimedOnce
    <2> QED
      BY <2>2, <2>3, <2>4 DEF IInv
  <1>2. IInv /\ [Next]_vars => IInv'
    <2> SUFFICES ASSUME IInv, [Next]_vars PROVE IInv'
      OBVIOUS
    <2>1. ASSUME NEW c \in Callers,
                 \/ Save(c) \/ RunManual(c) \/ RunScheduled(c) \/ RunExhausted(c) \/ Inspect(c)
                 \/ Reserve(c) \/ Retry(c) \/ Redeem(c) \/ Record(c)
          PROVE  IInv'
      BY <2>1, SaveStep, RunSteps, InspectStep, ReserveStep, RetryStep, RedeemStep, RecordStep
    <2>2. ASSUME NEW c \in Callers, ReserveSkipped(c) \/ Fail(c)
          PROVE  IInv'
      BY <2>2, SkipSteps DEF ReserveSkipped, Fail, stored
    <2>3. ASSUME Reauthorize \/ SetEnabled \/ SpendElsewhere \/ Close \/ Tick
          PROVE  IInv'
      BY <2>3, OutsideSteps
    <2>4. ASSUME Restart PROVE IInv'
      BY <2>4, RestartStep
    <2>5. CASE UNCHANGED vars
      BY <2>5 DEF vars, stored, provider, IInv, TypeOK, SpendInv, OnePending, Underway, AnswerTruthful,
                  SpendAccounted, Spent, PrunedAreOld, CallInv, SingleHolder, SettingsHeld, ScheduleAhead,
                  ClaimedOnce
    <2> QED
      BY <2>1, <2>2, <2>3, <2>4, <2>5 DEF Next
  <1> QED
    BY <1>1, <1>2, PTL DEF Spec

\* EverySpendOnRecord: whatever is lost and wherever the process stops, a card the
\* provider has taken is on record as used or unresolved, never as skipped.
THEOREM EverySpendOnRecord == Spec => []SpendAccounted
  <1>1. IInv => SpendAccounted
    BY DEF IInv, SpendInv
  <1> QED
    BY <1>1, Invariance, PTL

\* OccurrenceClaimedOnce: no scheduled occurrence is worked on twice.
THEOREM OccurrenceClaimedOnce == Spec => []ClaimedOnce
  <1>1. IInv => ClaimedOnce
    BY DEF IInv, CallInv
  <1> QED
    BY <1>1, Invariance, PTL

\* OneUncertainSpend: no card is taken while an earlier one is unresolved.
THEOREM OneUncertainSpend == Spec => NoSpendWhileUncertain
  <1> DEFINE A == \A k \in Keys : spent[k] = NoCard /\ spent'[k] # NoCard =>
                    \A j \in Spent : attempts[j].outcome \in {"success", "pruned"}
  <1>1. IInv /\ [Next]_vars => [A]_vars
    <2> SUFFICES ASSUME IInv, Next, NEW k \in Keys, spent[k] = NoCard, spent'[k] # NoCard,
                        NEW j \in Spent
                 PROVE  attempts[j].outcome \in {"success", "pruned"}
      BY DEF A
    <2>1. PICK c \in Callers : Redeem(c)
      BY DEF Next, Save, RunManual, RunScheduled, RunExhausted, Inspect, Reserve, ReserveSkipped, Retry,
             Record, Fail, Reauthorize, SetEnabled, SpendElsewhere, Close, Restart, Tick, provider
    <2>2. pc[c] = "redeem" /\ k = seen[c].key
      BY <2>1 DEF Redeem, provider, IInv, TypeOK
    <2>3. attempts[k].outcome = "pending" /\ j # k /\ j \in Keys
      BY <2>2 DEF IInv, SpendInv, Underway, Spent
    <2>4. attempts[j].outcome # "pending"
      BY <2>3 DEF IInv, SpendInv, OnePending
    <2> QED
      BY <2>4 DEF IInv, SpendInv, SpendAccounted
  <1> QED
    BY <1>1, Invariance, PTL DEF Spec, NoSpendWhileUncertain

\* LimitHolds: a new attempt is reserved only while the cards taken by attempts of
\* the day are fewer than the limit in force.
THEOREM LimitHolds == Spec => DailyLimitKept
  <1> DEFINE A == \A k \in Keys : attempts[k].outcome = "none" /\ attempts'[k].outcome = "pending" =>
                    Cardinality({j \in Spent : attempts[j].day = day}) < settings.limit
  <1>1. IInv /\ [Next]_vars => [A]_vars
    <2> SUFFICES ASSUME IInv, Next, NEW k \in Keys, attempts[k].outcome = "none",
                        attempts'[k].outcome = "pending"
                 PROVE  Cardinality({j \in Spent : attempts[j].day = day}) < settings.limit
      BY DEF A
    <2>0. attempts \in [Keys -> Attempt] /\ day \in Nat
      BY DEF IInv, TypeOK, Attempt
    <2>1. ~AttemptsKept
      BY DEF AttemptsKept
    <2>2. \A c \in Callers : ~Record(c)
      <3> SUFFICES ASSUME NEW c \in Callers, Record(c) PROVE FALSE
        OBVIOUS
      <3> DEFINE key == seen[c].key
                 a == [attempts EXCEPT ![key].outcome = outcomeOf(seen[c].answer),
                         ![key].card = IF outcomeOf(seen[c].answer) = "pending" THEN @ ELSE NoCard]
      <3>1. key # k
        BY DEF Record, IInv, SpendInv, Underway
      <3>2. a[k] = attempts[k]
        BY <2>0, <3>1
      <3>3. prune(a)
        BY <2>1 DEF Record, AttemptsKept
      <3> HIDE DEF a
      <3> QED
        BY <3>2, <3>3 DEF prune
    <2>3. \A c \in Callers : ~skip(c)
      BY <2>1, SkipEffect DEF IInv
    <2>4. \A c \in Callers : ~RunManual(c) /\ ~RunScheduled(c) /\ ~RunExhausted(c)
      <3>1. \A c \in Callers, o \in Nat : ~Decide(c, o)
        BY <2>1, DecideEffect DEF IInv
      <3>2. \A o \in Nat : ~recordSkip(o)
        BY <2>0, <2>1, PruneEffect DEF recordSkip, AttemptsKept
      <3>3. nextRun \in Nat /\ 0 \in Nat
        BY DEF IInv, TypeOK
      <3> QED
        BY <3>1, <3>2, <3>3 DEF RunManual, RunScheduled, RunExhausted
    <2>5. attempts' # attempts
      BY <2>1 DEF AttemptsKept
    <2>6. PICK c \in Callers : Reserve(c)
      BY <2>2, <2>3, <2>4, <2>5
      DEF Next, Save, Inspect, ReserveSkipped, Retry, Redeem, Fail, Reauthorize, SetEnabled, SpendElsewhere,
          Close, Restart, Tick, stored
    <2>7. UsedToday < settings.limit
      BY <2>6 DEF Reserve, IInv, CallInv, SettingsHeld
    <2> DEFINE T == {j \in Spent : attempts[j].day = day}
               U == {j \in Keys : attempts[j].outcome \in {"pending", "success"} /\ attempts[j].day = day}
    <2>8. T \subseteq U
      BY <2>0 DEF IInv, SpendInv, SpendAccounted, PrunedAreOld, Spent
    <2>9. IsFiniteSet(U)
      <3>1. IsFiniteSet(Keys)
        BY FS_Interval, SetsAssumption DEF Keys
      <3> QED
        BY <3>1, FS_Subset
    <2>10. Cardinality(T) <= Cardinality(U) /\ Cardinality(T) \in Nat /\ Cardinality(U) \in Nat
      BY <2>8, <2>9, FS_Subset, FS_CardinalityType
    <2>11. settings.limit \in Nat
      BY SetsAssumption DEF IInv, TypeOK
    <2> QED
      BY <2>7, <2>10, <2>11 DEF UsedToday
  <1> QED
    BY <1>1, Invariance, PTL DEF Spec, DailyLimitKept

\* Every card taken is on record, and every occurrence is claimed once.
THEOREM CardsAreAccounted == Spec => []CardsAccounted
  <1>1. IInv => TypeOK
    BY DEF IInv
  <1>2. TypeOK /\ SpendAccounted /\ ClaimedOnce => CardsAccounted
    BY DEF CardsAccounted
  <1> QED
    BY <1>1, <1>2, Invariance, EverySpendOnRecord, OccurrenceClaimedOnce, PTL

\* No card is taken beside an unresolved one or beyond the limit of its day.
THEOREM SpendsAreGuarded == Spec => SpendsGuarded
  BY OneUncertainSpend, LimitHolds DEF SpendsGuarded

-----------------------------------------------------------------------------
(* Tables of revisions *)

Rows == [id : Nat \ {0}, at : Nat \ {0}, anchor : Nat \ {0}, schedule : Schedules, members : MemberSets]

\* Ids are unique and below the sequence; usage is counted from no later than the start.
Table(rows, seq) ==
  /\ seq \in Nat /\ rows \subseteq Rows
  /\ \A r \in rows : r.id <= seq /\ r.anchor <= r.at
  /\ \A r, x \in rows : r.id = x.id => r = x

\* The revision in effect at t, the one scheduled then, and one that no other of its time supersedes.
InEffect(rows, r, t) == r \in rows /\ r.at <= t /\ \A x \in rows : x.at <= t => later(r, x)
Scheduled(rows, r, t) ==
  r \in rows /\ r.at > t /\ \A x \in rows : x.at > t => r.at <= x.at /\ (x.at = r.at => x.id <= r.id)
Last(rows, r) == r \in rows /\ \A x \in rows : x.at = r.at => x.id <= r.id

\* A window of r ends at t.
EndsWindow(t, r) == r.schedule.period = "durations" => (t - r.anchor) % Max(r.schedule.windows) = 0

LEMMA RowType ==
  ASSUME NEW r \in Rows
  PROVE  /\ r.id \in Nat \ {0} /\ r.at \in Nat \ {0} /\ r.anchor \in Nat \ {0}
         /\ r.schedule \in Schedules /\ r.members \in MemberSets
  BY DEF Rows

LEMMA TableRow ==
  ASSUME NEW rows, NEW seq, Table(rows, seq), NEW r \in rows
  PROVE  /\ r \in Rows /\ r.id \in Nat \ {0} /\ r.at \in Nat \ {0} /\ r.anchor \in Nat \ {0}
         /\ r.schedule \in Schedules /\ r.members \in MemberSets
         /\ r.id <= seq /\ r.anchor <= r.at
  BY RowType DEF Table

LEMMA NoneIsNoRow == \A r \in Rows : r # None /\ r.id # None.id
  BY DEF Rows, None

\* A finite set of integers has a greatest element: by the well-foundedness of strict subsets.
LEMMA FiniteMax ==
  ASSUME NEW S \in SUBSET Int, IsFiniteSet(S), S # {}
  PROVE  \E x \in S : \A y \in S : x >= y
  <1> DEFINE hasMax(T) == \E x \in T : \A y \in T : x >= y
             R == StrictSubsetOrdering(S)
             bad == {T \in FiniteSubsetsOf(S) : T # {} /\ ~hasMax(T)}
  <1>1. IsWellFoundedOn(R, FiniteSubsetsOf(S))
    BY FS_StrictSubsetOrderingWellFounded
  <1>2. SUFFICES bad = {}
    BY <1>2 DEF FiniteSubsetsOf
  <1>3. SUFFICES ASSUME bad # {} PROVE FALSE
    OBVIOUS
  <1>4. PICK T \in bad : \A U \in bad : ~(<<U, T>> \in R)
    <2>1. bad \subseteq FiniteSubsetsOf(S)
      OBVIOUS
    <2> HIDE DEF bad, R
    <2> QED
      BY <1>1, <1>3, <2>1, WFMin
  <1>5. PICK x \in T : TRUE
    OBVIOUS
  <1>6. T \in SUBSET S /\ IsFiniteSet(T) /\ ~hasMax(T)
    BY DEF FiniteSubsetsOf
  <1>7. IsFiniteSet(T \ {x})
    BY <1>6, FS_RemoveElement
  <1>8. T \ {x} # {}
    BY <1>5, <1>6
  <1>9. <<T \ {x}, T>> \in R
    BY <1>5, <1>6 DEF StrictSubsetOrdering
  <1>10. hasMax(T \ {x})
    BY <1>4, <1>6, <1>7, <1>8, <1>9 DEF FiniteSubsetsOf
  <1>11. PICK z \in T \ {x} : \A y \in T \ {x} : z >= y
    BY <1>10
  <1>12. x \in Int /\ z \in Int /\ T \subseteq Int
    BY <1>5, <1>6, <1>11
  <1>13. IF z >= x THEN \A y \in T : z >= y ELSE \A y \in T : x >= y
    BY <1>11, <1>12
  <1> QED
    BY <1>5, <1>6, <1>11, <1>13

\* A set of natural numbers has a least one, and a greatest if it is bounded.
LEMMA GreatestOf ==
  ASSUME NEW S \in SUBSET Nat, S # {}, NEW b \in Nat, \A n \in S : n <= b
  PROVE  \E n \in S : \A m \in S : m <= n
  <1>1. S \subseteq 0..b /\ IsFiniteSet(0..b)
    BY FS_Interval
  <1>2. IsFiniteSet(S)
    BY <1>1, FS_Subset
  <1>3. S \in SUBSET Int
    OBVIOUS
  <1>4. PICK n \in S : \A m \in S : n >= m
    BY <1>2, <1>3, FiniteMax
  <1> QED
    BY <1>4

LEMMA LeastOf ==
  ASSUME NEW S \in SUBSET Nat, S # {}
  PROVE  \E n \in S : \A m \in S : n <= m
  <1>1. PICK b \in S : TRUE
    OBVIOUS
  <1> DEFINE D == {b - n : n \in {m \in S : m <= b}}
  <1>2. D \in SUBSET Nat /\ D # {} /\ \A k \in D : k <= b
    BY <1>1
  <1>3. PICK k \in D : \A m \in D : m <= k
    <2> HIDE DEF D
    <2> QED
      BY <1>1, <1>2, GreatestOf
  <1>4. PICK n \in S : n <= b /\ k = b - n
    OBVIOUS
  <1>5. \A m \in S : m <= b => b - m <= b - n
    BY <1>3, <1>4
  <1> QED
    BY <1>1, <1>4, <1>5

\* The current revision is the last to have started.
LEMMA CurrentIs ==
  ASSUME NEW rows, NEW seq, Table(rows, seq), NEW t \in Nat
  PROVE  LET c == CurrentAllocationRevision(rows, t) IN
         IF c = None THEN \A r \in rows : r.at > t ELSE InEffect(rows, c, t)
  <1> DEFINE started == {r \in rows : r.at <= t}
             c == CurrentAllocationRevision(rows, t)
  <1>1. CASE started = {}
    <2>1. c = None
      BY <1>1 DEF CurrentAllocationRevision
    <2>2. \A r \in rows : r.at > t
      BY <1>1, TableRow
    <2> QED
      BY <2>1, <2>2
  <1>2. CASE started # {}
    <2>1. PICK n \in {r.at : r \in started} : \A m \in {r.at : r \in started} : m <= n
      <3>1. {r.at : r \in started} \in SUBSET Nat /\ {r.at : r \in started} # {}
        BY <1>2, TableRow
      <3>2. \A m \in {r.at : r \in started} : m <= t
        OBVIOUS
      <3> QED
        BY <3>1, <3>2, GreatestOf
    <2> DEFINE latest == {r \in started : r.at = n}
    <2>2. PICK i \in {r.id : r \in latest} : \A m \in {r.id : r \in latest} : m <= i
      <3>1. {r.id : r \in latest} \in SUBSET Nat /\ {r.id : r \in latest} # {}
        BY <2>1, TableRow
      <3>2. seq \in Nat /\ \A m \in {r.id : r \in latest} : m <= seq
        BY DEF Table
      <3> QED
        BY <3>1, <3>2, GreatestOf
    <2>3. PICK r \in latest : r.id = i
      OBVIOUS
    <2>4. \A x \in started : later(r, x)
      <3> SUFFICES ASSUME NEW x \in started PROVE later(r, x)
        OBVIOUS
      <3>1. x.at \in Nat /\ x.id \in Nat /\ r.at \in Nat /\ r.id \in Nat
        BY <2>3, TableRow
      <3>2. x.at <= r.at
        BY <2>1, <2>3
      <3>3. x.at = r.at => x.id <= r.id
        BY <2>2, <2>3
      <3> QED
        BY <3>1, <3>2, <3>3 DEF later
    <2>5. c \in started /\ \A x \in started : later(c, x)
      BY <1>2, <2>3, <2>4 DEF CurrentAllocationRevision
    <2>6. c # None
      BY <2>5, TableRow, NoneIsNoRow
    <2> QED
      BY <2>5, <2>6 DEF InEffect
  <1> QED
    BY <1>1, <1>2

\* The scheduled revision is the last of the first to come.
LEMMA NextIs ==
  ASSUME NEW rows, NEW seq, Table(rows, seq), NEW t \in Nat
  PROVE  LET n == NextAllocationRevision(rows, t) IN
         IF n = None THEN \A r \in rows : r.at <= t ELSE Scheduled(rows, n, t)
  <1> DEFINE future == {r \in rows : r.at > t}
             soonest == {r \in future : \A x \in future : r.at <= x.at}
             n == NextAllocationRevision(rows, t)
  <1>1. CASE future = {}
    <2>1. n = None
      BY <1>1 DEF NextAllocationRevision
    <2>2. \A r \in rows : r.at <= t
      BY <1>1, TableRow
    <2> QED
      BY <2>1, <2>2
  <1>2. CASE future # {}
    <2>1. PICK first \in {r.at : r \in future} : \A m \in {r.at : r \in future} : first <= m
      <3>1. {r.at : r \in future} \in SUBSET Nat /\ {r.at : r \in future} # {}
        BY <1>2, TableRow
      <3> QED
        BY <3>1, LeastOf
    <2>2. PICK f \in future : f.at = first
      OBVIOUS
    <2>3. f \in soonest
      BY <2>1, <2>2
    <2>4. PICK i \in {r.id : r \in soonest} : \A m \in {r.id : r \in soonest} : m <= i
      <3>1. {r.id : r \in soonest} \in SUBSET Nat /\ {r.id : r \in soonest} # {}
        BY <2>3, TableRow
      <3>2. seq \in Nat /\ \A m \in {r.id : r \in soonest} : m <= seq
        BY DEF Table
      <3> QED
        BY <3>1, <3>2, GreatestOf
    <2>5. PICK r \in soonest : r.id = i
      OBVIOUS
    <2>6. \A x \in soonest : r.id >= x.id
      BY <2>4, <2>5, TableRow
    <2>7. n \in soonest /\ \A x \in soonest : n.id >= x.id
      BY <1>2, <2>5, <2>6 DEF NextAllocationRevision
    <2>8. n # None
      BY <2>7, TableRow, NoneIsNoRow
    <2>9. \A x \in rows : x.at > t => n.at <= x.at /\ (x.at = n.at => x.id <= n.id)
      <3> SUFFICES ASSUME NEW x \in future PROVE n.at <= x.at /\ (x.at = n.at => x.id <= n.id)
        OBVIOUS
      <3>1. n.at <= x.at
        BY <2>7
      <3>2. x.at = n.at => x \in soonest
        BY <2>7
      <3>3. x.at = n.at => n.id >= x.id
        BY <2>7, <3>2
      <3>4. x.id \in Nat /\ n.id \in Nat
        BY <2>7, TableRow
      <3> QED
        BY <3>1, <3>3, <3>4
    <2> QED
      BY <2>7, <2>8, <2>9 DEF Scheduled
  <1> QED
    BY <1>1, <1>2

\* Two revisions that are in effect at once are one, and nothing supersedes it.
LEMMA InEffectOnce ==
  ASSUME NEW rows, NEW seq, Table(rows, seq), NEW t \in Nat, NEW r, NEW x,
         InEffect(rows, r, t), InEffect(rows, x, t)
  PROVE  r = x
  <1>1. later(r, x) /\ later(x, r) /\ r \in rows /\ x \in rows
    BY DEF InEffect
  <1>2. r.at \in Nat /\ x.at \in Nat /\ r.id \in Nat /\ x.id \in Nat
    BY <1>1, TableRow
  <1>3. r.id = x.id
    BY <1>1, <1>2 DEF later
  <1> QED
    BY <1>1, <1>3 DEF Table

LEMMA InEffectLast ==
  ASSUME NEW rows, NEW seq, Table(rows, seq), NEW t \in Nat, NEW r, InEffect(rows, r, t)
  PROVE  Last(rows, r)
  <1>1. r \in rows /\ r.at <= t
    BY DEF InEffect
  <1> SUFFICES ASSUME NEW x \in rows, x.at = r.at PROVE x.id <= r.id
    BY <1>1 DEF Last
  <1>2. later(r, x)
    BY <1>1 DEF InEffect
  <1>3. r.at \in Nat /\ x.at \in Nat /\ r.id \in Nat /\ x.id \in Nat
    BY <1>1, TableRow
  <1> QED
    BY <1>2, <1>3 DEF later

LEMMA ScheduledLast ==
  ASSUME NEW rows, NEW t \in Nat, NEW r, Scheduled(rows, r, t)
  PROVE  Last(rows, r)
  BY DEF Scheduled, Last

\* Something is in effect as soon as something has started.
LEMMA SomethingInEffect ==
  ASSUME NEW rows, NEW seq, Table(rows, seq), NEW t \in Nat, NEW r \in rows, r.at <= t
  PROVE  \E c \in rows : InEffect(rows, c, t)
  <1> DEFINE c == CurrentAllocationRevision(rows, t)
  <1>1. IF c = None THEN \A x \in rows : x.at > t ELSE InEffect(rows, c, t)
    BY CurrentIs
  <1>2. r.at \in Nat
    BY TableRow
  <1>3. InEffect(rows, c, t)
    BY <1>1, <1>2
  <1> QED
    BY <1>3 DEF InEffect

\* A revision that nothing supersedes was in effect when it started, and is the one that was.
LEMMA LastServes ==
  ASSUME NEW rows, NEW seq, Table(rows, seq), NEW r, Last(rows, r)
  PROVE  CurrentAllocationRevision(rows, r.at) = r
  <1> DEFINE c == CurrentAllocationRevision(rows, r.at)
  <1>1. r \in rows /\ r.at \in Nat /\ r.id \in Nat
    BY TableRow DEF Last
  <1>2. InEffect(rows, r, r.at)
    <2> SUFFICES ASSUME NEW x \in rows, x.at <= r.at PROVE later(r, x)
      BY <1>1 DEF InEffect
    <2>1. x.at \in Nat /\ x.id \in Nat
      BY TableRow
    <2>2. x.at = r.at => x.id <= r.id
      BY DEF Last
    <2> QED
      BY <1>1, <2>1, <2>2 DEF later
  <1>3. IF c = None THEN \A x \in rows : x.at > r.at ELSE InEffect(rows, c, r.at)
    BY <1>1, CurrentIs
  <1>4. InEffect(rows, c, r.at)
    BY <1>1, <1>3
  <1> HIDE DEF c
  <1> QED
    BY <1>1, <1>2, <1>4, InEffectOnce DEF c

\* The reads depend on what has started and what has not.
LastOf(S) == IF S = {} THEN None ELSE CHOOSE r \in S : \A x \in S : later(r, x)
FirstOf(S) ==
  LET soonest == {r \in S : \A x \in S : r.at <= x.at} IN
  IF S = {} THEN None ELSE CHOOSE r \in soonest : \A x \in soonest : r.id >= x.id

LEMMA ReadsOf ==
  \A rows, t : /\ CurrentAllocationRevision(rows, t) = LastOf({r \in rows : r.at <= t})
              /\ NextAllocationRevision(rows, t) = FirstOf({r \in rows : r.at > t})
  BY DEF CurrentAllocationRevision, NextAllocationRevision, LastOf, FirstOf

\* As long as what is scheduled has not started, the same revisions are read.
LEMMA StillRead ==
  ASSUME NEW rows, NEW seq, Table(rows, seq), NEW t \in Nat, NEW u \in Nat, t <= u,
         NextAllocationRevision(rows, t) # None => NextAllocationRevision(rows, t).at > u
  PROVE  readSchemeCore(rows, t) = readSchemeCore(rows, u)
  <1> DEFINE n == NextAllocationRevision(rows, t)
  <1>1. IF n = None THEN \A r \in rows : r.at <= t ELSE Scheduled(rows, n, t)
    BY NextIs
  <1>2. \A r \in rows : r.at > t => r.at > u
    <2> SUFFICES ASSUME NEW r \in rows, r.at > t PROVE r.at > u
      OBVIOUS
    <2>1. r.at \in Nat
      BY TableRow
    <2>2. n # None /\ Scheduled(rows, n, t)
      BY <1>1, <2>1
    <2>3. n.at > u /\ n.at <= r.at /\ n.at \in Nat
      BY <2>2, TableRow DEF Scheduled
    <2> QED
      BY <2>1, <2>3
  <1>3. \A r \in rows : r.at \in Nat
    BY TableRow
  <1>4. {r \in rows : r.at <= t} = {r \in rows : r.at <= u}
    BY <1>2, <1>3
  <1>5. {r \in rows : r.at > t} = {r \in rows : r.at > u}
    BY <1>2, <1>3
  <1>6. CurrentAllocationRevision(rows, t) = CurrentAllocationRevision(rows, u)
    BY <1>4, ReadsOf
  <1>7. NextAllocationRevision(rows, t) = NextAllocationRevision(rows, u)
    BY <1>5, ReadsOf
  <1> QED
    BY <1>6, <1>7 DEF readSchemeCore

-----------------------------------------------------------------------------
(* Schedules and their windows *)

LEMMA SameAsItself == \A c \in Schedules : sameSchedule(c, c)
  BY SchemesAssumption DEF sameSchedule

LEMMA SameBack == \A a, b : sameSchedule(a, b) => sameSchedule(b, a)
  BY DEF sameSchedule

LEMMA SameThrough == \A a, b, c : sameSchedule(a, b) /\ sameSchedule(b, c) => sameSchedule(a, c)
  BY DEF sameSchedule

LEMMA SamePeriods == \A a, b : sameSchedule(a, b) => a.period = b.period /\ a.windows = b.windows
  BY DEF sameSchedule

\* The longest window of a schedule of durations is one of them.
LEMMA LongestWindow ==
  ASSUME NEW c \in Schedules, c.period = "durations"
  PROVE  Max(c.windows) \in Nat \ {0}
  <1>1. c.windows \in SUBSET Int /\ IsFiniteSet(c.windows) /\ c.windows # {} /\ c.windows \subseteq Nat \ {0}
    BY SchemesAssumption
  <1>2. \E x \in c.windows : \A y \in c.windows : x >= y
    BY <1>1, FiniteMax
  <1>3. Max(c.windows) \in c.windows
    BY <1>2 DEF Max
  <1> QED
    BY <1>1, <1>3

\* Multiples leave no rest.
LEMMA NoRest ==
  ASSUME NEW k \in Nat, NEW l \in Nat \ {0}
  PROVE  (k * l) % l = 0
  OBVIOUS

\* The window of a duration ends after the time it holds, and a whole number of lengths after the anchor.
LEMMA WindowEnds ==
  ASSUME NEW now \in Nat, NEW anchor \in Nat, NEW l \in Nat \ {0}
  PROVE  LET e == durationWindow(now, anchor, l).end IN
         e \in Nat /\ e > now /\ (e - anchor) % l = 0
  <1> DEFINE e == durationWindow(now, anchor, l).end
  <1>1. CASE now < anchor
    <2>1. e = anchor + l
      BY <1>1 DEF durationWindow
    <2>2. e - anchor = 1 * l
      BY <2>1
    <2>3. (1 * l) % l = 0
      BY NoRest
    <2> QED
      BY <1>1, <2>1, <2>2, <2>3
  <1>2. CASE now >= anchor
    <2> DEFINE k == (now - anchor) \div l
    <2>1. k \in Nat /\ now - anchor \in Nat
      BY <1>2
    <2>2. k * l \in Nat /\ now - anchor < k * l + l
      BY <1>2
    <2>3. e = anchor + k * l + l
      BY <1>2 DEF durationWindow
    <2>4. e - anchor = (k + 1) * l
      BY <2>1, <2>2, <2>3
    <2>5. ((k + 1) * l) % l = 0
      <3>1. k + 1 \in Nat
        BY <2>1
      <3> HIDE DEF k
      <3> QED
        BY <3>1, NoRest
    <2> QED
      BY <2>2, <2>3, <2>4, <2>5
  <1> QED
    BY <1>1, <1>2

\* A start that the server proposes ends a window of the revision in effect.
LEMMA ProposedTime ==
  ASSUME NEW c \in Schedules, NEW now \in Nat, NEW z \in Zones, NEW anchor \in Nat
  PROVE  LET e == nextEffective(c, now, z, anchor) IN
         /\ e \in Nat /\ (e # 0 => e > now)
         /\ c.period = "durations" => (e - anchor) % Max(c.windows) = 0
  <1>1. CASE c.period = "durations"
    BY <1>1, LongestWindow, WindowEnds DEF nextEffective
  <1>2. CASE c.period # "durations"
    BY <1>2, SchemesAssumption DEF nextEffective, nextReset
  <1> QED
    BY <1>1, <1>2

-----------------------------------------------------------------------------
(* One line in time *)

\* Seen at t: what is still to come starts at one time; anchors rise with time; revisions that share one share
\* their windows; and each begins where a window of the one before it ends.
OneAhead(rows, t) == \A r, x \in rows : r.at > t /\ x.at > t => r.at = x.at
Rising(rows) == \A r, x \in rows : Last(rows, r) /\ Last(rows, x) /\ r.at <= x.at => r.anchor <= x.anchor
SharedAnchors(rows) ==
  \A r, x \in rows : Last(rows, r) /\ Last(rows, x) /\ r.anchor = x.anchor => sameSchedule(r.schedule, x.schedule)
Between(rows, r, x) == \E y \in rows : Last(rows, y) /\ r.anchor < y.anchor /\ y.anchor < x.anchor
Unbroken(rows) ==
  \A r, x \in rows :
    Last(rows, r) /\ Last(rows, x) /\ r.anchor < x.anchor /\ ~Between(rows, r, x) => EndsWindow(x.anchor, r)
AheadWhole(rows, t) ==
  \A c, x \in rows : InEffect(rows, c, t) /\ x.at > t =>
    EndsWindow(x.at, c) /\ (Last(rows, x) => x.anchor = x.at \/ x.anchor = c.anchor)
FirstAhead(rows, t) == \A x \in rows : Last(rows, x) /\ (\A y \in rows : y.at > t) => x.anchor = x.at

Line(rows, t) ==
  OneAhead(rows, t) /\ Rising(rows) /\ SharedAnchors(rows) /\ Unbroken(rows) /\ AheadWhole(rows, t) /\ FirstAhead(rows, t)

\* Windows are those of the schedule and the anchor.
LEMMA SameEnds ==
  ASSUME NEW r, NEW c, NEW t, r.anchor = c.anchor, sameSchedule(r.schedule, c.schedule), EndsWindow(t, c)
  PROVE  EndsWindow(t, r)
  BY SamePeriods DEF EndsWindow

\* Time passes.
LEMMA LinePasses ==
  ASSUME NEW rows, NEW seq, Table(rows, seq), NEW t \in Nat, NEW u \in Nat, t <= u, Line(rows, t)
  PROVE  Line(rows, u)
  <1>1. \A r \in rows : r.at \in Nat
    BY TableRow
  <1>2. OneAhead(rows, u)
    BY <1>1 DEF Line, OneAhead
  <1>3. AheadWhole(rows, u)
    <2> SUFFICES ASSUME NEW c \in rows, NEW x \in rows, InEffect(rows, c, u), x.at > u
                 PROVE  EndsWindow(x.at, c) /\ (Last(rows, x) => x.anchor = x.at \/ x.anchor = c.anchor)
      BY DEF AheadWhole
    <2>1. x.at > t
      BY <1>1
    <2>2. c.at <= u
      BY DEF InEffect
    <2>3. c.at <= t
      <3>1. c.at > t => c.at = x.at
        BY <2>1 DEF Line, OneAhead
      <3> QED
        BY <1>1, <2>2, <3>1
    <2>4. InEffect(rows, c, t)
      BY <1>1, <2>3 DEF InEffect
    <2> QED
      BY <2>1, <2>4 DEF Line, AheadWhole
  <1>4. FirstAhead(rows, u)
    <2>1. (\A y \in rows : y.at > u) => (\A y \in rows : y.at > t)
      BY <1>1
    <2> QED
      BY <2>1 DEF Line, FirstAhead
  <1> QED
    BY <1>2, <1>3, <1>4 DEF Line

\* What is scheduled is taken back.
Started(rows, t) == {r \in rows : r.at <= t}

LEMMA StartedTable ==
  ASSUME NEW rows, NEW seq, Table(rows, seq), NEW t
  PROVE  Table(Started(rows, t), seq)
  BY DEF Table, Started

LEMMA StartedLast ==
  ASSUME NEW rows, NEW t, NEW r
  PROVE  Last(Started(rows, t), r) <=> Last(rows, r) /\ r.at <= t
  BY DEF Last, Started

LEMMA LineStarted ==
  ASSUME NEW rows, NEW seq, Table(rows, seq), NEW t \in Nat, Line(rows, t)
  PROVE  Line(Started(rows, t), t)
  <1> DEFINE P == Started(rows, t)
  <1>1. \A r \in rows : r.at \in Nat /\ r.anchor \in Nat
    BY TableRow
  <1>2. P \subseteq rows /\ \A r \in P : r.at <= t
    BY DEF Started
  <1>3. \A r : Last(P, r) <=> Last(rows, r) /\ r.at <= t
    BY StartedLast
  <1> HIDE DEF P
  <1>4. OneAhead(P, t) /\ AheadWhole(P, t)
    BY <1>1, <1>2 DEF OneAhead, AheadWhole
  <1>5. Rising(P)
    BY <1>2, <1>3 DEF Line, Rising
  <1>6. SharedAnchors(P)
    BY <1>2, <1>3 DEF Line, SharedAnchors
  <1>7. Unbroken(P)
    <2> SUFFICES ASSUME NEW r \in P, NEW x \in P, Last(P, r), Last(P, x), r.anchor < x.anchor, ~Between(P, r, x)
                 PROVE  EndsWindow(x.anchor, r)
      BY DEF Unbroken
    <2>1. r \in rows /\ x \in rows /\ Last(rows, r) /\ Last(rows, x) /\ x.at <= t
      BY <1>2, <1>3
    <2>2. ~Between(rows, r, x)
      <3> SUFFICES ASSUME NEW y \in rows, Last(rows, y), r.anchor < y.anchor, y.anchor < x.anchor PROVE FALSE
        BY DEF Between
      <3>1. y.at > t
        <4>1. y.at <= t => y \in P /\ Last(P, y)
          BY <1>3 DEF Last
        <4> QED
          BY <1>1, <4>1 DEF Between
      <3>2. x.at <= y.at
        BY <1>1, <2>1, <3>1
      <3>3. x.anchor <= y.anchor
        BY <2>1, <3>2 DEF Line, Rising
      <3> QED
        BY <1>1, <2>1, <3>3
    <2> QED
      BY <2>1, <2>2 DEF Line, Unbroken
  <1>8. FirstAhead(P, t)
    BY <1>1, <1>2 DEF FirstAhead, Last
  <1> QED
    BY <1>4, <1>5, <1>6, <1>7, <1>8 DEF Line, P

\* A row is added under a new id.
LEMMA AddedTable ==
  ASSUME NEW rows, NEW seq, Table(rows, seq), NEW n \in Rows, n.id = seq + 1, n.anchor <= n.at
  PROVE  Table(rows \cup {n}, seq + 1)
  <1>2. seq \in Nat
    BY DEF Table
  <1>1. \A r \in rows : r.id \in Nat /\ r.id <= seq /\ r.id # n.id
    BY <1>2, TableRow
  <1> QED
    BY <1>1, <1>2 DEF Table

LEMMA AddedLast ==
  ASSUME NEW rows, NEW seq, Table(rows, seq), NEW n \in Rows, n.id = seq + 1, NEW r
  PROVE  Last(rows \cup {n}, r) <=> r = n \/ (Last(rows, r) /\ r.at # n.at)
  <1>0. seq \in Nat
    BY DEF Table
  <1>1. \A x \in rows : x.id \in Nat /\ x.id <= seq /\ n.id > x.id /\ x # n
    BY <1>0, TableRow
  <1>2. Last(rows \cup {n}, n)
    BY <1>1, RowType DEF Last
  <1>3. ASSUME r # n, Last(rows \cup {n}, r) PROVE Last(rows, r) /\ r.at # n.at
    <2>1. r \in rows
      BY <1>3 DEF Last
    <2>2. r.at # n.at
      <3>1. r.at = n.at => n.id <= r.id
        BY <1>3 DEF Last
      <3>2. n.id \in Nat
        BY RowType
      <3> QED
        BY <1>1, <2>1, <3>1, <3>2
    <2> QED
      BY <1>3, <2>1, <2>2 DEF Last
  <1>4. ASSUME Last(rows, r), r.at # n.at PROVE Last(rows \cup {n}, r)
    BY <1>4 DEF Last
  <1> QED
    BY <1>2, <1>3, <1>4

\* Something in effect starts no earlier than anything that has started, and counts from no earlier.
LEMMA InEffectHighest ==
  ASSUME NEW rows, NEW seq, Table(rows, seq), NEW t \in Nat, Rising(rows),
         NEW c, InEffect(rows, c, t), NEW r, Last(rows, r), r.at <= t
  PROVE  r.at <= c.at /\ r.anchor <= c.anchor
  <1>1. c \in rows /\ r \in rows /\ Last(rows, c)
    BY InEffectLast DEF InEffect, Last
  <1>2. later(c, r)
    BY <1>1 DEF InEffect
  <1>3. r.at <= c.at
    BY <1>1, <1>2, TableRow DEF later
  <1> QED
    BY <1>1, <1>3 DEF Rising

\* A revision is scheduled: none is as yet, or it takes the place of the one that is.
LEMMA LineAhead ==
  ASSUME NEW rows, NEW seq, Table(rows, seq), NEW t \in Nat, Line(rows, t),
         NEW n \in Rows, n.id = seq + 1, n.at > t, n.anchor <= n.at,
         \A x \in rows : x.at > t => x.at = n.at,
         \/ n.anchor = n.at
         \/ \E c \in rows : InEffect(rows, c, t) /\ n.anchor = c.anchor /\ sameSchedule(c.schedule, n.schedule),
         \A c \in rows : InEffect(rows, c, t) => EndsWindow(n.at, c)
  PROVE  Line(rows \cup {n}, t)
  <1> DEFINE P == rows \cup {n}
  <1>1. \A r \in rows : r.at \in Nat /\ r.anchor \in Nat /\ r.anchor <= r.at /\ r.schedule \in Schedules
    BY TableRow
  <1>2. n.at \in Nat /\ n.anchor \in Nat /\ n.schedule \in Schedules
    BY RowType
  <1>3. \A r : Last(P, r) <=> r = n \/ (Last(rows, r) /\ r.at # n.at)
    BY AddedLast
  <1>4. \A r \in P : Last(P, r) /\ r # n => r \in rows /\ Last(rows, r) /\ r.at <= t
    BY <1>1, <1>3
  <1>5. \A c : InEffect(P, c, t) <=> InEffect(rows, c, t)
    <2>1. \A c : c.at <= t /\ c \in P => c \in rows
      BY <1>2
    <2> QED
      BY <1>2, <2>1 DEF InEffect
  <1>6. \A r \in rows, x \in rows : Last(rows, r) /\ Last(rows, x) /\ r.at <= x.at => r.anchor <= x.anchor
    BY DEF Line, Rising
  <1>7. Rising(rows)
    BY DEF Line
  <1>8. \A r \in rows : Last(rows, r) /\ r.at <= t => r.anchor <= n.anchor
    <2> SUFFICES ASSUME NEW r \in rows, Last(rows, r), r.at <= t PROVE r.anchor <= n.anchor
      OBVIOUS
    <2>1. CASE n.anchor = n.at
      BY <1>1, <1>2, <2>1
    <2>2. ASSUME NEW c \in rows, InEffect(rows, c, t), n.anchor = c.anchor PROVE r.anchor <= n.anchor
      BY <1>7, <2>2, InEffectHighest
    <2> QED
      BY <2>1, <2>2
  <1> HIDE DEF P
  <1>9. P = rows \cup {n}
    BY DEF P
  <1>10. OneAhead(P, t)
    BY <1>9 DEF OneAhead
  <1>11. Rising(P)
    <2> SUFFICES ASSUME NEW r \in P, NEW x \in P, Last(P, r), Last(P, x), r.at <= x.at PROVE r.anchor <= x.anchor
      BY DEF Rising
    <2>1. CASE r = n
      <3>1. x = n
        BY <1>1, <1>2, <1>4, <2>1
      <3> QED
        BY <1>2, <2>1, <3>1
    <2>2. CASE r # n /\ x = n
      BY <1>4, <1>8, <2>2
    <2>3. CASE r # n /\ x # n
      BY <1>4, <1>6, <2>3
    <2> QED
      BY <2>1, <2>2, <2>3
  <1>12. \A r \in rows : Last(rows, r) /\ r.at <= t /\ r.anchor = n.anchor => sameSchedule(r.schedule, n.schedule)
    <2> SUFFICES ASSUME NEW r \in rows, Last(rows, r), r.at <= t, r.anchor = n.anchor
                 PROVE  sameSchedule(r.schedule, n.schedule)
      OBVIOUS
    <2>1. CASE n.anchor = n.at
      BY <1>1, <1>2, <2>1
    <2>2. ASSUME NEW c \in rows, InEffect(rows, c, t), n.anchor = c.anchor, sameSchedule(c.schedule, n.schedule)
          PROVE  sameSchedule(r.schedule, n.schedule)
      <3>1. Last(rows, c)
        BY <2>2, InEffectLast
      <3>2. sameSchedule(r.schedule, c.schedule)
        BY <2>2, <3>1 DEF Line, SharedAnchors
      <3> QED
        BY <2>2, <3>2, SameThrough
    <2> QED
      BY <2>1, <2>2
  <1>13. SharedAnchors(P)
    <2> SUFFICES ASSUME NEW r \in P, NEW x \in P, Last(P, r), Last(P, x), r.anchor = x.anchor
                 PROVE  sameSchedule(r.schedule, x.schedule)
      BY DEF SharedAnchors
    <2>1. CASE r = n /\ x = n
      BY <1>2, <2>1, SameAsItself
    <2>2. CASE r # n /\ x = n
      BY <1>4, <1>12, <2>2
    <2>3. CASE r = n /\ x # n
      <3>1. sameSchedule(x.schedule, n.schedule)
        BY <1>4, <1>12, <2>3
      <3> QED
        BY <2>3, <3>1, SameBack
    <2>4. CASE r # n /\ x # n
      BY <1>4, <2>4 DEF Line, SharedAnchors
    <2> QED
      BY <2>1, <2>2, <2>3, <2>4
  <1>14. ASSUME NEW r \in P, NEW x \in rows, Last(P, r), r # n, Last(rows, x), x.at <= t, ~Between(P, r, x)
         PROVE  ~Between(rows, r, x)
    <2> SUFFICES ASSUME NEW y \in rows, Last(rows, y), r.anchor < y.anchor, y.anchor < x.anchor PROVE FALSE
      BY DEF Between
    <2>1. CASE y.at = n.at
      <3>1. x.at <= y.at
        BY <1>1, <1>2, <1>14, <2>1
      <3>2. x.anchor <= y.anchor
        BY <1>6, <1>14, <3>1
      <3> QED
        BY <1>1, <1>14, <3>2
    <2>2. CASE y.at # n.at
      BY <1>3, <1>9, <1>14, <2>2 DEF Between
    <2> QED
      BY <2>1, <2>2
  <1>15. Unbroken(P)
    <2> SUFFICES ASSUME NEW r \in P, NEW x \in P, Last(P, r), Last(P, x), r.anchor < x.anchor, ~Between(P, r, x)
                 PROVE  EndsWindow(x.anchor, r)
      BY DEF Unbroken
    <2>1. CASE r = n
      <3>1. x # n
        BY <1>2, <2>1
      <3>2. x.anchor <= n.anchor
        BY <1>4, <1>8, <3>1
      <3>3. x.anchor \in Nat
        BY <1>1, <1>4, <3>1
      <3> QED
        BY <1>2, <2>1, <3>2, <3>3
    <2>2. CASE r # n /\ x # n
      <3>1. r \in rows /\ x \in rows /\ Last(rows, r) /\ Last(rows, x) /\ x.at <= t
        BY <1>4, <2>2
      <3>2. ~Between(rows, r, x)
        BY <1>14, <2>2, <3>1
      <3> QED
        BY <3>1, <3>2 DEF Line, Unbroken
    <2>3. CASE r # n /\ x = n
      <3>1. r \in rows /\ Last(rows, r) /\ r.at <= t
        BY <1>4, <2>3
      <3>2. PICK c \in rows : InEffect(rows, c, t)
        BY <3>1, SomethingInEffect
      <3>3. Last(rows, c) /\ c.at <= t /\ r.anchor <= c.anchor
        BY <1>7, <3>1, <3>2, InEffectLast, InEffectHighest DEF InEffect
      <3>4. Last(P, c)
        BY <1>1, <1>2, <1>3, <3>3
      <3>5. c.anchor <= n.anchor
        BY <1>8, <3>3
      <3>6. CASE c.anchor = n.anchor
        <4>1. ~Between(rows, r, c)
          <5>1. ~Between(P, r, c)
            BY <2>3, <3>6 DEF Between
          <5> QED
            BY <1>14, <2>3, <3>3, <5>1
        <4> QED
          BY <2>3, <3>1, <3>3, <3>6, <4>1 DEF Line, Unbroken
      <3>7. CASE c.anchor # n.anchor
        <4>1. c.anchor < n.anchor
          BY <1>1, <1>2, <3>5, <3>7
        <4>2. r.anchor = c.anchor
          <5>1. ~(r.anchor < c.anchor)
            BY <1>9, <2>3, <3>4, <4>1 DEF Between
          <5> QED
            BY <1>1, <3>1, <3>3, <5>1
        <4>3. n.anchor = n.at
          <5>1. \A d \in rows : InEffect(rows, d, t) => d = c
            BY <3>2, InEffectOnce
          <5> QED
            BY <3>7, <5>1
        <4>4. sameSchedule(r.schedule, c.schedule)
          BY <3>1, <3>3, <4>2 DEF Line, SharedAnchors
        <4>5. EndsWindow(n.at, c)
          BY <3>2
        <4> QED
          BY <2>3, <4>2, <4>3, <4>4, <4>5, SameEnds
      <3> QED
        BY <3>6, <3>7
    <2> QED
      BY <2>1, <2>2, <2>3
  <1>16. AheadWhole(P, t)
    <2> SUFFICES ASSUME NEW c \in P, NEW x \in P, InEffect(P, c, t), x.at > t
                 PROVE  EndsWindow(x.at, c) /\ (Last(P, x) => x.anchor = x.at \/ x.anchor = c.anchor)
      BY DEF AheadWhole
    <2>1. InEffect(rows, c, t) /\ c \in rows /\ x.at = n.at
      BY <1>5, <1>9 DEF InEffect
    <2>2. EndsWindow(x.at, c)
      BY <2>1
    <2>3. ASSUME Last(P, x) PROVE x = n
      BY <1>3, <2>1, <2>3
    <2>4. n.anchor = n.at \/ n.anchor = c.anchor
      BY <2>1, InEffectOnce
    <2> QED
      BY <2>2, <2>3, <2>4
  <1>17. FirstAhead(P, t)
    <2> SUFFICES ASSUME NEW x \in P, Last(P, x), \A y \in P : y.at > t PROVE x.anchor = x.at
      BY DEF FirstAhead
    <2>1. x.at = n.at
      BY <1>9
    <2>2. x = n
      BY <1>3, <2>1
    <2>3. \A c \in rows : ~InEffect(rows, c, t)
      BY <1>1, <1>9 DEF InEffect
    <2> QED
      BY <2>2, <2>3
  <1> QED
    BY <1>9, <1>10, <1>11, <1>13, <1>15, <1>16, <1>17 DEF Line

\* Members change: a revision like the one in effect takes effect now.
LEMMA LineNow ==
  ASSUME NEW rows, NEW seq, Table(rows, seq), NEW t \in Nat, Line(rows, t),
         NEW c \in rows, InEffect(rows, c, t),
         NEW n \in Rows, n.id = seq + 1, n.at <= t, c.at <= n.at, n.anchor = c.anchor, n.schedule = c.schedule
  PROVE  Line(rows \cup {n}, t) /\ InEffect(rows \cup {n}, n, t)
  <1> DEFINE P == rows \cup {n}
  <1>1. \A r \in rows : r.at \in Nat /\ r.anchor \in Nat /\ r.schedule \in Schedules /\ r.id \in Nat /\ r.id < n.id
    <2>1. seq \in Nat
      BY DEF Table
    <2> QED
      BY <2>1, TableRow
  <1>2. n.at \in Nat /\ n.anchor \in Nat /\ n.schedule \in Schedules /\ n.id \in Nat
    BY RowType
  <1>3. \A r : Last(P, r) <=> r = n \/ (Last(rows, r) /\ r.at # n.at)
    BY AddedLast
  <1>4. Last(rows, c) /\ c.at <= t
    BY InEffectLast DEF InEffect
  <1>5. \A r \in rows : r.at <= t => r.at <= c.at
    BY <1>1 DEF InEffect, later
  <1>6. InEffect(P, n, t)
    <2> SUFFICES ASSUME NEW x \in P, x.at <= t PROVE later(n, x)
      BY DEF InEffect
    <2>1. CASE x = n
      BY <1>2, <2>1 DEF later
    <2>2. CASE x \in rows
      BY <1>1, <1>2, <1>5, <2>2 DEF later
    <2> QED
      BY <2>1, <2>2
  <1>7. ASSUME NEW r \in rows, Last(rows, r), r.at = n.at PROVE r = c
    <2>1. r.at = c.at
      BY <1>1, <1>2, <1>4, <1>5, <1>7
    <2>2. r.id <= c.id /\ c.id <= r.id
      BY <1>4, <1>7, <2>1 DEF Last
    <2>3. r.id = c.id
      BY <1>1, <2>2
    <2> QED
      BY <2>3 DEF Table
  <1>8. \A r \in P : Last(P, r) /\ r # n => r \in rows /\ Last(rows, r) /\ r.at # n.at
    BY <1>3
  <1> HIDE DEF P
  <1>9. P = rows \cup {n}
    BY DEF P
  \* n stands for c: what is last has an equal among what was.
  <1> DEFINE old(r) == IF r = n THEN c ELSE r
  <1>10. \A r \in P : Last(P, r) => /\ old(r) \in rows /\ Last(rows, old(r))
                                    /\ old(r).anchor = r.anchor /\ old(r).schedule = r.schedule
                                    /\ old(r).at <= r.at
    BY <1>1, <1>4, <1>8
  <1>11. \A r \in P, x \in P : Last(P, r) /\ Last(P, x) /\ r.at <= x.at => old(r).at <= old(x).at
    <2> SUFFICES ASSUME NEW r \in P, NEW x \in P, Last(P, r), Last(P, x), r.at <= x.at PROVE old(r).at <= old(x).at
      OBVIOUS
    <2>1. CASE r = n
      BY <1>1, <1>2, <1>8, <2>1
    <2>2. CASE r # n /\ x = n
      BY <1>1, <1>2, <1>5, <1>8, <2>2
    <2>3. CASE r # n /\ x # n
      BY <2>3
    <2> QED
      BY <2>1, <2>2, <2>3
  <1> HIDE DEF old
  <1>12. OneAhead(P, t)
    BY <1>2, <1>9 DEF Line, OneAhead
  <1>13. Rising(P)
    <2> SUFFICES ASSUME NEW r \in P, NEW x \in P, Last(P, r), Last(P, x), r.at <= x.at PROVE r.anchor <= x.anchor
      BY DEF Rising
    <2>1. old(r).anchor <= old(x).anchor
      BY <1>10, <1>11 DEF Line, Rising
    <2> QED
      BY <1>10, <2>1
  <1>14. SharedAnchors(P)
    <2> SUFFICES ASSUME NEW r \in P, NEW x \in P, Last(P, r), Last(P, x), r.anchor = x.anchor
                 PROVE  sameSchedule(r.schedule, x.schedule)
      BY DEF SharedAnchors
    <2>1. sameSchedule(old(r).schedule, old(x).schedule)
      BY <1>10 DEF Line, SharedAnchors
    <2> QED
      BY <1>10, <2>1
  <1>15. Unbroken(P)
    <2> SUFFICES ASSUME NEW r \in P, NEW x \in P, Last(P, r), Last(P, x), r.anchor < x.anchor, ~Between(P, r, x)
                 PROVE  EndsWindow(x.anchor, r)
      BY DEF Unbroken
    <2>1. ~Between(rows, old(r), old(x))
      <3> SUFFICES ASSUME NEW y \in rows, Last(rows, y), r.anchor < y.anchor, y.anchor < x.anchor PROVE FALSE
        BY <1>10 DEF Between
      <3>1. CASE y.at # n.at
        BY <1>3, <1>9, <3>1 DEF Between
      <3>2. CASE y.at = n.at
        <4>1. y.anchor = n.anchor
          BY <1>7, <3>2
        <4> QED
          BY <1>3, <1>9, <4>1 DEF Between
      <3> QED
        BY <3>1, <3>2
    <2>2. EndsWindow(old(x).anchor, old(r))
      BY <1>10, <2>1 DEF Line, Unbroken
    <2> QED
      BY <1>10, <2>2 DEF EndsWindow
  <1>16. AheadWhole(P, t)
    <2> SUFFICES ASSUME NEW d \in P, NEW x \in P, InEffect(P, d, t), x.at > t
                 PROVE  EndsWindow(x.at, d) /\ (Last(P, x) => x.anchor = x.at \/ x.anchor = d.anchor)
      BY DEF AheadWhole
    <2>1. d = n
      <3>1. later(n, d) /\ later(d, n)
        BY <1>2, <1>6, <1>9 DEF InEffect
      <3> QED
        BY <1>1, <1>2, <1>9, <3>1 DEF later
    <2>2. x \in rows /\ x # n
      BY <1>2, <1>9
    <2>3. EndsWindow(x.at, c) /\ (Last(rows, x) => x.anchor = x.at \/ x.anchor = c.anchor)
      BY <2>2 DEF Line, AheadWhole
    <2>4. Last(P, x) => Last(rows, x)
      BY <1>3, <2>2
    <2> QED
      BY <2>1, <2>3, <2>4 DEF EndsWindow
  <1>17. FirstAhead(P, t)
    BY <1>2, <1>9 DEF FirstAhead
  <1> QED
    BY <1>6, <1>9, <1>12, <1>13, <1>14, <1>15, <1>16, <1>17 DEF Line

-----------------------------------------------------------------------------
(* The invariant *)

\* A request that was admitted captured the revision in effect: it is still there, and no revision has come
\* before it since.
Captures(rows) ==
  \A x \in captured :
    /\ x.at \in Nat /\ x.at < clock
    /\ \E own \in rows : /\ own.id = x.revision /\ own.at <= x.at
                         /\ \A r \in rows : r.at <= x.at => later(own, r)

\* A revision that an editor was shown is as it was, or gone; its id is never given to another.
ShownRow(x) ==
  x = None \/ (x \in Rows /\ x.id <= sequence /\ \A r \in allocation_revisions : r.id = x.id => r = x)

ViewSound(v) ==
  /\ v.at \in Nat /\ ShownRow(v.current) /\ ShownRow(v.next)
  /\ v.action # "create" => v.anchor = previewAnchor(v, v.action, v.at)

\* A change that has been opened: nothing has touched the tables since they were read.
SeenAt(t) ==
  /\ t \in 1..clock
  /\ tx.state = readSchemeCore(allocation_revisions, t)
  /\ tx.view.current = tx.state.current /\ tx.view.next = tx.state.next

Opened ==
  /\ SeenAt(tx.now) /\ allocation_revisions # {}
  /\ "view" \in DOMAIN tx
  /\ \A x \in captured : x.at < tx.now
  /\ tx.op \in {"members", "schedule", "replace", "cancel", "reschedule"}
  /\ tx.op \in {"schedule", "replace", "reschedule"} => ViewSound(tx.view) /\ tx.view.action = tx.op
  /\ tx.op \in {"schedule", "replace"} => tx.schedule \in Schedules
  /\ tx.op \in {"members", "schedule", "replace"} => tx.members \in MemberSets
  /\ tx.op = "schedule" => sameSchedule(edited(tx.state).schedule, tx.schedule)
  /\ tx.op \in {"cancel", "reschedule"} => tx.state.next # None
  /\ tx.op = "cancel" => tx.state.current # None

\* The tables as they will be: sound, with new ids, and with everything that somebody relies on.
Prepared ==
  /\ Table(tx.rows, tx.seq) /\ sequence <= tx.seq
  /\ \A x \in tx.rows : x \in allocation_revisions \/ x.id > sequence
  /\ Captures(tx.rows)

Gone(r) == (\A x \in captured : x.revision # r.id) /\ (\A x \in tx.rows : x.id # r.id)

AsShown == tx.op \in {"schedule", "replace", "reschedule"} => tx.at = tx.view.at /\ tx.anchor = tx.view.anchor

Written ==
  /\ {"phase", "now", "view"} \subseteq DOMAIN tx
  /\ \E t \in 1..clock : SeenAt(t)
  /\ Prepared /\ AsShown
  /\ \A r \in allocation_revisions :
       r \in tx.rows \/ (tx.state.next # None /\ r.at = tx.state.next.at /\ Gone(r))
  /\ (tx.state.next # None => tx.state.next.at > clock) => Line(tx.rows, clock)

Created ==
  /\ "phase" \in DOMAIN tx /\ "view" \notin DOMAIN tx
  /\ allocation_revisions = {} /\ Prepared /\ Line(tx.rows, clock)

Finished ==
  /\ "view" \in DOMAIN tx
  /\ Prepared /\ AsShown /\ Line(tx.rows, clock)
  /\ \A r \in allocation_revisions : r \in tx.rows \/ (r.at > tx.now /\ Gone(r))
  /\ tx.view.current = readSchemeCore(allocation_revisions, tx.now).current
  /\ tx.view.next = readSchemeCore(allocation_revisions, tx.now).next

TxSound ==
  /\ tx.phase \in {"none", "creating", "opened", "written", "checked"}
  /\ tx.phase = "none" => tx = NoTx
  /\ tx.phase = "creating" => Created
  /\ tx.phase = "opened" => Opened
  /\ tx.phase = "written" => Written
  /\ tx.phase = "checked" => Created \/ Finished

SchemesInv ==
  /\ clock \in 1..MaxTime /\ zone \in Zones
  /\ Table(allocation_revisions, sequence) /\ Line(allocation_revisions, clock) /\ Captures(allocation_revisions)
  /\ \A v \in views : ViewSound(v)
  /\ TxSound

LEMMA ReadFacts ==
  ASSUME NEW rows, NEW seq, Table(rows, seq), NEW t \in Nat
  PROVE  LET s == readSchemeCore(rows, t) IN
         /\ IF s.current = None THEN \A r \in rows : r.at > t ELSE InEffect(rows, s.current, t)
         /\ IF s.next = None THEN \A r \in rows : r.at <= t ELSE Scheduled(rows, s.next, t)
         /\ s.current # None => s.current \in rows
         /\ s.next # None => s.next \in rows
  <1>1. /\ readSchemeCore(rows, t).current = CurrentAllocationRevision(rows, t)
        /\ readSchemeCore(rows, t).next = NextAllocationRevision(rows, t)
    BY DEF readSchemeCore
  <1> QED
    BY <1>1, CurrentIs, NextIs DEF InEffect, Scheduled

LEMMA EditedRow ==
  ASSUME NEW rows, NEW seq, Table(rows, seq), NEW t \in Nat, rows # {}
  PROVE  edited(readSchemeCore(rows, t)) \in rows
  <1> DEFINE s == readSchemeCore(rows, t)
  <1>1. /\ IF s.current = None THEN \A r \in rows : r.at > t ELSE InEffect(rows, s.current, t)
        /\ IF s.next = None THEN \A r \in rows : r.at <= t ELSE Scheduled(rows, s.next, t)
        /\ s.current # None => s.current \in rows
        /\ s.next # None => s.next \in rows
    BY ReadFacts
  <1>2. \A r \in rows : r.at \in Nat
    BY TableRow
  <1>3. s.current # None \/ s.next # None
    BY <1>1, <1>2
  <1> QED
    BY <1>1, <1>3 DEF edited

\* The times that the server proposes end a window of the revision in effect, if it has windows of a length.
LEMMA Proposals ==
  ASSUME NEW rows, NEW seq, Table(rows, seq), NEW t \in Nat, NEW now \in Nat, zone \in Zones
  PROVE  LET s == readSchemeCore(rows, t) IN
         /\ movedTime(s, now) \in Nat /\ ownTime(s, now) \in Nat
         /\ movedTime(s, now) # 0 => /\ s.next # None /\ s.next.at > now /\ movedTime(s, now) > s.next.at
                                     /\ s.current # None => EndsWindow(movedTime(s, now), s.current)
         /\ s.next # None => ownTime(s, now) = s.next.at
         /\ s.next = None /\ s.current # None => EndsWindow(ownTime(s, now), s.current)
  <1> DEFINE s == readSchemeCore(rows, t)
             base == IF s.current = None THEN s.next ELSE s.current
  <1>1. /\ s.current # None => s.current \in rows
        /\ s.next # None => s.next \in rows
    BY ReadFacts
  <1> HIDE DEF s
  <1>2. ASSUME s.next # None
        PROVE  /\ base \in rows /\ s.next.at \in Nat /\ base.schedule \in Schedules /\ base.anchor \in Nat
    BY <1>1, <1>2, TableRow
  <1>3. ASSUME s.next # None, s.next.at > now
        PROVE  /\ movedTime(s, now) \in Nat
               /\ movedTime(s, now) # 0 => movedTime(s, now) > s.next.at
               /\ s.current # None => EndsWindow(movedTime(s, now), s.current)
    <2>1. movedTime(s, now) = nextEffective(base.schedule, s.next.at, zone, base.anchor)
      BY <1>2, <1>3 DEF movedTime
    <2>2. base.schedule \in Schedules /\ base.anchor \in Nat /\ s.next.at \in Nat
      BY <1>2, <1>3
    <2> HIDE DEF base
    <2>3. LET e == nextEffective(base.schedule, s.next.at, zone, base.anchor) IN
          /\ e \in Nat /\ (e # 0 => e > s.next.at)
          /\ base.schedule.period = "durations" => (e - base.anchor) % Max(base.schedule.windows) = 0
      BY <2>2, ProposedTime
    <2> QED
      BY <2>1, <2>3 DEF base, EndsWindow
  <1>4. ~(s.next # None /\ s.next.at > now) => movedTime(s, now) = 0
    BY <1>2 DEF movedTime
  <1>5. s.next # None => ownTime(s, now) = s.next.at
    BY DEF ownTime
  <1>6. ASSUME s.next = None, s.current # None
        PROVE  ownTime(s, now) \in Nat /\ EndsWindow(ownTime(s, now), s.current)
    <2>1. ownTime(s, now) = nextEffective(s.current.schedule, now, zone, s.current.anchor)
      BY <1>6 DEF ownTime
    <2>2. s.current.schedule \in Schedules /\ s.current.anchor \in Nat
      BY <1>1, <1>6, TableRow
    <2>3. LET e == nextEffective(s.current.schedule, now, zone, s.current.anchor) IN
          /\ e \in Nat
          /\ s.current.schedule.period = "durations" => (e - s.current.anchor) % Max(s.current.schedule.windows) = 0
      BY <2>2, ProposedTime
    <2> QED
      BY <2>1, <2>3 DEF EndsWindow
  <1>7. s.next = None /\ s.current = None => ownTime(s, now) = 0
    BY DEF ownTime
  <1> QED
    BY <1>2, <1>3, <1>4, <1>5, <1>6, <1>7 DEF s

\* A time agreed to is the one proposed now, and what is scheduled has not started.
LEMMA AgreedTime ==
  ASSUME NEW expected, NEW state, NEW action, NEW now \in Nat, checkTime(expected, state, action, now) # 0
  PROVE  /\ checkTime(expected, state, action, now) = expected
         /\ expected = targetTime(state, action, now) /\ expected > now
         /\ state.next = None \/ state.next.at > now
  BY DEF checkTime

LEMMA CapturesAdded ==
  ASSUME NEW rows, Captures(rows), NEW n, n.at \in Nat, \A x \in captured : x.at < n.at
  PROVE  Captures(rows \cup {n})
  <1>1. \A x \in captured : ~(n.at <= x.at)
    BY DEF Captures
  <1> QED
    BY <1>1 DEF Captures

\* A row is taken from the table: its kind and what it makes of the table.
NewRow(id, at, anchor, schedule, members) ==
  [id |-> id, at |-> at, anchor |-> anchor, schedule |-> schedule, members |-> members]

LEMMA NewRowType ==
  ASSUME NEW id \in Nat \ {0}, NEW at \in Nat \ {0}, NEW anchor \in Nat \ {0}, NEW c \in Schedules, NEW m \in MemberSets
  PROVE  LET n == NewRow(id, at, anchor, c, m) IN
         n \in Rows /\ n.id = id /\ n.at = at /\ n.anchor = anchor /\ n.schedule = c /\ n.members = m
  BY DEF NewRow, Rows

-----------------------------------------------------------------------------
(* The steps *)

\* Editors look, the zone changes: the transaction is as it was.
LEMMA TxFrame ==
  ASSUME TxSound, UNCHANGED <<clock, allocation_revisions, sequence, captured, tx>>
  PROVE  TxSound'
  BY DEF TxSound, Created, Opened, Written, Finished, SeenAt, Prepared, Captures, Gone, AsShown, ViewSound, ShownRow

LEMMA TablesFrame ==
  ASSUME SchemesInv, UNCHANGED <<clock, allocation_revisions, sequence, captured>>
  PROVE  /\ (clock \in 1..MaxTime)' /\ Table(allocation_revisions, sequence)'
         /\ Line(allocation_revisions, clock)' /\ Captures(allocation_revisions)'
         /\ \A v \in views : ViewSound(v)'
  BY DEF SchemesInv, Captures, ViewSound, ShownRow

LEMMA SchemesInitial == SchemesInit => SchemesInv
  <1> SUFFICES ASSUME SchemesInit PROVE SchemesInv
    OBVIOUS
  <1>1. Table({}, 0) /\ Line({}, 1) /\ Captures({})
    BY DEF SchemesInit, Table, Line, OneAhead, Rising, SharedAnchors, Unbroken, AheadWhole, FirstAhead, Captures
  <1> QED
    BY <1>1, SchemesAssumption DEF SchemesInit, SchemesInv, TxSound, NoTx

LEMMA ShownReads ==
  ASSUME SchemesInv
  PROVE  LET s == readSchemeCore(allocation_revisions, clock) IN ShownRow(s.current) /\ ShownRow(s.next)
  <1> DEFINE s == readSchemeCore(allocation_revisions, clock)
  <1>1. Table(allocation_revisions, sequence) /\ clock \in Nat
    BY DEF SchemesInv
  <1>2. /\ s.current # None => s.current \in allocation_revisions
        /\ s.next # None => s.next \in allocation_revisions
    BY <1>1, ReadFacts
  <1>3. \A r \in allocation_revisions : ShownRow(r)
    BY <1>1, TableRow DEF ShownRow, Table
  <1> HIDE DEF s
  <1>4. ShownRow(None)
    BY DEF ShownRow
  <1> QED
    BY <1>2, <1>3, <1>4 DEF s

\* One more editor is shown what is there.
LEMMA ShownStep ==
  ASSUME SchemesInv, NEW view, ViewSound(view), shown(view),
         UNCHANGED <<clock, zone, allocation_revisions, sequence, captured, tx>>
  PROVE  SchemesInv'
  <1>1. ViewSound(view)'
    BY DEF ViewSound, ShownRow
  <1>2. views' = views \cup {view}
    BY DEF shown
  <1>3. (\A v \in views : ViewSound(v))'
    BY <1>1, <1>2, TablesFrame
  <1> QED
    BY <1>3, TablesFrame, TxFrame DEF SchemesInv

LEMMA PreviewStep ==
  ASSUME SchemesInv, NEW action \in {"schedule", "reschedule", "replace"}, Preview(action)
  PROVE  SchemesInv'
  <1> DEFINE state == readSchemeCore(allocation_revisions, clock)
             at == targetTime(state, action, clock)
             view == [action |-> action, current |-> state.current, next |-> state.next, at |-> at,
                      anchor |-> previewAnchor(state, action, at)]
  <1>1. shown(view) /\ UNCHANGED <<clock, zone, allocation_revisions, sequence, captured, tx>>
    BY DEF Preview
  <1>2. at \in Nat
    <2>1. Table(allocation_revisions, sequence) /\ clock \in Nat /\ zone \in Zones
      BY DEF SchemesInv
    <2>2. movedTime(state, clock) \in Nat /\ ownTime(state, clock) \in Nat
      BY <2>1, Proposals
    <2> QED
      BY <2>2 DEF targetTime
  <1>3. ShownRow(state.current) /\ ShownRow(state.next)
    BY ShownReads
  <1> HIDE DEF state, at
  <1>4. /\ view.action = action /\ view.current = state.current /\ view.next = state.next /\ view.at = at
        /\ view.anchor = previewAnchor(state, action, at)
    OBVIOUS
  <1> HIDE DEF view
  <1>5. previewAnchor(view, action, at) = previewAnchor(state, action, at)
    BY <1>4 DEF previewAnchor, movedAnchor, edited
  <1>6. ViewSound(view)
    BY <1>2, <1>3, <1>4, <1>5 DEF ViewSound
  <1> QED
    BY <1>1, <1>6, ShownStep

LEMMA PreviewInitialStep ==
  ASSUME SchemesInv, NEW c \in Schedules, PreviewInitial(c)
  PROVE  SchemesInv'
  <1> DEFINE at == nextEffective(c, clock, zone, clock)
             view == [action |-> "create", current |-> None, next |-> None, at |-> at, anchor |-> at]
  <1>1. shown(view) /\ UNCHANGED <<clock, zone, allocation_revisions, sequence, captured, tx>>
    BY DEF PreviewInitial
  <1>2. at \in Nat
    <2>1. clock \in Nat /\ zone \in Zones
      BY DEF SchemesInv
    <2> QED
      BY <2>1, ProposedTime
  <1>3. ShownRow(None)
    BY DEF ShownRow
  <1> HIDE DEF at
  <1>4. ViewSound(view)
    BY <1>2, <1>3 DEF ViewSound
  <1> HIDE DEF view
  <1> QED
    BY <1>1, <1>4, ShownStep

LEMMA LocationStep ==
  ASSUME SchemesInv, NEW z \in Zones, SaveLocation(z)
  PROVE  SchemesInv'
  <1>1. zone' = z /\ UNCHANGED <<clock, allocation_revisions, sequence, captured, views, dialogs, tx>>
    BY DEF SaveLocation
  <1> QED
    BY <1>1, TablesFrame, TxFrame DEF SchemesInv

\* Only the transaction moves, and perhaps an editor's view is used up.
LEMMA TxStep ==
  ASSUME SchemesInv, UNCHANGED <<clock, zone, allocation_revisions, sequence, captured>>,
         views' \subseteq views, TxSound'
  PROVE  SchemesInv'
  <1>1. (\A v \in views : ViewSound(v))'
    BY TablesFrame
  <1> QED
    BY <1>1, TablesFrame DEF SchemesInv

-----------------------------------------------------------------------------
(* Creation *)

LEMMA OneRow ==
  ASSUME NEW n \in Rows, NEW seq \in Nat, n.id = seq + 1, n.anchor = n.at, NEW t \in Nat
  PROVE  Table({n}, seq + 1) /\ Line({n}, t)
  <1>1. n.id \in Nat /\ n.at \in Nat /\ n.schedule \in Schedules /\ n.anchor \in Nat
    BY RowType
  <1>2. Table({n}, seq + 1)
    BY <1>1 DEF Table
  <1>3. OneAhead({n}, t) /\ Rising({n}) /\ Unbroken({n}) /\ AheadWhole({n}, t) /\ FirstAhead({n}, t)
    BY <1>1 DEF OneAhead, Rising, Unbroken, AheadWhole, FirstAhead, InEffect
  <1>4. SharedAnchors({n})
    BY <1>1, SameAsItself DEF SharedAnchors
  <1> QED
    BY <1>2, <1>3, <1>4 DEF Line

\* A table without revisions has no entries that captured one.
LEMMA NothingCaptured ==
  ASSUME Captures(allocation_revisions), allocation_revisions = {}
  PROVE  captured = {}
  BY DEF Captures

LEMMA CreateTime ==
  ASSUME SchemesInv, NEW c \in Schedules, NEW startNext \in BOOLEAN, NEW expected \in Nat
  PROVE  creationTime(c, startNext, expected, clock) \in Nat
  <1>1. clock \in Nat /\ zone \in Zones
    BY DEF SchemesInv
  <1>2. nextEffective(c, clock, zone, clock) \in Nat
    BY <1>1, ProposedTime
  <1> QED
    BY <1>1, <1>2 DEF creationTime

LEMMA SaveSchemeStep ==
  ASSUME SchemesInv, NEW c \in Schedules, NEW ms \in MemberSets, NEW startNext \in BOOLEAN,
         NEW expected \in {0} \cup {v.at : v \in shownFor("create")},
         SaveScheme(c, ms, startNext, expected)
  PROVE  SchemesInv'
  <1> DEFINE at == creationTime(c, startNext, expected, clock)
             n == NewRow(sequence + 1, at, at, c, ms)
  <1>1. expected \in Nat
    BY DEF SchemesInv, ViewSound, shownFor
  <1>2. sequence \in Nat /\ clock \in Nat
    BY DEF SchemesInv, Table
  <1>3. at \in Nat
    BY <1>1, CreateTime
  <1> HIDE DEF at
  <1>4. /\ at # 0 /\ allocation_revisions = {}
        /\ tx' = [phase |-> "creating", schedule |-> c, startNext |-> startNext,
                  expected |-> expected, at |-> at, rows |-> {n}, seq |-> sequence + 1]
        /\ UNCHANGED <<clock, zone, allocation_revisions, sequence, captured, views, dialogs>>
    BY DEF SaveScheme, appendRevision, NewRow, at
  <1>5. n \in Rows /\ n.id = sequence + 1 /\ n.at = at /\ n.anchor = at
    BY <1>2, <1>3, <1>4, NewRowType
  <1> HIDE DEF n
  <1>6. Table({n}, sequence + 1) /\ Line({n}, clock)
    BY <1>2, <1>5, OneRow
  <1>7. captured' = {} /\ allocation_revisions' = {}
    BY <1>4, NothingCaptured DEF SchemesInv
  <1>8. tx'.phase = "creating" /\ tx'.rows = {n} /\ tx'.seq = sequence + 1
    BY <1>4
  <1>9. "phase" \in DOMAIN tx' /\ "view" \notin DOMAIN tx'
    BY <1>4
  <1>10. Prepared'
    BY <1>2, <1>4, <1>5, <1>6, <1>7, <1>8 DEF Prepared, Captures
  <1>11. Created'
    BY <1>4, <1>6, <1>7, <1>8, <1>9, <1>10 DEF Created
  <1>12. TxSound'
    BY <1>8, <1>11 DEF TxSound
  <1> QED
    BY <1>4, <1>12, TxStep

\* What is prepared stays as it is when only the phase moves on.
LEMMA PreparedFrame ==
  ASSUME Prepared, UNCHANGED <<clock, allocation_revisions, sequence, captured>>,
         tx'.rows = tx.rows, tx'.seq = tx.seq
  PROVE  Prepared'
  BY DEF Prepared, Captures

LEMMA PhaseMoves ==
  ASSUME "phase" \in DOMAIN tx, tx' = [tx EXCEPT !.phase = "checked"]
  PROVE  tx'.phase = "checked" /\ tx'.rows = tx.rows /\ tx'.seq = tx.seq /\ DOMAIN tx' = DOMAIN tx
  OBVIOUS

LEMMA CreationCheckedStep ==
  ASSUME SchemesInv, creationChecked
  PROVE  SchemesInv'
  <1>1. /\ tx.phase = "creating" /\ tx' = [tx EXCEPT !.phase = "checked"]
        /\ UNCHANGED <<clock, zone, allocation_revisions, sequence, captured, views, dialogs>>
    BY DEF creationChecked
  <1>2. Created
    BY <1>1 DEF SchemesInv, TxSound
  <1>3. tx'.phase = "checked" /\ tx'.rows = tx.rows /\ tx'.seq = tx.seq /\ DOMAIN tx' = DOMAIN tx
    BY <1>1, <1>2, PhaseMoves DEF Created
  <1>4. Prepared'
    BY <1>1, <1>2, <1>3, PreparedFrame DEF Created
  <1>5. Created'
    BY <1>1, <1>2, <1>3, <1>4 DEF Created
  <1>6. TxSound'
    BY <1>3, <1>5 DEF TxSound
  <1> QED
    BY <1>1, <1>6, TxStep

-----------------------------------------------------------------------------
(* Opening a change *)

OpenedTx(v, op, c, ms, state) ==
  [phase |-> "opened", op |-> op, now |-> clock, state |-> state, schedule |-> c, members |-> ms, view |-> v]

\* The ids an editor sends back name the rows it was shown.
LEMMA SameRow ==
  ASSUME Table(allocation_revisions, sequence), NEW x, ShownRow(x), NEW r,
         r = None \/ r \in allocation_revisions, x.id = r.id
  PROVE  x = r
  <1>1. CASE r = None
    BY <1>1, NoneIsNoRow DEF ShownRow
  <1>2. CASE r \in allocation_revisions
    <2>1. r.id # None.id
      BY <1>2, NoneIsNoRow DEF Table
    <2> QED
      BY <1>2, <2>1 DEF ShownRow
  <1> QED
    BY <1>1, <1>2

LEMMA OpenStep ==
  ASSUME SchemesInv, NEW v \in views, NEW op, NEW c, NEW ms, openTx(v, op, c, ms),
         op \in {"members", "schedule", "replace", "cancel", "reschedule"},
         op \in {"schedule", "replace", "reschedule"} => v.action = op,
         op \in {"schedule", "replace"} => c \in Schedules,
         op \in {"members", "schedule", "replace"} => ms \in MemberSets,
         op = "schedule" => sameSchedule(edited(readSchemeCore(allocation_revisions, clock)).schedule, c),
         op \in {"cancel", "reschedule"} => readSchemeCore(allocation_revisions, clock).next # None,
         op = "cancel" => readSchemeCore(allocation_revisions, clock).current # None
  PROVE  SchemesInv'
  <1> DEFINE state == readSchemeCore(allocation_revisions, clock)
  <1>1. /\ tx = NoTx /\ allocation_revisions # {} /\ checkVersions(v, state)
        /\ tx' = OpenedTx(v, op, c, ms, state)
        /\ views' = views \ {v}
        /\ UNCHANGED <<clock, zone, allocation_revisions, sequence, captured, dialogs>>
    BY DEF openTx, OpenedTx
  <1>2. Table(allocation_revisions, sequence) /\ clock \in Nat \ {0} /\ ViewSound(v) /\ Captures(allocation_revisions)
    BY DEF SchemesInv
  <1>3. /\ state.current = None \/ state.current \in allocation_revisions
        /\ state.next = None \/ state.next \in allocation_revisions
    BY <1>2, ReadFacts
  <1>4. v.current = state.current /\ v.next = state.next
    <2>1. v.current.id = state.current.id /\ v.next.id = state.next.id /\ ShownRow(v.current) /\ ShownRow(v.next)
      BY <1>1, <1>2 DEF checkVersions, ViewSound
    <2> HIDE DEF state
    <2> QED
      BY <1>2, <1>3, <2>1, SameRow
  <1>5. state = readSchemeCore(allocation_revisions', clock')
    BY <1>1
  <1>6. /\ tx'.phase = "opened" /\ tx'.op = op /\ tx'.now = clock /\ tx'.state = state /\ tx'.schedule = c
        /\ tx'.members = ms /\ tx'.view = v /\ "view" \in DOMAIN tx'
    BY <1>1 DEF OpenedTx
  <1> HIDE DEF state
  <1>7. SeenAt(tx.now)'
    BY <1>1, <1>2, <1>4, <1>5, <1>6 DEF SeenAt
  <1>8. ViewSound(v)'
    BY <1>1, <1>2 DEF ViewSound, ShownRow
  <1>9. \A x \in captured' : x.at < tx'.now
    BY <1>1, <1>2, <1>6 DEF Captures
  <1>10. Opened'
    BY <1>1, <1>6, <1>7, <1>8, <1>9 DEF Opened, state, ViewSound, ShownRow
  <1>11. TxSound'
    BY <1>6, <1>10 DEF TxSound
  <1> QED
    BY <1>1, <1>11, TxStep

LEMMA UpdateMembersStep ==
  ASSUME SchemesInv, NEW v \in shownFor("schedule"), NEW ms \in MemberSets, UpdateMembers(v, ms)
  PROVE  SchemesInv'
  <1>1. v \in views /\ openTx(v, "members", [period |-> "none"], ms)
    BY DEF UpdateMembers, shownFor
  <1> QED
    BY <1>1, OpenStep

LEMMA UpdateSchemeStep ==
  ASSUME SchemesInv, NEW confirmed \in BOOLEAN, NEW c \in Schedules, NEW ms \in MemberSets,
         NEW v \in shownFor(IF confirmed THEN "replace" ELSE "schedule"), updateScheme(v, c, ms, confirmed)
  PROVE  SchemesInv'
  <1> DEFINE state == readSchemeCore(allocation_revisions, clock)
  <1>1. v \in views /\ v.action = IF confirmed THEN "replace" ELSE "schedule"
    BY DEF shownFor
  <1>2. /\ replaces(state, c, confirmed) = confirmed
        /\ openTx(v, IF confirmed THEN "replace" ELSE "schedule", c, ms)
    BY DEF updateScheme
  <1> HIDE DEF state
  <1>3. CASE confirmed
    <2>1. openTx(v, "replace", c, ms) /\ v.action = "replace"
      BY <1>1, <1>2, <1>3
    <2> QED
      BY <1>1, <2>1, OpenStep
  <1>4. CASE ~confirmed
    <2>1. openTx(v, "schedule", c, ms) /\ v.action = "schedule"
      BY <1>1, <1>2, <1>4
    <2>2. ~replaces(state, c, confirmed)
      BY <1>2, <1>4
    <2>3. sameSchedule(edited(state).schedule, c)
      BY <1>4, <2>2 DEF replaces
    <2> QED
      BY <1>1, <2>1, <2>3, OpenStep DEF state
  <1> QED
    BY <1>3, <1>4

LEMMA ChangeScheduleStep ==
  ASSUME SchemesInv, NEW op \in {"cancel", "reschedule"}, NEW v \in views, op = "reschedule" => v.action = op,
         ChangeSchedule(v, op)
  PROVE  SchemesInv'
  <1> DEFINE state == readSchemeCore(allocation_revisions, clock)
  <1>1. state.next # None /\ (op = "cancel" => state.current # None) /\ openTx(v, op, [period |-> "none"], {})
    BY DEF ChangeSchedule
  <1> QED
    BY <1>1, OpenStep

-----------------------------------------------------------------------------
(* Writing a change *)

\* What is written becomes the transaction.
LEMMA WriteStep ==
  ASSUME SchemesInv, Opened, tx.phase = "opened", NEW s, NEW at, NEW anchor, written(s, at, anchor),
         Table(s.rows, s.seq), sequence <= s.seq, Captures(s.rows),
         \A x \in s.rows : x \in allocation_revisions \/ x.id > sequence,
         tx.op \in {"schedule", "replace", "reschedule"} => at = tx.view.at /\ anchor = tx.view.anchor,
         \A r \in allocation_revisions :
           \/ r \in s.rows
           \/ /\ tx.state.next # None /\ r.at = tx.state.next.at
              /\ (\A x \in captured : x.revision # r.id) /\ (\A x \in s.rows : x.id # r.id),
         (tx.state.next # None => tx.state.next.at > clock) => Line(s.rows, clock)
  PROVE  SchemesInv'
  <1>1. /\ tx'.phase = "written" /\ tx'.op = tx.op /\ tx'.state = tx.state /\ tx'.view = tx.view
        /\ tx'.rows = s.rows /\ tx'.seq = s.seq /\ tx'.at = at /\ tx'.anchor = anchor
        /\ {"phase", "now", "view"} \subseteq DOMAIN tx'
    BY DEF written
  <1>2. UNCHANGED <<clock, zone, allocation_revisions, sequence, captured, views, dialogs>>
    BY DEF written
  <1>3. SeenAt(tx.now)
    BY DEF Opened
  <1>4. \E t \in 1..clock' : SeenAt(t)'
    <2>1. tx.now \in 1..clock'
      BY <1>2, <1>3 DEF SeenAt
    <2>2. /\ tx'.state = readSchemeCore(allocation_revisions', tx.now)
          /\ tx'.view.current = tx'.state.current /\ tx'.view.next = tx'.state.next
      BY <1>1, <1>2, <1>3 DEF SeenAt
    <2> QED
      BY <2>1, <2>2 DEF SeenAt
  <1>5. Prepared'
    BY <1>1, <1>2 DEF Prepared, Captures
  <1>6. AsShown'
    BY <1>1 DEF AsShown
  <1>7. \A r \in allocation_revisions' :
          r \in tx'.rows \/ (tx'.state.next # None /\ r.at = tx'.state.next.at /\ Gone(r)')
    BY <1>1, <1>2 DEF Gone
  <1>8. (tx'.state.next # None => tx'.state.next.at > clock') => Line(tx'.rows, clock')
    BY <1>1, <1>2
  <1>9. Written'
    BY <1>1, <1>4, <1>5, <1>6, <1>7, <1>8 DEF Written
  <1>10. TxSound'
    BY <1>1, <1>9 DEF TxSound
  <1> QED
    BY <1>2, <1>10, TxStep

\* What was read, then and now.
ReadAt(t) ==
  /\ IF tx.state.current = None THEN \A r \in allocation_revisions : r.at > t
     ELSE InEffect(allocation_revisions, tx.state.current, t)
  /\ IF tx.state.next = None THEN \A r \in allocation_revisions : r.at <= t
     ELSE Scheduled(allocation_revisions, tx.state.next, t)

Unstarted == tx.state.next # None => tx.state.next.at > clock

LEMMA SeenReads ==
  ASSUME SchemesInv, NEW t, SeenAt(t)
  PROVE  /\ t \in Nat /\ t <= clock /\ clock \in Nat
         /\ tx.state.current # None => tx.state.current \in allocation_revisions
         /\ tx.state.next # None => tx.state.next \in allocation_revisions
         /\ ReadAt(t)
         /\ Unstarted => ReadAt(clock) /\ tx.state = readSchemeCore(allocation_revisions, clock)
  <1>1. Table(allocation_revisions, sequence) /\ clock \in Nat
    BY DEF SchemesInv
  <1>2. t \in Nat /\ t <= clock /\ tx.state = readSchemeCore(allocation_revisions, t)
    BY <1>1 DEF SeenAt
  <1>3. /\ tx.state.current # None => tx.state.current \in allocation_revisions
        /\ tx.state.next # None => tx.state.next \in allocation_revisions
        /\ ReadAt(t)
    BY <1>1, <1>2, ReadFacts DEF ReadAt
  <1>4. ASSUME Unstarted PROVE tx.state = readSchemeCore(allocation_revisions, clock)
    <2>1. tx.state.next = NextAllocationRevision(allocation_revisions, t)
      BY <1>2 DEF readSchemeCore
    <2> QED
      BY <1>1, <1>2, <1>4, <2>1, StillRead DEF Unstarted
  <1>5. ASSUME Unstarted PROVE ReadAt(clock)
    BY <1>1, <1>4, <1>5, ReadFacts DEF ReadAt
  <1> QED
    BY <1>1, <1>2, <1>3, <1>4, <1>5

LEMMA MembersWrittenStep ==
  ASSUME SchemesInv, membersWritten
  PROVE  SchemesInv'
  <1> DEFINE cur == tx.state.current
             nxt == tx.state.next
  <1>1. tx.phase = "opened" /\ tx.op = "members" /\ cur # None
    BY DEF membersWritten, applyMembers
  <1>2. PICK now \in {clock, tx.now} :
          written(IF nxt = None THEN appendRevision(table, now, cur.anchor, cur.schedule, tx.members)
                  ELSE appendRevision(appendRevision(table, now, cur.anchor, cur.schedule, tx.members),
                                      nxt.at, nxt.anchor, nxt.schedule, tx.members),
                  now, cur.anchor)
    BY DEF membersWritten, applyMembers
  <1>3. Opened
    BY <1>1 DEF SchemesInv, TxSound
  <1>4. SeenAt(tx.now) /\ tx.members \in MemberSets /\ \A x \in captured : x.at < tx.now
    BY <1>1, <1>3 DEF Opened
  <1>5. /\ tx.now \in Nat /\ tx.now <= clock /\ clock \in Nat
        /\ cur \in allocation_revisions /\ (nxt # None => nxt \in allocation_revisions)
        /\ ReadAt(tx.now)
        /\ Unstarted => ReadAt(clock)
    BY <1>1, <1>4, SeenReads
  <1>6. Table(allocation_revisions, sequence) /\ sequence \in Nat /\ Captures(allocation_revisions)
    BY DEF SchemesInv, Table
  <1>7. InEffect(allocation_revisions, cur, tx.now)
    BY <1>1, <1>5 DEF ReadAt
  <1> DEFINE n == NewRow(sequence + 1, now, cur.anchor, cur.schedule, tx.members)
             m == NewRow(sequence + 2, nxt.at, nxt.anchor, nxt.schedule, tx.members)
             rows == allocation_revisions
             one == rows \cup {n}
  <1>8. /\ cur.at \in Nat \ {0} /\ cur.anchor \in Nat \ {0} /\ cur.schedule \in Schedules /\ cur.anchor <= cur.at
        /\ cur.at <= tx.now
    BY <1>5, <1>6, <1>7, TableRow DEF InEffect
  <1>9. now \in Nat \ {0} /\ cur.at <= now /\ tx.now <= now /\ now <= clock
    BY <1>2, <1>5, <1>8
  <1>10. n \in Rows /\ n.id = sequence + 1 /\ n.at = now /\ n.anchor = cur.anchor /\ n.schedule = cur.schedule
    BY <1>4, <1>6, <1>8, <1>9, NewRowType
  <1>11. ASSUME nxt # None
         PROVE  /\ m \in Rows /\ m.id = sequence + 2 /\ m.at = nxt.at /\ m.anchor = nxt.anchor
                /\ m.schedule = nxt.schedule /\ m.anchor <= m.at /\ m.at > tx.now
                /\ nxt.at \in Nat
    <2>1. nxt.at \in Nat \ {0} /\ nxt.anchor \in Nat \ {0} /\ nxt.schedule \in Schedules /\ nxt.anchor <= nxt.at
      BY <1>5, <1>6, <1>11, TableRow
    <2>2. nxt.at > tx.now
      BY <1>5, <1>11 DEF ReadAt, Scheduled
    <2>3. sequence + 2 \in Nat \ {0}
      BY <1>6
    <2> QED
      BY <1>4, <2>1, <2>2, <2>3, NewRowType
  <1>12. appendRevision(table, now, cur.anchor, cur.schedule, tx.members) = [rows |-> one, seq |-> sequence + 1]
    BY DEF appendRevision, table, nextId, NewRow
  <1>13. appendRevision([rows |-> one, seq |-> sequence + 1], nxt.at, nxt.anchor, nxt.schedule, tx.members)
           = [rows |-> one \cup {m}, seq |-> sequence + 2]
    BY <1>6 DEF appendRevision, NewRow
  <1> HIDE DEF n, m
  <1>14. Table(one, sequence + 1)
    <2>1. n.anchor <= n.at
      BY <1>8, <1>9, <1>10
    <2> QED
      BY <1>6, <1>10, <2>1, AddedTable
  <1>15. Captures(one)
    <2>1. \A x \in captured : x.at < n.at
      BY <1>4, <1>5, <1>6, <1>9, <1>10 DEF Captures
    <2> QED
      BY <1>6, <1>9, <1>10, <2>1, CapturesAdded
  <1>16. ASSUME Unstarted PROVE Line(one, clock) /\ InEffect(one, n, clock)
    <2>1. Line(rows, clock) /\ InEffect(rows, cur, clock)
      BY <1>1, <1>5, <1>16 DEF SchemesInv, ReadAt
    <2> QED
      BY <1>5, <1>6, <1>9, <1>10, <2>1, LineNow
  <1>17. \A x \in one : x \in rows \/ x.id > sequence
    BY <1>6, <1>10
  <1>18. CASE nxt = None
    <2> DEFINE s == [rows |-> one, seq |-> sequence + 1]
    <2>1. written(s, now, cur.anchor)
      BY <1>2, <1>12, <1>18
    <2>2. s.rows = one /\ s.seq = sequence + 1
      OBVIOUS
    <2> HIDE DEF s, one
    <2>3. \A r \in allocation_revisions : r \in s.rows
      BY <2>2 DEF one
    <2>4. Unstarted => Line(s.rows, clock)
      BY <1>16, <2>2
    <2>5. sequence <= s.seq
      BY <1>6, <2>2
    <2> QED
      BY <1>1, <1>3, <1>14, <1>15, <1>17, <2>1, <2>2, <2>3, <2>4, <2>5, WriteStep DEF Unstarted
  <1>19. CASE nxt # None
    <2> DEFINE s == [rows |-> one \cup {m}, seq |-> sequence + 2]
    <2>1. written(s, now, cur.anchor)
      BY <1>2, <1>12, <1>13, <1>19
    <2>2. s.rows = one \cup {m} /\ s.seq = sequence + 2
      OBVIOUS
    <2>3. m.id = (sequence + 1) + 1 /\ (sequence + 1) + 1 = sequence + 2
      BY <1>6, <1>11, <1>19
    <2> HIDE DEF s
    <2>4. Table(s.rows, s.seq)
      <3> HIDE DEF one
      <3>1. Table(one \cup {m}, (sequence + 1) + 1)
        BY <1>11, <1>14, <1>19, <2>3, AddedTable
      <3> QED
        BY <2>2, <2>3, <3>1
    <2>5. Captures(s.rows)
      <3>1. \A x \in captured : x.at < m.at
        BY <1>4, <1>5, <1>6, <1>11, <1>19 DEF Captures
      <3> HIDE DEF one
      <3> QED
        BY <1>11, <1>15, <1>19, <2>2, <3>1, CapturesAdded
    <2>6. ASSUME Unstarted PROVE Line(s.rows, clock)
      <3>1. nxt.at > clock /\ Scheduled(rows, nxt, clock) /\ InEffect(rows, cur, clock)
        BY <1>1, <1>5, <1>19, <2>6 DEF Unstarted, ReadAt
      <3>2. Line(one, clock) /\ InEffect(one, n, clock)
        BY <1>16, <2>6
      <3>3. \A x \in one : x.at > clock => x.at = m.at
        <4>1. \A x \in rows : x.at > clock => x.at = nxt.at
          BY <1>5, <1>19, <3>1 DEF SchemesInv, Line, OneAhead
        <4> QED
          BY <1>5, <1>9, <1>10, <1>11, <1>19, <4>1
      <3>4. Last(rows, cur) /\ Last(rows, nxt)
        BY <1>5, <1>6, <3>1, InEffectLast, ScheduledLast
      <3>5. EndsWindow(nxt.at, cur) /\ (nxt.anchor = nxt.at \/ nxt.anchor = cur.anchor)
        BY <1>5, <1>19, <3>1, <3>4 DEF SchemesInv, Line, AheadWhole
      <3>6. nxt.anchor = cur.anchor => sameSchedule(cur.schedule, nxt.schedule)
        BY <1>5, <1>19, <3>4 DEF SchemesInv, Line, SharedAnchors
      <3>7. n \in one
        OBVIOUS
      <3> HIDE DEF one
      <3>8. \/ m.anchor = m.at
            \/ \E c \in one : InEffect(one, c, clock) /\ m.anchor = c.anchor /\ sameSchedule(c.schedule, m.schedule)
        BY <1>10, <1>11, <1>19, <3>2, <3>5, <3>6, <3>7
      <3>9. \A c \in one : InEffect(one, c, clock) => EndsWindow(m.at, c)
        <4>1. \A c \in one : InEffect(one, c, clock) => c = n
          BY <1>5, <1>14, <3>2, InEffectOnce
        <4>2. EndsWindow(m.at, n)
          BY <1>10, <1>11, <1>19, <3>5 DEF EndsWindow
        <4> QED
          BY <4>1, <4>2
      <3>10. m.at > clock
        BY <1>11, <1>19, <3>1
      <3> QED
        BY <1>5, <1>11, <1>14, <1>19, <2>2, <2>3, <3>2, <3>3, <3>8, <3>9, <3>10, LineAhead
    <2>7. \A r \in allocation_revisions : r \in s.rows
      BY <2>2
    <2>8. \A x \in s.rows : x \in allocation_revisions \/ x.id > sequence
      BY <1>6, <1>17, <2>2, <2>3
    <2>9. sequence <= s.seq
      BY <1>6, <2>2
    <2> QED
      BY <1>1, <1>3, <2>1, <2>4, <2>5, <2>6, <2>7, <2>8, <2>9, WriteStep DEF Unstarted
  <1> QED
    BY <1>18, <1>19

\* A row ahead of the line, in place of the one that is scheduled if there is one.
LEMMA SchemeWrittenStep ==
  ASSUME SchemesInv, schemeWritten
  PROVE  SchemesInv'
  <1> DEFINE cur == tx.state.current
             nxt == tx.state.next
             rows == allocation_revisions
  <1>1. tx.phase = "opened" /\ tx.op \in {"schedule", "replace"}
    BY DEF schemeWritten
  <1>2. Opened
    BY <1>1 DEF SchemesInv, TxSound
  <1>3. SeenAt(tx.now) /\ tx.schedule \in Schedules /\ tx.members \in MemberSets /\ rows # {}
    BY <1>1, <1>2 DEF Opened
  <1>4. Table(rows, sequence) /\ sequence \in Nat /\ clock \in Nat /\ zone \in Zones /\ Captures(rows) /\ Line(rows, clock)
    BY DEF SchemesInv, Table
  <1> DEFINE at == checkTime(tx.view.at, tx.state, "schedule", clock)
             anchor == replacementAnchor(tx.state, at, tx.op)
             n == NewRow(sequence + 1, at, anchor, tx.schedule, tx.members)
             s == [rows |-> rows \cup {n}, seq |-> sequence + 1]
  <1>5. at # 0 /\ written(s, at, anchor)
    BY DEF schemeWritten, appendRevision, table, nextId, NewRow
  <1>6. /\ at = tx.view.at /\ at = ownTime(tx.state, clock) /\ at > clock
        /\ nxt = None \/ nxt.at > clock
    BY <1>4, <1>5, AgreedTime DEF targetTime
  <1>7. Unstarted
    BY <1>6 DEF Unstarted
  <1>8. /\ cur # None => cur \in rows
        /\ nxt # None => nxt \in rows
        /\ ReadAt(clock) /\ tx.state = readSchemeCore(rows, clock)
    BY <1>3, <1>7, SeenReads
  <1>9. edited(tx.state) \in rows
    BY <1>3, <1>4, <1>8, EditedRow
  <1>10. /\ at \in Nat /\ (nxt # None => at = nxt.at)
         /\ (nxt = None /\ cur # None => EndsWindow(at, cur))
    <2>1. LET z == readSchemeCore(rows, clock) IN
          /\ ownTime(z, clock) \in Nat
          /\ z.next # None => ownTime(z, clock) = z.next.at
          /\ z.next = None /\ z.current # None => EndsWindow(ownTime(z, clock), z.current)
      BY <1>4, Proposals
    <2> HIDE DEF at
    <2> QED
      BY <1>6, <1>8, <2>1
  <1> HIDE DEF at
  <1>11. anchor = IF tx.op = "replace" THEN at ELSE edited(tx.state).anchor
    BY DEF replacementAnchor
  <1>12. cur # None => InEffect(rows, cur, clock) /\ Last(rows, cur)
    BY <1>4, <1>8, InEffectLast DEF ReadAt
  <1>13. nxt # None => Scheduled(rows, nxt, clock) /\ Last(rows, nxt)
    BY <1>4, <1>8, ScheduledLast DEF ReadAt
  <1>14. edited(tx.state) = IF nxt # None THEN nxt ELSE cur
    BY DEF edited
  <1>15. cur = None => \A r \in rows : r.at > clock
    BY <1>8 DEF ReadAt
  <1>16. nxt = None => cur # None
    <2> SUFFICES ASSUME nxt = None, cur = None PROVE FALSE
      OBVIOUS
    <2>1. \A r \in rows : r.at > clock /\ r.at <= clock /\ r.at \in Nat
      BY <1>4, <1>8, TableRow DEF ReadAt
    <2> QED
      BY <1>3, <1>4, <2>1
  <1>17. edited(tx.state).anchor \in Nat \ {0} /\ edited(tx.state).anchor <= at
    <2>1. /\ edited(tx.state).anchor \in Nat \ {0} /\ edited(tx.state).at \in Nat
          /\ edited(tx.state).anchor <= edited(tx.state).at
      BY <1>4, <1>9, TableRow
    <2>2. edited(tx.state).at <= at
      <3>1. CASE nxt # None
        BY <1>10, <1>14, <3>1
      <3>2. CASE nxt = None
        <4>1. cur.at <= clock
          BY <1>12, <1>16, <3>2 DEF InEffect
        <4> QED
          BY <1>4, <1>6, <1>10, <1>14, <2>1, <3>2, <4>1
      <3> QED
        BY <3>1, <3>2
    <2> QED
      BY <1>10, <2>1, <2>2
  <1>18. anchor \in Nat \ {0} /\ anchor <= at /\ at \in Nat \ {0}
    BY <1>5, <1>10, <1>11, <1>17
  <1> HIDE DEF anchor
  <1>19. n \in Rows /\ n.id = sequence + 1 /\ n.at = at /\ n.anchor = anchor /\ n.schedule = tx.schedule
    BY <1>3, <1>4, <1>18, NewRowType
  <1> HIDE DEF n
  <1>20. Table(rows \cup {n}, sequence + 1)
    BY <1>4, <1>18, <1>19, AddedTable
  <1>21. Captures(rows \cup {n})
    <2>1. \A x \in captured : x.at < n.at
      BY <1>4, <1>6, <1>10, <1>19 DEF Captures
    <2> QED
      BY <1>4, <1>10, <1>19, <2>1, CapturesAdded
  <1>22. \A x \in rows : x.at > clock => x.at = n.at
    <2>1. CASE nxt = None
      BY <1>4, <1>8, <2>1, TableRow DEF ReadAt
    <2>2. CASE nxt # None
      <3>1. nxt.at > clock
        BY <1>6, <2>2
      <3> QED
        BY <1>4, <1>8, <1>10, <1>19, <2>2, <3>1 DEF Line, OneAhead
    <2> QED
      BY <2>1, <2>2
  <1>23. \A c \in rows : InEffect(rows, c, clock) => c = cur /\ cur # None
    <2> SUFFICES ASSUME NEW c \in rows, InEffect(rows, c, clock) PROVE c = cur /\ cur # None
      OBVIOUS
    <2>1. c.at <= clock /\ c.at \in Nat
      BY <1>4, TableRow DEF InEffect
    <2>2. cur # None
      BY <1>4, <1>15, <2>1
    <2> QED
      BY <1>4, <1>12, <2>2, InEffectOnce
  <1>24. cur # None => EndsWindow(at, cur)
    <2>1. CASE nxt = None
      BY <1>10, <2>1
    <2>2. CASE nxt # None /\ cur # None
      BY <1>4, <1>6, <1>8, <1>10, <1>12, <2>2 DEF Line, AheadWhole
    <2> QED
      BY <2>1, <2>2
  <1>25. \/ n.anchor = n.at
         \/ \E c \in rows : InEffect(rows, c, clock) /\ n.anchor = c.anchor /\ sameSchedule(c.schedule, n.schedule)
    <2>1. CASE tx.op = "replace"
      BY <1>11, <1>19, <2>1
    <2>2. CASE tx.op = "schedule"
      <3>1. sameSchedule(edited(tx.state).schedule, tx.schedule) /\ n.anchor = edited(tx.state).anchor
        BY <1>2, <1>11, <1>19, <2>2 DEF Opened
      <3>2. CASE nxt = None
        BY <1>8, <1>12, <1>14, <1>16, <1>19, <3>1, <3>2
      <3>3. CASE nxt # None /\ cur = None
        <4>1. nxt.anchor = nxt.at
          BY <1>4, <1>8, <1>13, <1>15, <3>3 DEF Line, FirstAhead
        <4> QED
          BY <1>10, <1>14, <1>19, <3>1, <3>3, <4>1
      <3>4. CASE nxt # None /\ cur # None
        <4>1. nxt.anchor = nxt.at \/ nxt.anchor = cur.anchor
          BY <1>4, <1>6, <1>8, <1>12, <1>13, <3>4 DEF Line, AheadWhole
        <4>2. nxt.anchor = cur.anchor => sameSchedule(cur.schedule, nxt.schedule)
          BY <1>4, <1>8, <1>12, <1>13, <3>4 DEF Line, SharedAnchors
        <4>3. nxt.anchor = cur.anchor => sameSchedule(cur.schedule, n.schedule)
          BY <1>14, <1>19, <3>1, <3>4, <4>2, SameThrough
        <4> QED
          BY <1>8, <1>10, <1>12, <1>14, <1>19, <3>1, <3>4, <4>1, <4>3
      <3> QED
        BY <3>2, <3>3, <3>4
    <2> QED
      BY <1>1, <2>1, <2>2
  <1>26. Line(rows \cup {n}, clock)
    <2>1. n.at > clock /\ n.anchor <= n.at
      BY <1>6, <1>18, <1>19
    <2>2. \A c \in rows : InEffect(rows, c, clock) => EndsWindow(n.at, c)
      BY <1>19, <1>23, <1>24
    <2> QED
      BY <1>4, <1>19, <1>22, <1>25, <2>1, <2>2, LineAhead
  <1>27. anchor = tx.view.anchor
    <2>1. ViewSound(tx.view) /\ tx.view.action = tx.op /\ tx.view.current = cur /\ tx.view.next = nxt
      BY <1>1, <1>2, <1>3 DEF Opened, SeenAt
    <2>2. tx.view.anchor = previewAnchor(tx.view, tx.op, at)
      BY <1>1, <1>6, <2>1 DEF ViewSound
    <2> QED
      BY <1>1, <1>11, <2>1, <2>2 DEF previewAnchor, edited
  <1>28. s.rows = rows \cup {n} /\ s.seq = sequence + 1
    OBVIOUS
  <1> HIDE DEF s
  <1>29. \A r \in allocation_revisions : r \in s.rows
    BY <1>28
  <1>30. \A x \in s.rows : x \in allocation_revisions \/ x.id > sequence
    BY <1>4, <1>19, <1>28
  <1>31. sequence <= s.seq
    BY <1>4, <1>28
  <1> QED
    BY <1>1, <1>2, <1>5, <1>6, <1>20, <1>21, <1>26, <1>27, <1>28, <1>29, <1>30, <1>31, WriteStep

LEMMA RowsReplaced ==
  ASSUME NEW rows, NEW seq, NEW P
  PROVE  [[rows |-> rows, seq |-> seq] EXCEPT !.rows = P] = [rows |-> P, seq |-> seq]
  OBVIOUS

LEMMA PendingDeleted ==
  ASSUME NEW rows, NEW seq, NEW at, NEW now
  PROVE  DeleteAllocationPendingAt([rows |-> rows, seq |-> seq], at, now)
           = [rows |-> {r \in rows : ~(r.at = at /\ r.at > now /\ \A e \in captured : e.revision # r.id)},
              seq |-> seq]
  <1> DEFINE s == [rows |-> rows, seq |-> seq]
             P == {r \in s.rows : ~(r.at = at /\ r.at > now /\ \A e \in captured : e.revision # r.id)}
  <1>1. DeleteAllocationPendingAt(s, at, now) = [s EXCEPT !.rows = P]
    BY Zenon DEF DeleteAllocationPendingAt
  <1>2. s.rows = rows
    OBVIOUS
  <1> HIDE DEF P
  <1>3. [s EXCEPT !.rows = P] = [rows |-> P, seq |-> seq]
    BY RowsReplaced
  <1> HIDE DEF s
  <1>4. P = {r \in rows : ~(r.at = at /\ r.at > now /\ \A e \in captured : e.revision # r.id)}
    BY <1>2 DEF P
  <1> QED
    BY <1>1, <1>3, <1>4 DEF s

\* The rows that are left when the scheduled ones are deleted.
Kept == {r \in allocation_revisions :
           ~(r.at = tx.state.next.at /\ r.at > tx.now /\ \A e \in captured : e.revision # r.id)}

LEMMA KeptFacts ==
  ASSUME SchemesInv, Opened, tx.state.next # None
  PROVE  /\ Table(Kept, sequence) /\ Captures(Kept)
         /\ \A r \in allocation_revisions :
              r \in Kept \/ (/\ r.at = tx.state.next.at
                             /\ (\A x \in captured : x.revision # r.id) /\ (\A x \in Kept : x.id # r.id))
         /\ Unstarted => Kept = Started(allocation_revisions, clock)
  <1>1. Table(allocation_revisions, sequence) /\ Captures(allocation_revisions) /\ clock \in Nat
    BY DEF SchemesInv
  <1>2. SeenAt(tx.now) /\ \A x \in captured : x.at < tx.now
    BY DEF Opened
  <1>3. /\ tx.now \in Nat /\ tx.now <= clock
        /\ tx.state.next \in allocation_revisions /\ ReadAt(tx.now) /\ (Unstarted => ReadAt(clock))
    BY <1>2, SeenReads
  <1>4. Kept \subseteq allocation_revisions
    BY DEF Kept
  <1>5. Table(Kept, sequence)
    BY <1>1, <1>4 DEF Table
  <1>6. Captures(Kept)
    <2> SUFFICES ASSUME NEW x \in captured
                 PROVE  /\ x.at \in Nat /\ x.at < clock
                        /\ \E own \in Kept : /\ own.id = x.revision /\ own.at <= x.at
                                             /\ \A r \in Kept : r.at <= x.at => later(own, r)
      BY DEF Captures
    <2>1. PICK own \in allocation_revisions : /\ own.id = x.revision /\ own.at <= x.at
                                              /\ \A r \in allocation_revisions : r.at <= x.at => later(own, r)
      BY <1>1 DEF Captures
    <2>2. own \in Kept
      BY <2>1 DEF Kept
    <2> QED
      BY <1>1, <1>4, <2>1, <2>2 DEF Captures
  <1>7. \A r \in allocation_revisions :
          r \in Kept \/ (/\ r.at = tx.state.next.at
                         /\ (\A x \in captured : x.revision # r.id) /\ (\A x \in Kept : x.id # r.id))
    <2> SUFFICES ASSUME NEW r \in allocation_revisions, r \notin Kept
                 PROVE  /\ r.at = tx.state.next.at
                        /\ (\A x \in captured : x.revision # r.id) /\ (\A x \in Kept : x.id # r.id)
      OBVIOUS
    <2>1. r.at = tx.state.next.at /\ \A x \in captured : x.revision # r.id
      BY DEF Kept
    <2>2. \A x \in Kept : x.id # r.id
      BY <1>1, <1>4 DEF Table
    <2> QED
      BY <2>1, <2>2
  <1>8. ASSUME Unstarted PROVE Kept = Started(allocation_revisions, clock)
    <2>1. tx.state.next.at > clock /\ tx.state.next.at \in Nat
      BY <1>1, <1>3, <1>8, TableRow DEF Unstarted
    <2>2. ASSUME NEW r \in allocation_revisions PROVE r \in Kept <=> r.at <= clock
      <3>1. r.at \in Nat /\ r.id \in Nat
        BY <1>1, <2>2, TableRow
      <3>2. CASE r.at <= clock
        <4>1. r.at # tx.state.next.at
          BY <1>1, <2>1, <3>1, <3>2
        <4>2. r \in Kept
          BY <2>2, <4>1 DEF Kept
        <4> QED
          BY <3>2, <4>2
      <3>3. CASE r.at > clock
        <4>1. r.at = tx.state.next.at
          BY <1>3, <2>1, <2>2, <3>3 DEF SchemesInv, Line, OneAhead
        <4>2. r.at > tx.now
          BY <1>1, <1>3, <3>1, <3>3
        <4>3. \A e \in captured : e.revision # r.id
          <5> SUFFICES ASSUME NEW e \in captured, e.revision = r.id PROVE FALSE
            OBVIOUS
          <5>1. PICK own \in allocation_revisions : own.id = e.revision /\ own.at <= e.at
            BY <1>1 DEF Captures
          <5>2. own = r
            BY <1>1, <2>2, <5>1 DEF Table
          <5>3. e.at \in Nat /\ e.at < clock
            BY <1>1 DEF Captures
          <5> QED
            BY <1>1, <3>1, <3>3, <5>1, <5>2, <5>3
        <4>4. r \notin Kept
          BY <4>1, <4>2, <4>3 DEF Kept
        <4> QED
          BY <1>1, <3>1, <3>3, <4>4
      <3> QED
        BY <1>1, <3>1, <3>2, <3>3
    <2> QED
      BY <1>4, <2>2 DEF Started
  <1> QED
    BY <1>5, <1>6, <1>7, <1>8

LEMMA CancelWrittenStep ==
  ASSUME SchemesInv, scheduleWritten, tx.op = "cancel"
  PROVE  SchemesInv'
  <1> DEFINE s == [rows |-> Kept, seq |-> sequence]
  <1>1. tx.phase = "opened"
    BY DEF scheduleWritten
  <1>2. Opened
    BY <1>1 DEF SchemesInv, TxSound
  <1>3. tx.state.next # None
    BY <1>2 DEF Opened
  <1>4. DeleteAllocationPendingAt(table, tx.state.next.at, tx.now) = s
    <2>1. table = [rows |-> allocation_revisions, seq |-> sequence]
      BY DEF table, nextId
    <2>2. DeleteAllocationPendingAt([rows |-> allocation_revisions, seq |-> sequence], tx.state.next.at, tx.now) = s
      BY PendingDeleted DEF Kept
    <2> QED
      BY <2>1, <2>2
  <1>5. written(s, 0, 0)
    BY <1>4 DEF scheduleWritten
  <1>6. s.rows = Kept /\ s.seq = sequence
    OBVIOUS
  <1> HIDE DEF s
  <1>7. sequence \in Nat /\ Table(allocation_revisions, sequence) /\ clock \in Nat /\ Line(allocation_revisions, clock)
    BY DEF SchemesInv, Table
  <1>8. Table(s.rows, s.seq) /\ Captures(s.rows) /\ sequence <= s.seq
    BY <1>2, <1>3, <1>6, <1>7, KeptFacts
  <1>9. \A x \in s.rows : x \in allocation_revisions \/ x.id > sequence
    BY <1>6 DEF Kept
  <1>10. \A r \in allocation_revisions :
           \/ r \in s.rows
           \/ /\ tx.state.next # None /\ r.at = tx.state.next.at
              /\ (\A x \in captured : x.revision # r.id) /\ (\A x \in s.rows : x.id # r.id)
    BY <1>2, <1>3, <1>6, KeptFacts
  <1>11. Unstarted => Line(s.rows, clock)
    BY <1>2, <1>3, <1>6, <1>7, KeptFacts, LineStarted
  <1>12. tx.op \notin {"schedule", "replace", "reschedule"}
    OBVIOUS
  <1> QED
    BY <1>1, <1>2, <1>5, <1>8, <1>9, <1>10, <1>11, <1>12, WriteStep DEF Unstarted

LEMMA RescheduleWrittenStep ==
  ASSUME SchemesInv, scheduleWritten, tx.op = "reschedule"
  PROVE  SchemesInv'
  <1> DEFINE cur == tx.state.current
             nxt == tx.state.next
             rows == allocation_revisions
             at == checkTime(tx.view.at, tx.state, "reschedule", clock)
             anchor == rescheduledAnchor(tx.state, at)
             n == NewRow(sequence + 1, at, anchor, nxt.schedule, nxt.members)
             s == [rows |-> Kept \cup {n}, seq |-> sequence + 1]
             moved == [rows |-> rows \cup {n}, seq |-> sequence + 1]
  <1>1. tx.phase = "opened" /\ at # 0
    BY DEF scheduleWritten
  <1>2. Opened
    BY <1>1 DEF SchemesInv, TxSound
  <1>3. nxt # None /\ SeenAt(tx.now) /\ \A x \in captured : x.at < tx.now
    BY <1>2 DEF Opened
  <1>4. Table(rows, sequence) /\ sequence \in Nat /\ clock \in Nat /\ zone \in Zones /\ Captures(rows) /\ Line(rows, clock)
    BY DEF SchemesInv, Table
  <1>5. written(DeleteAllocationPendingAt(moved, nxt.at, tx.now), at, anchor)
    <2>1. appendRevision(table, at, anchor, nxt.schedule, nxt.members) = moved
      BY DEF appendRevision, table, nextId, NewRow
    <2> HIDE DEF moved, at, anchor
    <2> QED
      BY <2>1 DEF scheduleWritten, at, anchor
  <1>6. /\ at = tx.view.at /\ at = movedTime(tx.state, clock) /\ at > clock
        /\ nxt.at > clock
    BY <1>1, <1>3, <1>4, AgreedTime DEF targetTime
  <1>7. Unstarted
    BY <1>6 DEF Unstarted
  <1>8. /\ cur # None => cur \in rows
        /\ nxt \in rows
        /\ ReadAt(clock) /\ tx.state = readSchemeCore(rows, clock)
    BY <1>3, <1>7, SeenReads
  <1>9. at \in Nat /\ at > nxt.at /\ (cur # None => EndsWindow(at, cur))
    <2>1. LET z == readSchemeCore(rows, clock) IN
          /\ movedTime(z, clock) \in Nat
          /\ movedTime(z, clock) # 0 => /\ movedTime(z, clock) > z.next.at
                                        /\ z.current # None => EndsWindow(movedTime(z, clock), z.current)
      BY <1>4, Proposals
    <2>2. movedTime(tx.state, clock) # 0
      BY <1>1, <1>6
    <2> HIDE DEF at
    <2> QED
      BY <1>6, <1>8, <2>1, <2>2
  <1>10. /\ nxt.at \in Nat /\ nxt.anchor \in Nat \ {0} /\ nxt.anchor <= nxt.at
         /\ nxt.schedule \in Schedules /\ nxt.members \in MemberSets
    BY <1>4, <1>8, TableRow
  <1> HIDE DEF at
  <1>11. anchor = IF cur = None \/ nxt.anchor # cur.anchor THEN at ELSE nxt.anchor
    BY DEF rescheduledAnchor
  <1>12. anchor \in Nat \ {0} /\ anchor <= at /\ at \in Nat \ {0}
    BY <1>1, <1>9, <1>10, <1>11
  <1>13. anchor = tx.view.anchor
    <2>1. ViewSound(tx.view) /\ tx.view.action = "reschedule" /\ tx.view.current = cur /\ tx.view.next = nxt
      BY <1>2, <1>3 DEF Opened, SeenAt
    <2>2. tx.view.anchor = previewAnchor(tx.view, "reschedule", at)
      BY <1>6, <2>1 DEF ViewSound
    <2> QED
      BY <1>11, <2>1, <2>2 DEF previewAnchor, movedAnchor
  <1> HIDE DEF anchor
  <1>14. n \in Rows /\ n.id = sequence + 1 /\ n.at = at /\ n.anchor = anchor /\ n.schedule = nxt.schedule
    BY <1>4, <1>10, <1>12, NewRowType
  <1>15. DeleteAllocationPendingAt(moved, nxt.at, tx.now) = s
    <2>1. n.at # nxt.at
      BY <1>9, <1>10, <1>14
    <2> HIDE DEF n
    <2>2. {r \in rows \cup {n} : ~(r.at = nxt.at /\ r.at > tx.now /\ \A e \in captured : e.revision # r.id)}
            = Kept \cup {n}
      BY <2>1 DEF Kept
    <2> QED
      BY <2>2, PendingDeleted
  <1> HIDE DEF n, moved
  <1>16. written(s, at, anchor)
    BY <1>5, <1>15
  <1>17. s.rows = Kept \cup {n} /\ s.seq = sequence + 1
    OBVIOUS
  <1> HIDE DEF s
  <1>18. /\ Table(Kept, sequence) /\ Captures(Kept) /\ Kept = Started(rows, clock)
         /\ \A r \in rows :
              r \in Kept \/ (/\ r.at = nxt.at
                             /\ (\A x \in captured : x.revision # r.id) /\ (\A x \in Kept : x.id # r.id))
    BY <1>2, <1>3, <1>7, KeptFacts
  <1>19. Table(Kept \cup {n}, sequence + 1)
    BY <1>12, <1>14, <1>18, AddedTable
  <1>20. Captures(Kept \cup {n})
    <2>1. \A x \in captured : x.at < n.at
      BY <1>4, <1>6, <1>9, <1>14 DEF Captures
    <2> QED
      BY <1>9, <1>14, <1>18, <2>1, CapturesAdded
  <1>21. Line(Kept, clock)
    BY <1>4, <1>18, LineStarted
  <1>22. \A x \in Kept : x.at <= clock /\ x \in rows
    BY <1>18 DEF Started
  <1>23. ASSUME NEW c \in Kept, InEffect(Kept, c, clock) PROVE c = cur /\ cur # None
    <2>1. InEffect(rows, c, clock)
      BY <1>18, <1>22, <1>23 DEF InEffect, Started
    <2>2. c.at <= clock /\ c.at \in Nat /\ c \in rows
      BY <1>4, <1>22, TableRow DEF InEffect
    <2>3. cur # None
      BY <1>4, <1>8, <2>2 DEF ReadAt
    <2>4. InEffect(rows, cur, clock)
      BY <1>8, <2>3 DEF ReadAt
    <2> QED
      BY <1>4, <2>1, <2>3, <2>4, InEffectOnce
  <1>24. \/ n.anchor = n.at
         \/ \E c \in Kept : InEffect(Kept, c, clock) /\ n.anchor = c.anchor /\ sameSchedule(c.schedule, n.schedule)
    <2>1. CASE cur = None \/ nxt.anchor # cur.anchor
      BY <1>11, <1>14, <2>1
    <2>2. CASE cur # None /\ nxt.anchor = cur.anchor
      <3>1. InEffect(rows, cur, clock) /\ Scheduled(rows, nxt, clock)
        BY <1>3, <1>8, <2>2 DEF ReadAt
      <3>2. Last(rows, cur) /\ Last(rows, nxt)
        BY <1>4, <3>1, InEffectLast, ScheduledLast
      <3>3. sameSchedule(cur.schedule, nxt.schedule)
        BY <1>4, <1>8, <2>2, <3>2 DEF Line, SharedAnchors
      <3>4. cur \in Kept /\ InEffect(Kept, cur, clock)
        BY <1>18, <3>1 DEF InEffect, Started
      <3> QED
        BY <1>11, <1>14, <2>2, <3>3, <3>4
    <2> QED
      BY <2>1, <2>2
  <1>25. Line(Kept \cup {n}, clock)
    <2>1. n.at > clock /\ n.anchor <= n.at
      BY <1>6, <1>12, <1>14
    <2>2. \A c \in Kept : InEffect(Kept, c, clock) => EndsWindow(n.at, c)
      BY <1>9, <1>14, <1>23
    <2>3. \A x \in Kept : x.at > clock => x.at = n.at
      BY <1>4, <1>18, <1>22, TableRow
    <2> QED
      BY <1>4, <1>14, <1>18, <1>21, <1>24, <2>1, <2>2, <2>3, LineAhead
  <1>26. \A r \in allocation_revisions :
           \/ r \in s.rows
           \/ /\ tx.state.next # None /\ r.at = tx.state.next.at
              /\ (\A x \in captured : x.revision # r.id) /\ (\A x \in s.rows : x.id # r.id)
    <2>1. \A r \in rows : r.id # n.id
      BY <1>4, <1>14, TableRow
    <2> QED
      BY <1>3, <1>17, <1>18, <2>1
  <1>27. \A x \in s.rows : x \in allocation_revisions \/ x.id > sequence
    BY <1>4, <1>14, <1>17, <1>22
  <1>28. sequence <= s.seq
    BY <1>4, <1>17
  <1> QED
    BY <1>1, <1>2, <1>6, <1>13, <1>16, <1>17, <1>19, <1>20, <1>25, <1>26, <1>27, <1>28, WriteStep

LEMMA ScheduleWrittenStep ==
  ASSUME SchemesInv, scheduleWritten
  PROVE  SchemesInv'
  BY CancelWrittenStep, RescheduleWrittenStep DEF scheduleWritten

-----------------------------------------------------------------------------
(* Finishing and committing *)

LEMMA PhaseFinishes ==
  ASSUME {"phase", "now", "view"} \subseteq DOMAIN tx, tx' = [tx EXCEPT !.phase = "checked", !.now = clock]
  PROVE  /\ tx'.phase = "checked" /\ tx'.now = clock /\ "view" \in DOMAIN tx'
         /\ tx'.op = tx.op /\ tx'.view = tx.view /\ tx'.rows = tx.rows /\ tx'.seq = tx.seq
         /\ tx'.at = tx.at /\ tx'.anchor = tx.anchor
  OBVIOUS

LEMMA FinishChangeStep ==
  ASSUME SchemesInv, finishChange
  PROVE  SchemesInv'
  <1>1. /\ tx.phase = "written" /\ (tx.state.next # None => tx.state.next.at > clock)
        /\ tx' = [tx EXCEPT !.phase = "checked", !.now = clock]
        /\ UNCHANGED <<clock, zone, allocation_revisions, sequence, captured, views, dialogs>>
    BY DEF finishChange
  <1>2. Written
    BY <1>1 DEF SchemesInv, TxSound
  <1>3. PICK t \in 1..clock : SeenAt(t)
    BY <1>2 DEF Written
  <1>4. /\ tx.state = readSchemeCore(allocation_revisions, clock)
        /\ tx.view.current = tx.state.current /\ tx.view.next = tx.state.next
    BY <1>1, <1>3, SeenReads DEF Unstarted, SeenAt
  <1>5. /\ tx'.phase = "checked" /\ tx'.now = clock /\ "view" \in DOMAIN tx'
        /\ tx'.op = tx.op /\ tx'.view = tx.view /\ tx'.rows = tx.rows /\ tx'.seq = tx.seq
        /\ tx'.at = tx.at /\ tx'.anchor = tx.anchor
    BY <1>1, <1>2, PhaseFinishes DEF Written
  <1>6. Prepared'
    BY <1>1, <1>2, <1>5, PreparedFrame DEF Written
  <1>7. AsShown' /\ Line(tx'.rows, clock')
    BY <1>1, <1>2, <1>5 DEF Written, AsShown
  <1>8. \A r \in allocation_revisions' : r \in tx'.rows \/ (r.at > tx'.now /\ Gone(r)')
    BY <1>1, <1>2, <1>5 DEF Written, Gone
  <1>9. /\ tx'.view.current = readSchemeCore(allocation_revisions', tx'.now).current
        /\ tx'.view.next = readSchemeCore(allocation_revisions', tx'.now).next
    BY <1>1, <1>4, <1>5
  <1>10. Finished'
    BY <1>5, <1>6, <1>7, <1>8, <1>9 DEF Finished
  <1>11. TxSound'
    BY <1>5, <1>10 DEF TxSound
  <1> QED
    BY <1>1, <1>11, TxStep

LEMMA CommitStep ==
  ASSUME SchemesInv, commit
  PROVE  SchemesInv'
  <1>1. /\ tx.phase = "checked" /\ allocation_revisions' = tx.rows /\ sequence' = tx.seq /\ tx' = NoTx
        /\ UNCHANGED <<clock, zone, captured, views, dialogs>>
    BY DEF commit
  <1>2. Prepared /\ Line(tx.rows, clock)
    BY <1>1 DEF SchemesInv, TxSound, Created, Finished
  <1>3. Table(allocation_revisions', sequence') /\ Line(allocation_revisions', clock')
    BY <1>1, <1>2 DEF Prepared
  <1>4. Captures(allocation_revisions)'
    BY <1>1, <1>2 DEF Prepared, Captures
  <1>5. \A x : ShownRow(x) => ShownRow(x)'
    <2> SUFFICES ASSUME NEW x, x \in Rows, x.id <= sequence, \A r \in allocation_revisions : r.id = x.id => r = x
                 PROVE  x.id <= sequence' /\ \A r \in allocation_revisions' : r.id = x.id => r = x
      BY DEF ShownRow
    <2>1. x.id \in Nat
      BY RowType
    <2>2. sequence \in Nat /\ tx.seq \in Nat /\ sequence <= tx.seq
      BY <1>2 DEF SchemesInv, Table, Prepared
    <2>3. \A r \in tx.rows : r \in allocation_revisions \/ r.id > sequence
      BY <1>2 DEF Prepared
    <2> QED
      BY <1>1, <2>1, <2>2, <2>3
  <1>6. (\A v \in views : ViewSound(v))'
    BY <1>1, <1>5 DEF SchemesInv, ViewSound
  <1>7. TxSound'
    BY <1>1 DEF TxSound, NoTx
  <1> QED
    BY <1>1, <1>3, <1>4, <1>6, <1>7 DEF SchemesInv

LEMMA RollbackStep ==
  ASSUME SchemesInv, rollback
  PROVE  SchemesInv'
  <1>1. tx' = NoTx /\ UNCHANGED <<clock, zone, allocation_revisions, sequence, captured, views, dialogs>>
    BY DEF rollback
  <1>2. TxSound'
    BY <1>1 DEF TxSound, NoTx
  <1> QED
    BY <1>1, <1>2, TxStep

\* A request that is admitted in the second that ends captures the revision in effect.
LEMMA AdmittedCaptures ==
  ASSUME SchemesInv, clock' = clock + 1, captured' = Begin, UNCHANGED allocation_revisions
  PROVE  Captures(allocation_revisions)'
  <1> DEFINE c == CurrentAllocationRevision(allocation_revisions, clock)
  <1>1. Table(allocation_revisions, sequence) /\ clock \in Nat /\ Captures(allocation_revisions)
    BY DEF SchemesInv
  <1>2. c # None => InEffect(allocation_revisions, c, clock)
    BY <1>1, CurrentIs
  <1>3. captured' = captured \/ (c # None /\ captured' = captured \cup {[at |-> clock, revision |-> c.id]})
    BY DEF Begin
  <1> HIDE DEF c
  <1>4. ASSUME NEW x \in captured'
        PROVE  /\ x.at \in Nat /\ x.at < clock + 1
               /\ \E own \in allocation_revisions : /\ own.id = x.revision /\ own.at <= x.at
                                                    /\ \A r \in allocation_revisions : r.at <= x.at => later(own, r)
    <2>1. CASE x \in captured
      BY <1>1, <2>1 DEF Captures
    <2>2. CASE x \notin captured
      <3>1. x.at = clock /\ x.revision = c.id /\ c # None
        BY <1>3, <1>4, <2>2
      <3>2. InEffect(allocation_revisions, c, clock)
        BY <1>2, <3>1
      <3> QED
        BY <1>1, <3>1, <3>2 DEF InEffect
    <2> QED
      BY <2>1, <2>2
  <1> QED
    BY <1>4 DEF Captures

\* While a change is under way nothing is admitted, and what waits to be committed stays in line.
LEMMA TxTicks ==
  ASSUME SchemesInv, clock' = clock + 1, captured' = Begin, UNCHANGED <<zone, allocation_revisions, sequence, tx>>
  PROVE  TxSound'
  <1>1. clock \in Nat /\ TxSound
    BY DEF SchemesInv
  <1>2. CASE tx = NoTx
    BY <1>2 DEF TxSound, NoTx
  <1>3. CASE tx # NoTx
    <2>1. captured' = captured
      BY <1>3 DEF Begin
    <2>2. ASSUME Prepared PROVE Prepared'
      BY <1>1, <2>1, <2>2 DEF Prepared, Captures
    <2>3. ASSUME NEW seq, Table(tx.rows, seq), Line(tx.rows, clock) PROVE Line(tx'.rows, clock')
      <3>1. Line(tx.rows, clock + 1)
        BY <1>1, <2>3, LinePasses
      <3> QED
        BY <3>1
    <2>4. ASSUME Created PROVE Created'
      BY <2>2, <2>3, <2>4 DEF Created, Prepared
    <2>5. ASSUME NEW t, SeenAt(t) PROVE t \in 1..clock' /\ SeenAt(t)'
      BY <1>1, <2>5 DEF SeenAt
    <2>6. ASSUME Opened PROVE Opened'
      BY <2>1, <2>5, <2>6 DEF Opened, ViewSound, ShownRow
    <2>7. ASSUME Written PROVE Written'
      <3>1. \E t \in 1..clock' : SeenAt(t)'
        BY <2>5, <2>7 DEF Written
      <3>2. AsShown' /\ Prepared'
        BY <2>2, <2>7 DEF Written, AsShown
      <3>3. \A r \in allocation_revisions' :
              r \in tx'.rows \/ (tx'.state.next # None /\ r.at = tx'.state.next.at /\ Gone(r)')
        BY <2>1, <2>7 DEF Written, Gone
      <3>4. ASSUME tx'.state.next # None => tx'.state.next.at > clock' PROVE Line(tx'.rows, clock')
        <4>1. ASSUME tx.state.next # None PROVE tx.state.next.at > clock
          <5>1. PICK t \in 1..clock : SeenAt(t)
            BY <2>7 DEF Written
          <5>2. tx.state.next \in allocation_revisions
            BY <4>1, <5>1, SeenReads
          <5>3. tx.state.next.at \in Nat
            BY <5>2, TableRow DEF SchemesInv
          <5> QED
            BY <1>1, <3>4, <4>1, <5>3
        <4>2. Line(tx.rows, clock) /\ Table(tx.rows, tx.seq)
          BY <2>7, <4>1 DEF Written, Prepared
        <4> QED
          BY <2>3, <4>2
      <3> QED
        BY <2>7, <3>1, <3>2, <3>3, <3>4 DEF Written
    <2>8. ASSUME Finished PROVE Finished'
      <3>1. Prepared' /\ Line(tx'.rows, clock')
        BY <2>2, <2>3, <2>8 DEF Finished, Prepared
      <3> QED
        BY <2>1, <2>8, <3>1 DEF Finished, AsShown, Gone
    <2> QED
      BY <1>1, <2>4, <2>6, <2>7, <2>8 DEF TxSound
  <1> QED
    BY <1>2, <1>3

LEMMA SchemeTickStep ==
  ASSUME SchemesInv, schemeTick
  PROVE  SchemesInv'
  <1>1. /\ clock < MaxTime /\ clock' = clock + 1 /\ captured' = Begin
        /\ UNCHANGED <<zone, allocation_revisions, sequence, views, dialogs, tx>>
    BY DEF schemeTick
  <1>2. clock \in 1..MaxTime /\ MaxTime \in Nat
    BY SchemesAssumption DEF SchemesInv
  <1>3. clock' \in 1..MaxTime
    BY <1>1, <1>2
  <1>4. Line(allocation_revisions', clock')
    <2>1. Line(allocation_revisions, clock + 1)
      BY <1>2, LinePasses DEF SchemesInv
    <2> QED
      BY <1>1, <2>1
  <1>5. Captures(allocation_revisions)'
    BY <1>1, AdmittedCaptures
  <1>6. TxSound'
    BY <1>1, TxTicks
  <1>7. (\A v \in views : ViewSound(v))'
    BY <1>1 DEF SchemesInv, ViewSound, ShownRow
  <1> QED
    BY <1>1, <1>3, <1>4, <1>5, <1>6, <1>7 DEF SchemesInv

-----------------------------------------------------------------------------
(* Theorems *)

LEMMA EditorStep ==
  ASSUME SchemesInv, editorStep
  PROVE  SchemesInv'
  <1>1. ASSUME NEW action \in {"schedule", "reschedule", "replace"}, Preview(action) PROVE SchemesInv'
    BY <1>1, PreviewStep
  <1>2. ASSUME NEW c \in Schedules, PreviewInitial(c) PROVE SchemesInv'
    BY <1>2, PreviewInitialStep
  <1>3. ASSUME NEW c \in Schedules, NEW ms \in MemberSets, NEW startNext \in BOOLEAN,
               NEW expected \in {0} \cup {v.at : v \in shownFor("create")}, SaveScheme(c, ms, startNext, expected)
        PROVE  SchemesInv'
    BY <1>3, SaveSchemeStep
  <1>4. ASSUME NEW v \in shownFor("schedule"), NEW ms \in MemberSets, UpdateMembers(v, ms) PROVE SchemesInv'
    BY <1>4, UpdateMembersStep
  <1>5. ASSUME NEW confirmed \in BOOLEAN, NEW c \in Schedules, NEW ms \in MemberSets,
               NEW v \in shownFor(IF confirmed THEN "replace" ELSE "schedule"), updateScheme(v, c, ms, confirmed)
        PROVE  SchemesInv'
    BY <1>5, UpdateSchemeStep
  <1>6. ASSUME NEW v \in shownFor("schedule"), ChangeSchedule(v, "cancel") PROVE SchemesInv'
    <2>1. v \in views
      BY <1>6 DEF shownFor
    <2> QED
      BY <1>6, <2>1, ChangeScheduleStep
  <1>7. ASSUME NEW v \in shownFor("reschedule"), ChangeSchedule(v, "reschedule") PROVE SchemesInv'
    <2>1. v \in views /\ v.action = "reschedule"
      BY <1>7 DEF shownFor
    <2> QED
      BY <1>7, <2>1, ChangeScheduleStep
  <1> QED
    BY <1>1, <1>2, <1>3, <1>4, <1>5, <1>6, <1>7 DEF editorStep

LEMMA SchemesNextStep == SchemesInv /\ [SchemesNext]_schemeVars => SchemesInv'
  <1> SUFFICES ASSUME SchemesInv, [SchemesNext]_schemeVars PROVE SchemesInv'
    OBVIOUS
  <1>1. CASE editorStep
    BY <1>1, EditorStep
  <1>2. CASE creationChecked
    BY <1>2, CreationCheckedStep
  <1>3. CASE membersWritten
    BY <1>3, MembersWrittenStep
  <1>4. CASE schemeWritten
    BY <1>4, SchemeWrittenStep
  <1>5. CASE scheduleWritten
    BY <1>5, ScheduleWrittenStep
  <1>6. CASE finishChange
    BY <1>6, FinishChangeStep
  <1>7. CASE commit
    BY <1>7, CommitStep
  <1>8. CASE rollback
    BY <1>8, RollbackStep
  <1>9. ASSUME NEW z \in Zones, SaveLocation(z) PROVE SchemesInv'
    BY <1>9, LocationStep
  <1>10. CASE schemeTick
    BY <1>10, SchemeTickStep
  <1>11. CASE UNCHANGED schemeVars
    <2>1. UNCHANGED <<clock, zone, allocation_revisions, sequence, captured, views, tx>>
      BY <1>11 DEF schemeVars
    <2>2. TxSound'
      BY <2>1, TxFrame DEF SchemesInv
    <2> QED
      BY <2>1, <2>2, TxStep
  <1> QED
    BY <1>1, <1>2, <1>3, <1>4, <1>5, <1>6, <1>7, <1>8, <1>9, <1>10, <1>11 DEF SchemesNext

\* The revisions of a scheme form one line in time, and a transaction that changes them has read what is there
\* and prepares such a line: the invariant of changes.go and schedule.go that the next two theorems rest on.
THEOREM SchemesInvariance == SchemesSpec => []SchemesInv
  <1> QED
    BY SchemesInitial, SchemesNextStep, PTL DEF SchemesSpec

LEMMA SchemesTyped == SchemesInv => SchemesTypeOK /\ CommittedAsSeen /\ PreviewKept
  <1> SUFFICES ASSUME SchemesInv PROVE SchemesTypeOK /\ CommittedAsSeen /\ PreviewKept
    OBVIOUS
  <1>1. Table(allocation_revisions, sequence) /\ sequence \in Nat
    BY DEF SchemesInv, Table
  <1>2. \A r \in allocation_revisions :
          /\ r.id \in 1..sequence /\ r.at > 0 /\ r.anchor > 0 /\ r.schedule \in Schedules
          /\ r.members \in MemberSets
    <2> SUFFICES ASSUME NEW r \in allocation_revisions
                 PROVE  /\ r.id \in 1..sequence /\ r.at > 0 /\ r.anchor > 0 /\ r.schedule \in Schedules
                        /\ r.members \in MemberSets
      OBVIOUS
    <2>1. /\ r.id \in Nat \ {0} /\ r.at \in Nat \ {0} /\ r.anchor \in Nat \ {0}
          /\ r.schedule \in Schedules /\ r.members \in MemberSets /\ r.id <= sequence
      BY <1>1, TableRow
    <2> QED
      BY <1>1, <2>1
  <1>3. \A r, x \in allocation_revisions : r.id = x.id => r = x
    BY <1>1 DEF Table
  <1>4. SchemesTypeOK
    BY <1>2, <1>3 DEF SchemesTypeOK, SchemesInv, TxSound
  <1>5. tx.phase = "checked" /\ "view" \in DOMAIN tx => Finished
    BY DEF SchemesInv, TxSound, Created
  <1>6. CommittedAsSeen
    BY <1>5 DEF CommittedAsSeen, Finished
  <1>7. PreviewKept
    BY <1>5 DEF PreviewKept, Finished, AsShown
  <1> QED
    BY <1>4, <1>6, <1>7

\* The formula of RevisionsKept.
RowsKept ==
  \A r \in allocation_revisions :
       \/ r \in allocation_revisions'
       \/ r.at > tx.now /\ (\A x \in captured : x.revision # r.id)
          /\ \A x \in allocation_revisions' : x.id # r.id

LEMMA RowsKeptStep == SchemesInv /\ [SchemesNext]_schemeVars => [RowsKept]_schemeVars
  <1> SUFFICES ASSUME SchemesInv, SchemesNext PROVE RowsKept
    OBVIOUS
  <1>1. CASE commit
    <2>1. tx.phase = "checked" /\ allocation_revisions' = tx.rows
      BY <1>1 DEF commit
    <2>2. Created \/ Finished
      BY <2>1 DEF SchemesInv, TxSound
    <2>3. CASE Created
      BY <2>3 DEF Created, RowsKept
    <2>4. CASE Finished
      BY <2>1, <2>4 DEF Finished, Gone, RowsKept
    <2> QED
      BY <2>2, <2>3, <2>4
  <1>2. CASE ~commit
    <2>1. UNCHANGED allocation_revisions
      BY <1>2 DEF SchemesNext, editorStep, Preview, PreviewInitial, SaveScheme, UpdateMembers, updateScheme,
                  ChangeSchedule, openTx, shown, creationChecked, membersWritten, applyMembers, schemeWritten,
                  scheduleWritten, written, finishChange, rollback, SaveLocation, schemeTick
    <2> QED
      BY <2>1 DEF RowsKept
  <1> QED
    BY <1>1, <1>2

\* Whatever the clock and the zone do while a change is under way, it is committed against exactly the revisions
\* its editor was shown and with the time and the anchor of the preview, and it alters no row that was there and
\* deletes none that has started or that a request captured (checkVersions, finishChange, scheduleWritten).
THEOREM ChangesAreAsShown == SchemesSpec => ChangesAsShown
  <1>1. SchemesInv /\ SchemesInv' /\ [SchemesNext]_schemeVars
          => [\A r \in allocation_revisions :
                \/ r \in allocation_revisions'
                \/ r.at > tx.now /\ (\A x \in captured : x.revision # r.id)
                   /\ \A x \in allocation_revisions' : x.id # r.id]_schemeVars
    BY RowsKeptStep DEF RowsKept
  <1> QED
    BY <1>1, SchemesInvariance, SchemesTyped, PTL DEF SchemesSpec, ChangesAsShown, RevisionsKept

LEMMA SchemesOneSchedule == SchemesInv => OneSchedule
  <1> SUFFICES ASSUME SchemesInv PROVE OneSchedule
    OBVIOUS
  <1> DEFINE ahead == {x \in allocation_revisions : x.at > clock}
             times == {r.at : r \in ahead}
  <1>1. \A a, b \in times : a = b
    BY DEF SchemesInv, Line, OneAhead
  <1>2. times = {} \/ \E a : times = {a}
    BY <1>1
  <1> HIDE DEF times
  <1>3. Cardinality(times) <= 1
    <2>1. CASE times = {}
      BY <2>1, FS_EmptySet
    <2>2. CASE \E a : times = {a}
      BY <2>2, FS_Singleton
    <2> QED
      BY <1>2, <2>1, <2>2
  <1> QED
    BY <1>3 DEF OneSchedule, times

LEMMA SchemesNotRetroactive == SchemesInv => NotRetroactive
  <1> SUFFICES ASSUME SchemesInv, NEW x \in captured, NEW r \in allocation_revisions, r.at < x.at
               PROVE  \E own \in allocation_revisions : own.id = x.revision /\ later(own, r)
    BY DEF NotRetroactive
  <1>1. x.at \in Nat /\ r.at \in Nat
    BY TableRow DEF SchemesInv, Captures
  <1> QED
    BY <1>1 DEF SchemesInv, Captures

\* What has been in effect is what nothing supersedes, among what has started.
LEMMA ServedLast ==
  ASSUME SchemesInv
  PROVE  /\ \A r \in served : r \in allocation_revisions /\ Last(allocation_revisions, r) /\ r.at <= clock
         /\ \A r : Last(allocation_revisions, r) /\ r.at <= clock => r \in served
  <1>1. Table(allocation_revisions, sequence) /\ clock \in Nat
    BY DEF SchemesInv
  <1>2. ASSUME NEW r \in served
        PROVE  r \in allocation_revisions /\ Last(allocation_revisions, r) /\ r.at <= clock
    <2>1. PICK t \in 0..clock : r = CurrentAllocationRevision(allocation_revisions, t) /\ r # None
      BY <1>2 DEF served
    <2>2. t \in Nat /\ t <= clock
      BY <1>1
    <2>3. InEffect(allocation_revisions, r, t)
      BY <1>1, <2>1, <2>2, CurrentIs
    <2>4. Last(allocation_revisions, r)
      BY <1>1, <2>2, <2>3, InEffectLast
    <2>5. r \in allocation_revisions /\ r.at <= t
      BY <2>3 DEF InEffect
    <2>6. r.at \in Nat
      BY <1>1, <2>5, TableRow
    <2> QED
      BY <1>1, <2>2, <2>4, <2>5, <2>6
  <1>3. ASSUME NEW r, Last(allocation_revisions, r), r.at <= clock
        PROVE  r \in served
    <2>1. CurrentAllocationRevision(allocation_revisions, r.at) = r
      BY <1>1, <1>3, LastServes
    <2>2. r \in allocation_revisions
      BY <1>3 DEF Last
    <2>3. r.at \in Nat /\ r # None
      BY <1>1, <2>2, TableRow, NoneIsNoRow
    <2>4. r.at \in 0..clock
      BY <1>1, <1>3, <2>3
    <2> QED
      BY <2>1, <2>3, <2>4 DEF served
  <1> QED
    BY <1>2, <1>3

LEMMA SchemesAnchorSchedule == SchemesInv => AnchorSchedule
  BY ServedLast DEF AnchorSchedule, SchemesInv, Line, SharedAnchors

LEMMA SchemesWindowsWhole == SchemesInv => WindowsWhole
  <1> SUFFICES ASSUME SchemesInv, NEW r \in served, NEW x \in served,
                      x.anchor > r.anchor, r.schedule.period = "durations",
                      \A y \in served : ~(r.anchor < y.anchor /\ y.anchor < x.anchor)
               PROVE  (x.anchor - r.anchor) % Max(r.schedule.windows) = 0
    BY DEF WindowsWhole
  <1>1. /\ Table(allocation_revisions, sequence) /\ clock \in Nat
        /\ Rising(allocation_revisions) /\ Unbroken(allocation_revisions)
    BY DEF SchemesInv, Line
  <1>2. /\ r \in allocation_revisions /\ Last(allocation_revisions, r) /\ r.at <= clock
        /\ x \in allocation_revisions /\ Last(allocation_revisions, x) /\ x.at <= clock
    BY ServedLast
  <1>3. ~Between(allocation_revisions, r, x)
    <2> SUFFICES ASSUME NEW y \in allocation_revisions, Last(allocation_revisions, y),
                        r.anchor < y.anchor, y.anchor < x.anchor
                 PROVE  FALSE
      BY DEF Between
    <2>1. ~(y.at <= clock)
      BY ServedLast
    <2>2. y.at \in Nat /\ x.at \in Nat /\ y.anchor \in Nat /\ x.anchor \in Nat
      BY <1>1, <1>2, TableRow
    <2>3. x.anchor <= y.anchor
      BY <1>1, <1>2, <2>1, <2>2 DEF Rising
    <2> QED
      BY <2>2, <2>3
  <1>4. r.anchor \in Nat /\ x.anchor \in Nat
    BY <1>1, <1>2, TableRow
  <1>5. EndsWindow(x.anchor, r)
    BY <1>1, <1>2, <1>3, <1>4 DEF Unbroken
  <1> QED
    BY <1>5 DEF EndsWindow

\* However the editors of one scheme schedule, move, cancel and replace revisions, and wherever the clock and the
\* zone move meanwhile: one change is scheduled at most, none takes precedence over what a request has captured,
\* and the revisions that have been in effect neither share an anchor between different windows nor cut a window
\* of a duration short (targetTime, rescheduledAnchor, replacementAnchor, DeleteAllocationPendingAt).
THEOREM RevisionsAreOrdered == SchemesSpec => []RevisionsOrdered
  <1>1. SchemesInv => RevisionsOrdered
    BY SchemesOneSchedule, SchemesNotRetroactive, SchemesAnchorSchedule, SchemesWindowsWhole DEF RevisionsOrdered
  <1> QED
    BY <1>1, SchemesInvariance, PTL

-----------------------------------------------------------------------------
(* The reset calendar.  First says what DayStart finds, Reaches what wallTime *)
(* finds; resets fall in their periods and rise, so the windows between them  *)
(* follow one another.                                                        *)

\* A number is so many times d and a remainder.
LEMMA Division ==
  ASSUME NEW t \in Int, NEW d \in Nat \ {0}
  PROVE  t \div d \in Int /\ t % d \in 0..(d - 1) /\ t = (t \div d) * d + (t % d)
  OBVIOUS

\* A smaller multiple of d is at least d smaller.
LEMMA Products ==
  ASSUME NEW a \in Int, NEW b \in Int, NEW d \in Nat \ {0}, a < b
  PROVE  a * d \in Int /\ b * d \in Int /\ a * d + d <= b * d
  <1>1. PICK k \in Nat : b = a + 1 + k
    BY b - a - 1 \in Nat
  <1>2. b * d = a * d + d + k * d
    BY <1>1
  <1>3. k * d \in Nat /\ a * d \in Int /\ b * d \in Int
    OBVIOUS
  <1> QED
    BY <1>2, <1>3

\* A number is so many times d and a remainder in one way only.
LEMMA Quotient ==
  ASSUME NEW q \in Int, NEW d \in Nat \ {0}, NEW t \in Int, q * d <= t, t < q * d + d
  PROVE  t \div d = q /\ t % d = t - q * d
  <1> DEFINE p == t \div d
             m == t % d
  <1>1. p \in Int /\ m \in 0..(d - 1) /\ t = p * d + m
    BY Division
  <1> HIDE DEF p, m
  <1>2. ~(p < q)
    BY <1>1, Products
  <1>3. ~(q < p)
    BY <1>1, Products
  <1>4. p = q
    BY <1>1, <1>2, <1>3
  <1>5. q * d \in Int
    OBVIOUS
  <1>6. m = t - q * d
    BY <1>1, <1>4, <1>5
  <1> QED
    BY <1>4, <1>6 DEF p, m

\* Division keeps the order.
LEMMA QuotientsRise ==
  ASSUME NEW a \in Int, NEW b \in Int, NEW d \in Nat \ {0}, a <= b
  PROVE  a \div d \in Int /\ b \div d \in Int /\ a \div d <= b \div d
  <1> DEFINE p == a \div d
             q == b \div d
  <1>1. /\ p \in Int /\ p * d <= a /\ a < p * d + d
        /\ q \in Int /\ q * d <= b /\ b < q * d + d
    BY Division
  <1> HIDE DEF p, q
  <1>2. ~(q < p)
    BY <1>1, Products
  <1>3. p \in Int /\ q \in Int /\ p <= q
    BY <1>1, <1>2
  <1> QED
    BY <1>3 DEF p, q

-----------------------------------------------------------------------------
(* Zones and dates *)

\* What ZonesAssumption says of a zone.
CivilZone(z) ==
  /\ DOMAIN z.changes \subseteq Int /\ IsFiniteSet(DOMAIN z.changes)
  /\ offsets(z) \subseteq -DayTicks..DayTicks /\ datesAdvance(z)

\* The offset at an instant is one of the zone's.
LEMMA OffsetIn ==
  ASSUME NEW z, CivilZone(z), NEW t \in Int
  PROVE  offset(z, t) \in offsets(z) /\ offset(z, t) \in -DayTicks..DayTicks /\ offset(z, t) \in Int
  <1> DEFINE past == {c \in DOMAIN z.changes : c <= t}
             m == CHOOSE x \in past : \A y \in past : x >= y
  <1>1. offset(z, t) \in offsets(z)
    <2>1. CASE past = {}
      BY <2>1 DEF offset, offsets
    <2>2. CASE past # {}
      <3>1. past \in SUBSET Int /\ IsFiniteSet(past)
        BY FS_Subset DEF CivilZone
      <3>2. \E x \in past : \A y \in past : x >= y
        BY <2>2, <3>1, FiniteMax
      <3>3. m \in past
        BY <3>2
      <3>4. offset(z, t) = z.changes[m]
        BY <2>2 DEF offset, Max
      <3> HIDE DEF m
      <3> QED
        BY <3>3, <3>4 DEF offsets, Range
    <2> QED
      BY <2>1, <2>2
  <1>2. offset(z, t) \in -DayTicks..DayTicks
    BY <1>1 DEF CivilZone
  <1> QED
    BY <1>1, <1>2, CalendarAssumption

\* It stays as it is until the next change.
LEMMA SameOffset ==
  ASSUME NEW z, CivilZone(z), NEW t \in Int, NEW u \in Int, t <= u,
         \A c \in DOMAIN z.changes : ~(t < c /\ c <= u)
  PROVE  offset(z, u) = offset(z, t)
  <1>1. DOMAIN z.changes \subseteq Int
    BY DEF CivilZone
  <1>2. {c \in DOMAIN z.changes : c <= u} = {c \in DOMAIN z.changes : c <= t}
    BY <1>1
  <1> QED
    BY <1>2 DEF offset

\* What the wall clock shows, and its date.
LEMMA WallClock ==
  ASSUME NEW z, CivilZone(z), NEW t \in Int
  PROVE  /\ local(z, t) \in Int /\ t - DayTicks <= local(z, t) /\ local(z, t) <= t + DayTicks
         /\ civilDay(z, t) \in Int
         /\ civilDay(z, t) * DayTicks <= local(z, t) /\ local(z, t) < civilDay(z, t) * DayTicks + DayTicks
  <1>1. offset(z, t) \in -DayTicks..DayTicks
    BY OffsetIn
  <1>2. DayTicks \in Nat \ {0}
    BY CalendarAssumption
  <1>3. local(z, t) \in Int /\ t - DayTicks <= local(z, t) /\ local(z, t) <= t + DayTicks
    BY <1>1, <1>2 DEF local
  <1>4. \A x \in Int : /\ x \div DayTicks \in Int
                       /\ (x \div DayTicks) * DayTicks <= x /\ x < (x \div DayTicks) * DayTicks + DayTicks
    <2> SUFFICES ASSUME NEW x \in Int
                 PROVE  /\ x \div DayTicks \in Int
                        /\ (x \div DayTicks) * DayTicks <= x /\ x < (x \div DayTicks) * DayTicks + DayTicks
      OBVIOUS
    <2> DEFINE q == x \div DayTicks
               m == x % DayTicks
    <2>1. q \in Int /\ m \in 0..(DayTicks - 1) /\ x = q * DayTicks + m
      BY <1>2, Division
    <2> HIDE DEF q, m
    <2>2. q * DayTicks \in Int
      BY <1>2, <2>1
    <2>3. q \in Int /\ q * DayTicks <= x /\ x < q * DayTicks + DayTicks
      BY <1>2, <2>1, <2>2
    <2> QED
      BY <2>3 DEF q
  <1> QED
    BY <1>3, <1>4 DEF civilDay

\* The date does not go back from one instant to the next ...
LEMMA DateAdvances ==
  ASSUME NEW z, CivilZone(z), NEW t \in Int
  PROVE  civilDay(z, t) <= civilDay(z, t + 1)
  <1>1. t + 1 \in Int /\ (t + 1) - 1 = t
    OBVIOUS
  <1>2. CASE t + 1 \in DOMAIN z.changes
    BY <1>1, <1>2 DEF CivilZone, datesAdvance
  <1>3. CASE t + 1 \notin DOMAIN z.changes
    <2>1. \A c \in DOMAIN z.changes : ~(t < c /\ c <= t + 1)
      BY <1>3 DEF CivilZone
    <2>2. offset(z, t + 1) = offset(z, t)
      BY <1>1, <2>1, SameOffset
    <2>3. local(z, t) \in Int /\ local(z, t + 1) \in Int
      BY <1>1, WallClock
    <2>4. local(z, t) <= local(z, t + 1)
      BY <2>2, OffsetIn DEF local
    <2> QED
      BY <2>3, <2>4, QuotientsRise, CalendarAssumption DEF civilDay
  <1> QED
    BY <1>2, <1>3

\* ... nor at all.
LEMMA DatesAdvance ==
  ASSUME NEW z, CivilZone(z), NEW t \in Int, NEW u \in Int, t <= u
  PROVE  civilDay(z, t) <= civilDay(z, u)
  <1> DEFINE back == {n \in Nat : civilDay(z, t + n) < civilDay(z, t)}
  <1>1. back = {}
    <2> SUFFICES ASSUME back # {} PROVE FALSE
      OBVIOUS
    <2>1. PICK n \in back : \A m \in back : n <= m
      BY LeastOf
    <2>2. civilDay(z, t) \in Int /\ t + 0 = t
      BY WallClock
    <2>3. n \in Nat /\ civilDay(z, t + n) < civilDay(z, t)
      BY <2>1
    <2>4. n # 0
      BY <2>2, <2>3
    <2>5. n - 1 \in Nat /\ t + (n - 1) \in Int /\ (t + (n - 1)) + 1 = t + n /\ t + n \in Int
      BY <2>3, <2>4
    <2>6. ~(civilDay(z, t + (n - 1)) < civilDay(z, t))
      BY <2>1, <2>5
    <2>7. civilDay(z, t + (n - 1)) <= civilDay(z, t + n)
      BY <2>5, DateAdvances
    <2>8. civilDay(z, t + (n - 1)) \in Int /\ civilDay(z, t + n) \in Int
      BY <2>5, WallClock
    <2> QED
      BY <2>2, <2>3, <2>6, <2>7, <2>8
  <1>2. u - t \in Nat /\ t + (u - t) = u
    OBVIOUS
  <1>3. ~(civilDay(z, u) < civilDay(z, t))
    BY <1>1, <1>2
  <1> QED
    BY <1>3, WallClock

\* t is the first instant at which the date has reached d.
First(d, z, t) == t \in Int /\ d <= civilDay(z, t) /\ civilDay(z, t - 1) < d

\* Every date is reached, within two days of where it would be without an offset.
LEMMA FirstExists ==
  ASSUME NEW z, CivilZone(z), NEW d \in Int
  PROVE  \E t \in ((d - 2) * DayTicks)..((d + 2) * DayTicks) : First(d, z, t)
  <1> DEFINE lo == (d - 2) * DayTicks
             reached == {n \in Nat : d <= civilDay(z, lo + n)}
             D == DayTicks
  <1>1. D \in Nat \ {0} /\ lo \in Int /\ 4 * D \in Nat /\ lo + 4 * D = (d + 2) * D
    BY CalendarAssumption
  <1>0. \A x \in Int : /\ local(z, x) \in Int /\ x - D <= local(z, x) /\ local(z, x) <= x + D
                       /\ civilDay(z, x) \in Int
                       /\ civilDay(z, x) * D <= local(z, x) /\ local(z, x) < civilDay(z, x) * D + D
    BY WallClock
  <1>2. (d - 1) * D = lo + D /\ d * D = lo + 2 * D /\ (d - 1) * D \in Int /\ d * D \in Int
    BY CalendarAssumption
  <1>3. d <= civilDay(z, lo + 4 * D)
    <2> DEFINE x == lo + 4 * D
               e == civilDay(z, x)
    <2>1. x \in Int /\ x = (d + 2) * D
      BY <1>1
    <2> HIDE DEF lo, D, x
    <2>2. /\ local(z, x) \in Int /\ x - D <= local(z, x)
          /\ e \in Int /\ local(z, x) < e * D + D
      BY <1>0, <2>1
    <2> HIDE DEF e
    <2>3. e * D \in Int /\ x - D < e * D + D
      BY <1>1, <2>1, <2>2
    <2>4. e < d => e * D + D <= d * D
      BY <1>1, <2>2, Products
    <2>5. ~(e < d)
      BY <1>1, <1>2, <2>1, <2>3, <2>4 DEF x
    <2>6. d <= e
      BY <2>2, <2>5
    <2> QED
      BY <2>6 DEF e, x
  <1>4. civilDay(z, lo) < d
    <2> DEFINE e == civilDay(z, lo)
    <2>1. e \in Int /\ e * D <= lo + D
      <3> HIDE DEF lo
      <3>1. local(z, lo) \in Int /\ local(z, lo) <= lo + D /\ e \in Int /\ e * D <= local(z, lo)
        BY <1>0, <1>1
      <3>2. e * D \in Int
        BY <1>1, <3>1
      <3> QED
        BY <1>1, <3>1, <3>2
    <2> HIDE DEF e, lo, D
    <2>2. ~(d - 1 < e)
      BY <1>1, <1>2, <2>1, Products
    <2> QED
      BY <2>1, <2>2 DEF e
  <1> HIDE DEF lo, D
  <1>5. 4 * D \in reached
    BY <1>1, <1>3
  <1>6. PICK n \in reached : \A m \in reached : n <= m
    BY <1>5, LeastOf
  <1>7. n # 0
    BY <1>1, <1>4, <1>6, WallClock
  <1>8. n - 1 \in Nat /\ ~(n - 1 \in reached)
    BY <1>6, <1>7
  <1>9. lo + n \in Int /\ (lo + n) - 1 = lo + (n - 1) /\ lo + (n - 1) \in Int
    BY <1>1, <1>8
  <1>10. First(d, z, lo + n)
    BY <1>6, <1>8, <1>9, WallClock DEF First
  <1>11. lo + n \in lo..(lo + 4 * D)
    BY <1>1, <1>5, <1>6
  <1> QED
    BY <1>1, <1>10, <1>11 DEF lo, D

\* The date has been reached exactly from its first instant on.
LEMMA FirstIs ==
  ASSUME NEW z, CivilZone(z), NEW d \in Int, NEW s, First(d, z, s), NEW t \in Int
  PROVE  d <= civilDay(z, t) <=> s <= t
  <1>1. s \in Int /\ s - 1 \in Int /\ d <= civilDay(z, s) /\ civilDay(z, s - 1) < d
    BY DEF First
  <1>2. civilDay(z, s) \in Int /\ civilDay(z, s - 1) \in Int /\ civilDay(z, t) \in Int
    BY <1>1, WallClock
  <1>3. s <= t => civilDay(z, s) <= civilDay(z, t)
    BY <1>1, DatesAdvance
  <1>4. t <= s - 1 => civilDay(z, t) <= civilDay(z, s - 1)
    BY <1>1, DatesAdvance
  <1> QED
    BY <1>1, <1>2, <1>3, <1>4

\* There is one first instant.
LEMMA FirstOnly ==
  ASSUME NEW z, CivilZone(z), NEW d \in Int, NEW s, First(d, z, s), NEW t, First(d, z, t)
  PROVE  s = t
  <1>1. s \in Int /\ t \in Int /\ d <= civilDay(z, s) /\ d <= civilDay(z, t)
    BY DEF First
  <1>2. s <= t /\ t <= s
    BY <1>1, FirstIs
  <1> QED
    BY <1>1, <1>2

\* Halving finds the first instant of a date.
LEMMA SearchFinds ==
  ASSUME NEW z, CivilZone(z), NEW d \in Int, NEW lo \in Int, NEW hi \in Int, NEW s \in lo..hi, First(d, z, s)
  PROVE  search(d, z, lo, hi) = s
  <1> DEFINE B == (lo..hi) \X (lo..hi)
             half(a, b) == a + (b - a) \div 2
             body(g, r) == IF r[1] >= r[2] THEN r[1]
                           ELSE IF civilDay(z, half(r[1], r[2])) >= d THEN g[<<r[1], half(r[1], r[2])>>]
                                                                       ELSE g[<<half(r[1], r[2]) + 1, r[2]>>]
             F == CHOOSE g : g = [r \in B |-> body(g, r)]
             clamp(a, b) == IF a >= b \/ s <= a THEN a ELSE IF s >= b THEN b ELSE s
             G == [r \in B |-> clamp(r[1], r[2])]
  <1>1. search(d, z, lo, hi) = F[<<lo, hi>>]
    BY DEF search
  <1>2. \A a, b \in lo..hi : a < b => /\ half(a, b) \in a..(b - 1) /\ half(a, b) \in lo..hi
                                       /\ half(a, b) + 1 \in lo..hi
    BY SMT
  <1>3. \A t \in lo..hi : civilDay(z, t) >= d <=> s <= t
    <2> SUFFICES ASSUME NEW t \in lo..hi PROVE civilDay(z, t) >= d <=> s <= t
      OBVIOUS
    <2>1. t \in Int /\ civilDay(z, t) \in Int
      BY WallClock
    <2>2. d <= civilDay(z, t) <=> s <= t
      BY <2>1, FirstIs
    <2> QED
      BY <2>1, <2>2
  <1> HIDE DEF half
  <1>4. G = [r \in B |-> body(G, r)]
    <2>1. ASSUME NEW r \in B PROVE G[r] = body(G, r)
      <3> DEFINE a == r[1]
                 b == r[2]
                 h == half(a, b)
      <3>1. a \in lo..hi /\ b \in lo..hi /\ r = <<a, b>>
        OBVIOUS
      <3>2. G[r] = clamp(a, b)
        OBVIOUS
      <3>3. CASE a >= b
        BY <3>2, <3>3
      <3>4. CASE a < b
        <4>1. h \in a..(b - 1) /\ h \in lo..hi /\ h + 1 \in lo..hi
          BY <1>2, <3>1, <3>4
        <4>2. G[<<a, h>>] = clamp(a, h) /\ G[<<h + 1, b>>] = clamp(h + 1, b)
          BY <3>1, <4>1
        <4>3. civilDay(z, h) >= d <=> s <= h
          BY <1>3, <4>1
        <4>4. body(G, r) = IF s <= h THEN clamp(a, h) ELSE clamp(h + 1, b)
          BY <3>1, <3>4, <4>2, <4>3
        <4> HIDE DEF h, a, b, G, B
        <4>5. clamp(a, b) = IF s <= h THEN clamp(a, h) ELSE clamp(h + 1, b)
          BY <3>1, <3>4, <4>1
        <4> QED
          BY <3>2, <4>4, <4>5
      <3> QED
        BY <3>1, <3>3, <3>4
    <2> QED
      BY <2>1
  <1>5. F = [r \in B |-> body(F, r)]
    BY <1>4
  <1> HIDE DEF F, G
  <1>6. \A a, b \in lo..hi : F[<<a, b>>] = body(F, <<a, b>>)
    BY <1>5
  <1>7. \A a, b \in lo..hi : F[<<a, b>>] = clamp(a, b)
    <2> DEFINE bad == {n \in Nat : \E a, b \in lo..hi : b - a = n /\ F[<<a, b>>] # clamp(a, b)}
    <2>1. ASSUME NEW a \in lo..hi, NEW b \in lo..hi, a >= b PROVE F[<<a, b>>] = clamp(a, b)
      BY <1>6, <2>1
    <2>2. bad = {}
      <3> SUFFICES ASSUME bad # {} PROVE FALSE
        OBVIOUS
      <3>1. PICK n \in bad : \A m \in bad : n <= m
        BY LeastOf
      <3>2. PICK a \in lo..hi, b \in lo..hi : b - a = n /\ F[<<a, b>>] # clamp(a, b)
        BY <3>1
      <3>3. a < b
        BY <2>1, <3>2
      <3> DEFINE h == half(a, b)
      <3>4. h \in a..(b - 1) /\ h \in lo..hi /\ h + 1 \in lo..hi
        BY <1>2, <3>3
      <3>5. h - a \in Nat /\ h - a < n /\ b - (h + 1) \in Nat /\ b - (h + 1) < n
        BY <3>2, <3>3, <3>4
      <3>6. ~(h - a \in bad) /\ ~(b - (h + 1) \in bad)
        <4>1. n \in Nat /\ \A m \in bad : n <= m
          BY <3>1
        <4>2. h - a \in bad => n <= h - a
          BY <4>1
        <4>3. b - (h + 1) \in bad => n <= b - (h + 1)
          BY <4>1
        <4> HIDE DEF bad, h
        <4> QED
          BY <3>5, <4>1, <4>2, <4>3
      <3>7. F[<<a, h>>] = clamp(a, h) /\ F[<<h + 1, b>>] = clamp(h + 1, b)
        BY <3>4, <3>5, <3>6
      <3>8. civilDay(z, h) >= d <=> s <= h
        BY <1>3, <3>4
      <3>9. F[<<a, b>>] = IF s <= h THEN clamp(a, h) ELSE clamp(h + 1, b)
        BY <1>6, <3>3, <3>7, <3>8
      <3> HIDE DEF h
      <3>10. clamp(a, b) = IF s <= h THEN clamp(a, h) ELSE clamp(h + 1, b)
        BY <3>3, <3>4
      <3> QED
        BY <3>2, <3>9, <3>10
    <2> SUFFICES ASSUME NEW a \in lo..hi, NEW b \in lo..hi PROVE F[<<a, b>>] = clamp(a, b)
      OBVIOUS
    <2>3. CASE a >= b
      BY <2>1, <2>3
    <2>4. CASE a < b
      <3>1. b - a \in Nat /\ ~(b - a \in bad)
        <4>1. b - a \in Nat
          BY <2>4
        <4> HIDE DEF bad
        <4> QED
          BY <2>2, <4>1
      <3> QED
        BY <3>1
    <2> QED
      BY <2>3, <2>4
  <1>8. lo \in lo..hi /\ hi \in lo..hi
    OBVIOUS
  <1> QED
    BY <1>1, <1>7, <1>8

\* DayStart finds the first instant of a date.
LEMMA DayStartIs ==
  ASSUME NEW z, CivilZone(z), NEW d \in Int
  PROVE  First(d, z, DayStart(d, z))
  <1> DEFINE M == midnights(d, z)
             lo == (d - 2) * DayTicks
             hi == (d + 2) * DayTicks
  <1>1. ASSUME NEW t \in M, civilDay(z, t - 1) # d PROVE First(d, z, t)
    <2>1. DayTicks \in Nat \ {0} /\ d * DayTicks \in Int
      BY CalendarAssumption
    <2>2. offsets(z) \subseteq Int
      BY <2>1 DEF CivilZone
    <2>3. t \in Int /\ t - 1 \in Int /\ local(z, t) = d * DayTicks
      BY <2>1, <2>2 DEF midnights
    <2>4. civilDay(z, t) = d
      BY <2>1, <2>3, Quotient DEF civilDay
    <2>5. civilDay(z, t - 1) <= civilDay(z, t) /\ civilDay(z, t - 1) \in Int
      BY <2>3, DatesAdvance, WallClock
    <2> QED
      BY <1>1, <2>3, <2>4, <2>5 DEF First
  <1>2. CASE \E t \in M : civilDay(z, t - 1) # d
    <2> DEFINE c == CHOOSE t \in M : civilDay(z, t - 1) # d
    <2>1. c \in M /\ civilDay(z, c - 1) # d
      BY <1>2
    <2>2. DayStart(d, z) = c
      BY <1>2 DEF DayStart
    <2> HIDE DEF c
    <2> QED
      BY <1>1, <2>1, <2>2
  <1>3. CASE ~ \E t \in M : civilDay(z, t - 1) # d
    <2>1. DayStart(d, z) = search(d, z, lo, hi)
      BY <1>3 DEF DayStart
    <2>2. lo \in Int /\ hi \in Int
      BY CalendarAssumption
    <2>3. PICK s \in lo..hi : First(d, z, s)
      BY FirstExists
    <2> HIDE DEF lo, hi
    <2> QED
      BY <2>1, <2>2, <2>3, SearchFinds
  <1> QED
    BY <1>2, <1>3

-----------------------------------------------------------------------------
\* What is in a set and below all of it is its Min.
LEMMA MinIs ==
  ASSUME NEW S \in SUBSET Int, NEW x \in S, \A y \in S : x <= y
  PROVE  Min(S) = x
  <1>1. Min(S) = CHOOSE y \in S : \A u \in S : y <= u
    BY DEF Min
  <1> DEFINE m == CHOOSE y \in S : \A u \in S : y <= u
  <1>2. m \in S /\ \A u \in S : m <= u
    OBVIOUS
  <1> HIDE DEF m
  <1>3. m <= x /\ x <= m /\ m \in Int /\ x \in Int
    BY <1>2
  <1>4. m = x
    BY <1>3
  <1> QED
    BY <1>1, <1>4 DEF m

\* What is bounded from below has a Min.
LEMMA MinAbove ==
  ASSUME NEW S \in SUBSET Int, S # {}, NEW lo \in Int, \A y \in S : lo <= y
  PROVE  Min(S) \in S /\ Min(S) \in Int /\ \A y \in S : Min(S) <= y
  <1> DEFINE above == {n \in Nat : lo + n \in S}
  <1>1. \A y \in S : y - lo \in above /\ y = lo + (y - lo)
    OBVIOUS
  <1>2. above # {}
    BY <1>1
  <1>3. PICK n \in above : \A m \in above : n <= m
    BY <1>2, LeastOf
  <1>4. lo + n \in S /\ n \in Nat
    BY <1>3
  <1>5. \A y \in S : lo + n <= y
    <2> SUFFICES ASSUME NEW y \in S PROVE lo + n <= y
      OBVIOUS
    <2>1. n <= y - lo
      BY <1>1, <1>3
    <2> HIDE DEF above
    <2> QED
      BY <1>4, <2>1
  <1> HIDE DEF above
  <1>6. Min(S) = lo + n
    BY <1>4, <1>5, MinIs
  <1> QED
    BY <1>4, <1>5, <1>6

\* The greater of two numbers.
LEMMA MaxOfTwo ==
  ASSUME NEW a \in Int, NEW b \in Int
  PROVE  Max({a, b}) = IF a <= b THEN b ELSE a
  <1> DEFINE x == IF a <= b THEN b ELSE a
             m == CHOOSE y \in {a, b} : \A u \in {a, b} : y >= u
  <1>1. Max({a, b}) = m
    BY DEF Max
  <1>2. x \in {a, b} /\ \A u \in {a, b} : x >= u
    OBVIOUS
  <1>3. m \in {a, b} /\ \A u \in {a, b} : m >= u
    BY <1>2
  <1> HIDE DEF m, x
  <1>4. m >= x /\ x >= m /\ m \in Int /\ x \in Int
    BY <1>2, <1>3
  <1> QED
    BY <1>1, <1>4 DEF x

\* w is the first instant of start..end at which the wall clock has reached want, or end.
Reaches(w, z, want, start, end) ==
  /\ w \in start..end
  /\ w = end \/ want <= local(z, w)
  /\ \A t \in start..(w - 1) : local(z, t) < want

\* In a stretch of constant offset the wall clock reaches want at once or later.
LEMMA StretchReaches ==
  ASSUME NEW z, CivilZone(z), NEW want \in Int, NEW start \in Int, NEW end \in Int,
         \A t \in start..(end - 1) : offset(z, t) = offset(z, start)
  PROVE  LET c == candidate(want, z, start) IN
         /\ c \in Int /\ start <= c
         /\ c < end => want <= local(z, c)
         /\ \A t \in start..(end - 1) : t < c => local(z, t) < want
  <1>1. offset(z, start) \in Int
    BY OffsetIn
  <1> DEFINE o == offset(z, start)
             c == Max({want - o, start})
  <1> HIDE DEF o
  <1>2. o \in Int /\ want - o \in Int
    BY <1>1 DEF o
  <1>3. c = IF want - o <= start THEN start ELSE want - o
    BY <1>2, MaxOfTwo
  <1> HIDE DEF c
  <1>4. \A t \in start..(end - 1) : local(z, t) = t + o
    BY DEF local, o
  <1>5. c \in Int /\ start <= c
    BY <1>2, <1>3
  <1>6. c < end => want <= local(z, c)
    <2> SUFFICES ASSUME c < end PROVE want <= local(z, c)
      OBVIOUS
    <2>1. local(z, c) = c + o
      BY <1>4, <1>5
    <2> QED
      BY <1>2, <1>3, <1>5, <2>1
  <1>7. \A t \in start..(end - 1) : t < c => local(z, t) < want
    BY <1>2, <1>3, <1>4
  <1> QED
    BY <1>5, <1>6, <1>7 DEF candidate, c, o

\* Walking the stretches of a date in order finds the first instant that reaches want.
LEMMA SpanReaches ==
  ASSUME NEW z, CivilZone(z), NEW want \in Int, NEW start \in Int, NEW end \in Int, start <= end
  PROVE  Reaches(firstReaching(want, z, start, end), z, want, start, end)
  <1> DEFINE begins == {start} \cup {c \in DOMAIN z.changes : start < c /\ c < end}
             next(s) == Min({end} \cup {c \in begins : s < c})
             cand(s) == candidate(want, z, s)
             T == {end} \cup {cand(s) : s \in {b \in begins : cand(b) < next(b)}}
             w == firstReaching(want, z, start, end)
  <1>1. w = Min(T)
    <2>1. segments(z, start, end) = {<<s, next(s)>> : s \in begins}
      BY DEF segments
    <2> HIDE DEF next, cand, begins
    <2> DEFINE X == {p \in segments(z, start, end) : cand(p[1]) < p[2]}
               Y == {b \in begins : cand(b) < next(b)}
    <2>2. X = {<<s, next(s)>> : s \in Y}
      BY <2>1
    <2>3. (\A p \in X : p[1] \in Y) /\ (\A s \in Y : <<s, next(s)>> \in X /\ <<s, next(s)>>[1] = s)
      BY <2>2
    <2> HIDE DEF X, Y
    <2>4. {cand(p[1]) : p \in X} = {cand(s) : s \in Y}
      BY <2>3, Zenon
    <2> QED
      BY <2>4 DEF firstReaching, cand, X, Y
  <1>2. begins \in SUBSET Int /\ \A b \in begins : start <= b /\ b <= end
    BY DEF CivilZone
  <1>3. ASSUME NEW b \in begins
        PROVE  /\ next(b) \in Int /\ next(b) <= end
               /\ next(b) = end \/ (next(b) \in begins /\ b < next(b))
               /\ \A c \in begins : b < c => next(b) <= c
    <2> DEFINE ahead == {end} \cup {c \in begins : b < c}
    <2>1. ahead \in SUBSET Int /\ ahead # {} /\ \A y \in ahead : start <= y
      BY <1>2
    <2> HIDE DEF ahead
    <2>2. Min(ahead) \in ahead /\ Min(ahead) \in Int /\ \A y \in ahead : Min(ahead) <= y
      BY <2>1, MinAbove
    <2>3. next(b) = Min(ahead)
      BY DEF ahead
    <2> HIDE DEF next, begins
    <2> QED
      BY <2>2, <2>3 DEF ahead
  <1>4. ASSUME NEW b \in begins
        PROVE  /\ cand(b) \in Int /\ b <= cand(b)
               /\ cand(b) < next(b) => want <= local(z, cand(b))
               /\ \A t \in b..(next(b) - 1) : t < cand(b) => local(z, t) < want
    <2>1. b \in Int /\ next(b) \in Int /\ start <= b /\ next(b) <= end /\ \A c \in begins : b < c => next(b) <= c
      BY <1>2, <1>3
    <2>2. ASSUME NEW t \in b..(next(b) - 1) PROVE offset(z, t) = offset(z, b)
      <3>0. t \in Int /\ b <= t /\ t < next(b)
        BY <2>1
      <3>1. DOMAIN z.changes \subseteq Int
        BY DEF CivilZone
      <3>2. ASSUME NEW c \in DOMAIN z.changes, b < c, c <= t PROVE FALSE
        <4>1. c \in Int
          BY <3>1
        <4> HIDE DEF next
        <4>2. c < next(b) /\ c < end /\ start < c /\ b < c
          BY <2>1, <3>0, <3>2, <4>1
        <4>3. c \in begins
          BY <4>2
        <4> HIDE DEF begins
        <4>4. next(b) <= c
          BY <2>1, <3>2, <4>3
        <4> QED
          BY <2>1, <4>1, <4>2, <4>4
      <3> HIDE DEF next, begins
      <3> QED
        BY <2>1, <3>0, <3>2, SameOffset
    <2> HIDE DEF next, begins
    <2> QED
      BY <2>1, <2>2, StretchReaches
  <1> HIDE DEF begins, next, cand
  <1>5. w \in T /\ w \in Int /\ \A y \in T : w <= y
    <2>1. T \in SUBSET Int /\ T # {} /\ \A y \in T : start <= y
      BY <1>2, <1>4
    <2> HIDE DEF T, w
    <2> QED
      BY <1>1, <2>1, MinAbove
  <1> HIDE DEF w
  <1>6. w \in start..end
    BY <1>2, <1>4, <1>5
  <1>7. w = end \/ want <= local(z, w)
    BY <1>4, <1>5
  <1>8. ASSUME NEW t \in start..(w - 1) PROVE local(z, t) < want
    <2> DEFINE before == {b \in begins : b <= t}
    <2>1. t \in Int /\ start <= t /\ t < w /\ t < end
      BY <1>5, <1>6
    <2>2. before \in SUBSET Int /\ start \in before
      BY <1>2, <2>1 DEF begins
    <2>3. IsFiniteSet(before)
      <3>1. ASSUME NEW b \in before PROVE b \in start..t
        <4>1. b \in Int /\ start <= b /\ b <= t
          BY <1>2
        <4> QED
          BY <2>1, <4>1
      <3> HIDE DEF before
      <3> QED
        BY <2>1, <3>1, FS_Interval, FS_Subset
    <2>4. PICK b \in before : \A c \in before : b >= c
      <3> HIDE DEF before
      <3> QED
        BY <2>2, <2>3, FiniteMax
    <2>5. b \in begins /\ b \in Int /\ b <= t
      BY <1>2, <2>4
    <2>6. t < next(b)
      <3>1. next(b) \in Int /\ (next(b) = end \/ (next(b) \in begins /\ b < next(b)))
        BY <1>3, <2>5
      <3>2. next(b) \in begins /\ next(b) <= t => b >= next(b)
        BY <2>4
      <3> QED
        BY <2>1, <2>5, <3>1, <3>2
    <2>7. cand(b) \in Int /\ next(b) \in Int
      BY <1>3, <1>4, <2>5
    <2>8. ~(cand(b) <= t)
      <3>1. cand(b) <= t => cand(b) < next(b)
        BY <2>1, <2>6, <2>7
      <3>2. cand(b) < next(b) => cand(b) \in T
        BY <2>5
      <3>3. cand(b) \in T => w <= cand(b)
        BY <1>5
      <3> HIDE DEF T
      <3> QED
        BY <1>5, <2>1, <2>7, <3>1, <3>2, <3>3
    <2>9. t \in b..(next(b) - 1) /\ t < cand(b)
      BY <2>1, <2>5, <2>6, <2>7, <2>8
    <2> QED
      BY <1>4, <2>5, <2>9
  <1>9. Reaches(w, z, want, start, end)
    BY <1>6, <1>7, <1>8 DEF Reaches
  <1> QED
    BY <1>9 DEF w

\* A ahead date does not begin earlier.
LEMMA StartsRise ==
  ASSUME NEW z, CivilZone(z), NEW d \in Int, NEW e \in Int, d <= e
  PROVE  DayStart(d, z) \in Int /\ DayStart(e, z) \in Int /\ DayStart(d, z) <= DayStart(e, z)
  <1>1. First(d, z, DayStart(d, z)) /\ First(e, z, DayStart(e, z))
    BY DayStartIs
  <1>2. DayStart(d, z) \in Int /\ DayStart(e, z) \in Int /\ e <= civilDay(z, DayStart(e, z))
    BY <1>1 DEF First
  <1>3. d <= civilDay(z, DayStart(e, z))
    BY <1>2, WallClock
  <1> QED
    BY <1>1, <1>2, <1>3, FirstIs

\* wallTime is the first instant of its date at which the wall clock has reached the time of day.
LEMMA WallTimeReaches ==
  ASSUME NEW z, CivilZone(z), NEW d \in Int, NEW tick \in Nat
  PROVE  Reaches(wallTime(d, tick, z), z, d * DayTicks + tick, DayStart(d, z), DayStart(d + 1, z))
  <1>1. d + 1 \in Int /\ d <= d + 1 /\ d * DayTicks + tick \in Int
    BY CalendarAssumption
  <1>2. DayStart(d, z) \in Int /\ DayStart(d + 1, z) \in Int /\ DayStart(d, z) <= DayStart(d + 1, z)
    BY <1>1, StartsRise
  <1> QED
    BY <1>1, <1>2, SpanReaches DEF wallTime

-----------------------------------------------------------------------------
\* The table of the months.
LEMMA YearTypes ==
  /\ months \in Nat \ {0} /\ yearDays \in Nat \ {0}
  /\ MonthStarts[1] = 0 /\ MonthStarts[months + 1] = yearDays
  /\ \A i \in 1..(months + 1) : MonthStarts[i] \in Nat
  /\ \A i, j \in 1..(months + 1) : i < j => MonthStarts[i] < MonthStarts[j]
  <1>1. Len(MonthStarts) \in Nat /\ DOMAIN MonthStarts = 1..Len(MonthStarts)
    BY CalendarAssumption
  <1>2. months \in Nat \ {0} /\ months + 1 = Len(MonthStarts)
    BY <1>1, CalendarAssumption DEF months
  <1>3. /\ MonthStarts[1] = 0 /\ MonthStarts[months + 1] = yearDays
        /\ \A i \in 1..(months + 1) : MonthStarts[i] \in Nat
        /\ \A i, j \in 1..(months + 1) : i < j => MonthStarts[i] < MonthStarts[j]
    BY <1>1, <1>2, CalendarAssumption DEF yearDays
  <1>4. MonthStarts[1] < MonthStarts[months + 1]
    BY <1>2, <1>3
  <1>5. yearDays \in Nat
    BY <1>2, <1>3
  <1> QED
    BY <1>2, <1>3, <1>4, <1>5

\* The month of index i in year y.
LEMMA MonthIn ==
  ASSUME NEW y \in Int, NEW i \in 0..(months - 1)
  PROVE  /\ y * months + i \in Int
         /\ firstOfMonth(y * months + i) = y * yearDays + MonthStarts[i + 1]
         /\ firstOfMonth((y * months + i) + 1) = y * yearDays + MonthStarts[i + 2]
         /\ monthLength(y * months + i) = MonthStarts[i + 2] - MonthStarts[i + 1]
  <1> DEFINE N == months
             m == y * N + i
  <1>1. N \in Nat \ {0} /\ i \in 0..(N - 1)
    BY YearTypes
  <1> HIDE DEF N
  <1>2. y * N \in Int /\ (y + 1) * N = y * N + N
    BY <1>1
  <1>3. m \in Int /\ y * N <= m /\ m < y * N + N /\ m - y * N = i
    BY <1>1, <1>2
  <1>4. m \div N = y /\ m % N = i
    <2> HIDE DEF m
    <2> QED
      BY <1>1, <1>3, Quotient
  <1>5. firstOfMonth(m) = y * yearDays + MonthStarts[i + 1] /\ monthLength(m) = MonthStarts[i + 2] - MonthStarts[i + 1]
    BY <1>4 DEF firstOfMonth, monthLength, N
  <1>6. firstOfMonth(m + 1) = y * yearDays + MonthStarts[i + 2]
    <2>1. CASE i + 1 < N
      <3>1. (m + 1) \div N = y /\ (m + 1) % N = i + 1
        <4>1. m + 1 \in Int /\ y * N <= m + 1 /\ m + 1 < y * N + N /\ (m + 1) - y * N = i + 1
          BY <1>1, <1>2, <1>3, <2>1
        <4> HIDE DEF m
        <4> QED
          BY <1>1, <4>1, Quotient
      <3>2. (i + 1) + 1 = i + 2
        BY <1>1
      <3> QED
        BY <3>1, <3>2 DEF firstOfMonth, N
    <2>2. CASE i + 1 = N
      <3>1. (m + 1) \div N = y + 1 /\ (m + 1) % N = 0
        <4>1. m + 1 \in Int /\ (y + 1) * N <= m + 1 /\ m + 1 < (y + 1) * N + N /\ (m + 1) - (y + 1) * N = 0
          BY <1>1, <1>2, <1>3, <2>2
        <4>2. y + 1 \in Int
          OBVIOUS
        <4> HIDE DEF m
        <4> QED
          BY <1>1, <4>1, <4>2, Quotient
      <3>2. firstOfMonth(m + 1) = (y + 1) * yearDays + MonthStarts[0 + 1]
        BY <3>1 DEF firstOfMonth, N
      <3>3. MonthStarts[0 + 1] = 0 /\ MonthStarts[i + 2] = yearDays /\ yearDays \in Nat
        BY <1>1, <2>2, YearTypes DEF N
      <3>4. (y + 1) * yearDays + 0 = y * yearDays + yearDays
        BY <3>3
      <3> QED
        BY <3>2, <3>3, <3>4
    <2> QED
      BY <1>1, <2>1, <2>2
  <1> QED
    BY <1>3, <1>5, <1>6 DEF N, m

\* Every month is one of a year.
LEMMA MonthIs ==
  ASSUME NEW m \in Int
  PROVE  \E y \in Int : \E i \in 0..(months - 1) : m = y * months + i
  BY YearTypes, Division

\* Months follow one another without a gap.
LEMMA MonthsFollow ==
  ASSUME NEW m \in Int
  PROVE  /\ firstOfMonth(m) \in Int /\ monthLength(m) \in Nat \ {0}
         /\ firstOfMonth(m + 1) = firstOfMonth(m) + monthLength(m)
  <1>1. PICK y \in Int, i \in 0..(months - 1) : m = y * months + i
    BY MonthIs
  <1>2. y * yearDays \in Int
    BY YearTypes
  <1>3. MonthStarts[i + 1] \in Nat /\ MonthStarts[i + 2] \in Nat /\ MonthStarts[i + 1] < MonthStarts[i + 2]
    BY YearTypes
  <1>4. /\ firstOfMonth(m) = y * yearDays + MonthStarts[i + 1]
        /\ firstOfMonth(m + 1) = y * yearDays + MonthStarts[i + 2]
        /\ monthLength(m) = MonthStarts[i + 2] - MonthStarts[i + 1]
    BY <1>1, MonthIn
  <1> QED
    BY <1>2, <1>3, <1>4

\* A later month begins later.
LEMMA MonthsRise ==
  ASSUME NEW m \in Int, NEW k \in Int, m < k
  PROVE  firstOfMonth(m) < firstOfMonth(k)
  <1>1. PICK y \in Int, i \in 0..(months - 1) : m = y * months + i
    BY MonthIs
  <1>2. PICK x \in Int, j \in 0..(months - 1) : k = x * months + j
    BY MonthIs
  <1>3. /\ firstOfMonth(m) = y * yearDays + MonthStarts[i + 1]
        /\ firstOfMonth(k) = x * yearDays + MonthStarts[j + 1]
    BY <1>1, <1>2, MonthIn
  <1>4. months \in Nat \ {0} /\ yearDays \in Nat \ {0} /\ i \in 0..(months - 1) /\ j \in 0..(months - 1)
    BY YearTypes
  <1>5. /\ MonthStarts[i + 1] \in Nat /\ MonthStarts[i + 1] < yearDays /\ MonthStarts[j + 1] \in Nat
        /\ i < j => MonthStarts[i + 1] < MonthStarts[j + 1]
    BY YearTypes
  <1>6. y * yearDays \in Int /\ x * yearDays \in Int /\ y * months \in Int /\ x * months \in Int
    BY <1>4
  <1>7. ~(x < y)
    <2> SUFFICES ASSUME x < y PROVE FALSE
      OBVIOUS
    <2>1. x * months + months <= y * months
      BY <1>4, Products
    <2> QED
      BY <1>1, <1>2, <1>4, <1>6, <2>1
  <1>8. CASE y < x
    <2>1. y * yearDays + yearDays <= x * yearDays
      BY <1>4, <1>8, Products
    <2> QED
      BY <1>3, <1>4, <1>5, <1>6, <2>1
  <1>9. CASE y = x
    <2>1. i < j
      BY <1>1, <1>2, <1>4, <1>6, <1>9
    <2> QED
      BY <1>3, <1>5, <1>6, <1>9, <2>1
  <1> QED
    BY <1>7, <1>8, <1>9

\* monthOf names the month that holds a date.
LEMMA MonthHolds ==
  ASSUME NEW d \in Int
  PROVE  /\ monthOf(d) \in Int
         /\ firstOfMonth(monthOf(d)) <= d /\ d < firstOfMonth(monthOf(d) + 1)
  <1> DEFINE y == d \div yearDays
             r == d % yearDays
             in(j) == MonthStarts[j + 1] <= r /\ r < MonthStarts[j + 2]
             c == CHOOSE j \in 0..(months - 1) : in(j)
             past == {j \in Nat : j < months /\ r < MonthStarts[j + 2]}
  <1>1. y \in Int /\ r \in 0..(yearDays - 1) /\ d = y * yearDays + r
    BY YearTypes, Division
  <1> HIDE DEF y, r
  <1>2. \E j \in 0..(months - 1) : in(j)
    <2>1. months \in Nat \ {0} /\ months - 1 \in Nat /\ MonthStarts[(months - 1) + 2] = yearDays
      BY YearTypes
    <2>2. months - 1 \in past
      BY <1>1, <2>1, YearTypes
    <2>3. PICK j \in past : \A k \in past : j <= k
      BY <2>2, LeastOf
    <2>4. j \in 0..(months - 1) /\ r < MonthStarts[j + 2]
      BY <2>1, <2>3
    <2>5. MonthStarts[j + 1] <= r
      <3>1. CASE j = 0
        BY <1>1, <3>1, YearTypes
      <3>2. CASE j > 0
        <4>1. j - 1 \in Nat /\ j - 1 < months /\ (j - 1) + 2 = j + 1
          BY <2>1, <2>4, <3>2
        <4>2. ~(j - 1 \in past)
          BY <2>3, <2>4, <4>1
        <4>3. ~(r < MonthStarts[j + 1])
          BY <4>1, <4>2
        <4>4. MonthStarts[j + 1] \in Nat /\ r \in Int
          BY <1>1, <2>1, <2>4, YearTypes
        <4> QED
          BY <4>3, <4>4
      <3> QED
        BY <2>4, <3>1, <3>2
    <2> QED
      BY <2>4, <2>5
  <1>3. c \in 0..(months - 1) /\ MonthStarts[c + 1] <= r /\ r < MonthStarts[c + 2]
    BY <1>2
  <1>4. monthOf(d) = y * months + c
    BY DEF monthOf, y, r
  <1> HIDE DEF c
  <1>5. MonthStarts[c + 1] \in Nat /\ MonthStarts[c + 2] \in Nat /\ y * yearDays \in Int
    BY <1>1, <1>3, YearTypes
  <1> DEFINE m == monthOf(d)
  <1>6. m \in Int /\ m = y * months + c
    BY <1>1, <1>3, <1>4, MonthIn
  <1>7. firstOfMonth(m) = y * yearDays + MonthStarts[c + 1] /\ firstOfMonth(m + 1) = y * yearDays + MonthStarts[c + 2]
    BY <1>1, <1>3, <1>6, MonthIn
  <1> HIDE DEF m
  <1>8. m \in Int /\ firstOfMonth(m) <= d /\ d < firstOfMonth(m + 1)
    BY <1>1, <1>3, <1>5, <1>6, <1>7
  <1> QED
    BY <1>8 DEF m

\* ... and for the first of a month that month.
LEMMA MonthOnly ==
  ASSUME NEW m \in Int
  PROVE  monthOf(firstOfMonth(m)) = m
  <1> DEFINE f == firstOfMonth(m)
             k == monthOf(f)
  <1>1. f \in Int
    BY MonthsFollow
  <1>2. k \in Int /\ firstOfMonth(k) <= f /\ f < firstOfMonth(k + 1)
    BY <1>1, MonthHolds
  <1>3. firstOfMonth(k) \in Int /\ firstOfMonth(k + 1) \in Int
    BY <1>2, MonthsFollow
  <1> HIDE DEF k
  <1>4. ~(m < k)
    BY <1>1, <1>2, <1>3, MonthsRise
  <1>5. k + 1 <= m => firstOfMonth(k + 1) <= f
    <2>1. k + 1 \in Int
      BY <1>2
    <2>2. k + 1 < m => firstOfMonth(k + 1) < f
      BY <2>1, MonthsRise
    <2> QED
      BY <1>1, <1>2, <1>3, <2>2
  <1>6. k = m
    BY <1>1, <1>2, <1>3, <1>4, <1>5
  <1> QED
    BY <1>6 DEF k

-----------------------------------------------------------------------------
(* Resets *)

\* What CalendarsAssumption says of a schedule.
Schedule(c) == c.period \in {"day", "month"} /\ c.reset \in Nat /\ (c.period = "month" => c.day \in Nat)

\* The first date of the period with number k, and the number of the period that holds a date.
firstDate(k, c) == IF c.period = "month" THEN firstOfMonth(k) ELSE k
periodOf(d, c) == IF c.period = "month" THEN monthOf(d) ELSE d

ResetAt(k, c, z) == resetOn(firstDate(k, c), c, z)

\* Days and months alike: periods follow one another, each date is in one, and addDate goes by their numbers.
LEMMA Periods ==
  ASSUME NEW c, Schedule(c)
  PROVE  /\ \A k \in Int : firstDate(k, c) \in Int /\ firstDate(k, c) < firstDate(k + 1, c)
                           /\ periodOf(firstDate(k, c), c) = k
         /\ \A j, k \in Int : j <= k => firstDate(j, c) <= firstDate(k, c)
         /\ \A d \in Int : /\ periodOf(d, c) \in Int
                           /\ firstDate(periodOf(d, c), c) <= d /\ d < firstDate(periodOf(d, c) + 1, c)
         /\ \A d \in Int : \A n : addDate(d, n, c) = firstDate(periodOf(d, c) + n, c)
  <1>1. CASE c.period = "month"
    <2>1. ASSUME NEW k \in Int
          PROVE  firstOfMonth(k) \in Int /\ firstOfMonth(k) < firstOfMonth(k + 1) /\ monthOf(firstOfMonth(k)) = k
      BY MonthsFollow, MonthsRise, MonthOnly
    <2>2. ASSUME NEW j \in Int, NEW k \in Int, j <= k PROVE firstOfMonth(j) <= firstOfMonth(k)
      <3>1. firstOfMonth(j) \in Int /\ firstOfMonth(k) \in Int
        BY <2>1
      <3>2. j < k => firstOfMonth(j) < firstOfMonth(k)
        BY MonthsRise
      <3> QED
        BY <2>2, <3>1, <3>2
    <2>3. ASSUME NEW d \in Int
          PROVE  monthOf(d) \in Int /\ firstOfMonth(monthOf(d)) <= d /\ d < firstOfMonth(monthOf(d) + 1)
      BY MonthHolds
    <2> QED
      BY <1>1, <2>1, <2>2, <2>3 DEF firstDate, periodOf, addDate
  <1>2. CASE c.period # "month"
    BY <1>2 DEF firstDate, periodOf, addDate
  <1> QED
    BY <1>1, <1>2

\* The smaller of two numbers.
LEMMA MinOfTwo ==
  ASSUME NEW a \in Int, NEW b \in Int
  PROVE  Min({a, b}) = IF a <= b THEN a ELSE b
  <1> DEFINE x == IF a <= b THEN a ELSE b
  <1>1. {a, b} \in SUBSET Int /\ x \in {a, b} /\ \A y \in {a, b} : x <= y
    OBVIOUS
  <1> HIDE DEF x
  <1>2. Min({a, b}) = x
    BY <1>1, MinIs
  <1> QED
    BY <1>2 DEF x

\* The reset of a period falls between the beginnings of its first date and of that of the next.
LEMMA ResetInPeriod ==
  ASSUME NEW z, CivilZone(z), NEW c, Schedule(c), NEW k \in Int
  PROVE  /\ ResetAt(k, c, z) \in Int
         /\ DayStart(firstDate(k, c), z) \in Int /\ DayStart(firstDate(k, c), z) <= ResetAt(k, c, z)
         /\ DayStart(firstDate(k + 1, c), z) \in Int /\ ResetAt(k, c, z) <= DayStart(firstDate(k + 1, c), z)
  <1> DEFINE f == firstDate(k, c)
             n == firstDate(k + 1, c)
             D == IF c.period = "month" THEN f + Min({Max({1, c.day}), monthLength(monthOf(f))}) - 1 ELSE f
  <1>1. k + 1 \in Int /\ f \in Int /\ n \in Int /\ f < n
    BY Periods
  <1>2. ResetAt(k, c, z) = wallTime(D, c.reset, z)
    BY DEF ResetAt, resetOn
  <1>3. D \in Int /\ f <= D /\ D + 1 <= n
    <2>1. CASE c.period = "month"
      <3> DEFINE a == Max({1, c.day})
                 l == monthLength(monthOf(f))
                 m == Min({a, l})
      <3>1. a \in Nat /\ a >= 1
        BY <2>1, MaxOfTwo DEF Schedule
      <3>2. l \in Nat \ {0} /\ n = f + l
        BY <2>1, MonthOnly, MonthsFollow DEF firstDate
      <3> HIDE DEF a, l
      <3>3. m = IF a <= l THEN a ELSE l
        BY <3>1, <3>2, MinOfTwo
      <3>4. D = f + m - 1
        BY <2>1 DEF a, l
      <3> HIDE DEF m, f, n, D
      <3> QED
        BY <1>1, <3>1, <3>2, <3>3, <3>4
    <2>2. CASE c.period # "month"
      BY <1>1, <2>2
    <2> QED
      BY <2>1, <2>2
  <1> HIDE DEF f, n, D
  <1>4. D + 1 \in Int /\ c.reset \in Nat
    BY <1>3 DEF Schedule
  <1>5. Reaches(wallTime(D, c.reset, z), z, D * DayTicks + c.reset, DayStart(D, z), DayStart(D + 1, z))
    BY <1>3, <1>4, WallTimeReaches
  <1>6. /\ DayStart(f, z) \in Int /\ DayStart(D, z) \in Int /\ DayStart(f, z) <= DayStart(D, z)
        /\ DayStart(D + 1, z) \in Int /\ DayStart(n, z) \in Int /\ DayStart(D + 1, z) <= DayStart(n, z)
    BY <1>1, <1>3, <1>4, StartsRise
  <1>7. wallTime(D, c.reset, z) \in DayStart(D, z)..DayStart(D + 1, z)
    BY <1>5 DEF Reaches
  <1> QED
    BY <1>2, <1>6, <1>7 DEF f, n

\* A later period does not reset earlier.
LEMMA ResetsRise ==
  ASSUME NEW z, CivilZone(z), NEW c, Schedule(c), NEW j \in Int, NEW k \in Int, j <= k
  PROVE  ResetAt(j, c, z) <= ResetAt(k, c, z)
  <1>1. CASE j = k
    BY <1>1, ResetInPeriod
  <1>2. CASE j < k
    <2> DEFINE e == firstDate(j + 1, c)
               f == firstDate(k, c)
    <2>1. j + 1 \in Int /\ j + 1 <= k
      BY <1>2
    <2>2. e \in Int /\ f \in Int /\ e <= f
      BY <2>1, Periods
    <2> HIDE DEF e, f
    <2>3. DayStart(e, z) <= DayStart(f, z)
      BY <2>2, StartsRise
    <2>4. /\ ResetAt(j, c, z) \in Int /\ DayStart(e, z) \in Int /\ ResetAt(j, c, z) <= DayStart(e, z)
          /\ ResetAt(k, c, z) \in Int /\ DayStart(f, z) \in Int /\ DayStart(f, z) <= ResetAt(k, c, z)
      BY ResetInPeriod DEF e, f
    <2> QED
      BY <2>3, <2>4
  <1> QED
    BY <1>1, <1>2

\* The window of an instant lies between the resets of two periods that follow one another.
LEMMA WindowIs ==
  ASSUME NEW z, CivilZone(z), NEW c, Schedule(c), NEW t \in Int
  PROVE  \E j \in Int : /\ Window(t, c, z) = [start |-> ResetAt(j, c, z), end |-> ResetAt(j + 1, c, z)]
                        /\ ResetAt(j, c, z) <= t /\ t < ResetAt(j + 1, c, z)
  <1> DEFINE d == civilDay(z, t)
             k == periodOf(d, c)
             f == firstDate(k, c)
             n == firstDate(k + 1, c)
             R(j) == ResetAt(j, c, z)
  <1>1. d \in Int
    BY WallClock
  <1>2. k \in Int /\ f \in Int /\ n \in Int /\ f <= d /\ d < n /\ periodOf(f, c) = k
    BY <1>1, Periods
  <1>3. k - 1 \in Int /\ (k - 1) + 1 = k /\ k + 0 = k /\ k + (-1) = k - 1 /\ k + 1 \in Int
    BY <1>2
  <1>4. addDate(d, 0, c) = f /\ addDate(f, -1, c) = firstDate(k - 1, c) /\ addDate(f, 1, c) = n
    BY <1>1, <1>2, <1>3, Periods
  <1>5. Window(t, c, z) = IF t < R(k) THEN [start |-> R(k - 1), end |-> R(k)] ELSE [start |-> R(k), end |-> R(k + 1)]
    BY <1>4 DEF Window, dateWindow, windowAt, ResetAt
  <1>6. DayStart(f, z) <= t /\ ~(DayStart(n, z) <= t)
    <2>1. First(f, z, DayStart(f, z)) /\ First(n, z, DayStart(n, z))
      BY <1>2, DayStartIs
    <2>2. ~(n <= d)
      BY <1>1, <1>2
    <2> QED
      BY <1>2, <2>1, <2>2, FirstIs
  <1>7. R(k) \in Int /\ R(k - 1) \in Int /\ R(k + 1) \in Int
    BY <1>2, <1>3, ResetInPeriod
  <1>8. R(k - 1) <= DayStart(f, z) /\ DayStart(f, z) \in Int /\ DayStart(n, z) \in Int
    BY <1>2, <1>3, ResetInPeriod
  <1>9. DayStart(n, z) <= R(k + 1)
    BY <1>3, ResetInPeriod
  <1> HIDE DEF d, k, f, n, R
  <1>10. CASE t < R(k)
    <2>1. Window(t, c, z) = [start |-> R(k - 1), end |-> R((k - 1) + 1)] /\ R(k - 1) <= t /\ t < R((k - 1) + 1)
      BY <1>3, <1>5, <1>6, <1>7, <1>8, <1>10
    <2> QED
      BY <1>3, <2>1 DEF R
  <1>11. CASE ~(t < R(k))
    <2>1. Window(t, c, z) = [start |-> R(k), end |-> R(k + 1)] /\ R(k) <= t /\ t < R(k + 1)
      BY <1>5, <1>6, <1>7, <1>8, <1>9, <1>11
    <2> QED
      BY <1>2, <2>1 DEF R
  <1> QED
    BY <1>10, <1>11

\* An instant between the resets of two periods has the window between them.
LEMMA WindowBetween ==
  ASSUME NEW z, CivilZone(z), NEW c, Schedule(c), NEW j \in Int, NEW t \in Int,
         ResetAt(j, c, z) <= t, t < ResetAt(j + 1, c, z)
  PROVE  Window(t, c, z) = [start |-> ResetAt(j, c, z), end |-> ResetAt(j + 1, c, z)]
  <1> DEFINE R(i) == ResetAt(i, c, z)
  <1>1. PICK k \in Int : /\ Window(t, c, z) = [start |-> R(k), end |-> R(k + 1)]
                         /\ R(k) <= t /\ t < R(k + 1)
    BY WindowIs
  <1>2. j + 1 \in Int /\ k + 1 \in Int
    OBVIOUS
  <1>3. R(j) \in Int /\ R(j + 1) \in Int /\ R(k) \in Int /\ R(k + 1) \in Int
    BY <1>2, ResetInPeriod
  <1>4. (j + 1 <= k => R(j + 1) <= R(k)) /\ (k + 1 <= j => R(k + 1) <= R(j))
    BY <1>2, ResetsRise
  <1>5. R(j) <= t /\ t < R(j + 1)
    OBVIOUS
  <1> HIDE DEF R
  <1>6. ~(j + 1 <= k) /\ ~(k + 1 <= j)
    BY <1>1, <1>3, <1>4, <1>5
  <1>7. j = k
    BY <1>6
  <1> QED
    BY <1>1, <1>7 DEF R

\* The calendar at any instant of a zone.
LEMMA CalendarAt ==
  ASSUME NEW p, CivilZone(p.zone), Schedule(p.schedule), p.now \in Int
  PROVE  DayStartFirst(p) /\ WallTimeFirst(p) /\ WindowHolds(p) /\ WindowsTile(p)
  <1> DEFINE z == p.zone
             c == p.schedule
             t == p.now
             d == civilDay(z, t)
  <1> HIDE DEF z, c, t
  <1>1. CivilZone(z) /\ Schedule(c) /\ t \in Int
    BY DEF z, c, t
  <1>2. d \in Int /\ d + 1 \in Int
    BY <1>1, WallClock
  <1>3. First(d, z, DayStart(d, z))
    BY <1>1, <1>2, DayStartIs
  <1>4. DayStart(d, z) \in Int /\ DayStart(d + 1, z) \in Int /\ DayStart(d, z) <= DayStart(d + 1, z)
    BY <1>1, <1>2, StartsRise
  <1>5. DayStartFirst(p)
    <2> DEFINE s == DayStart(d, z)
    <2>1. s <= t
      BY <1>1, <1>2, <1>3, FirstIs
    <2>2. civilDay(z, s) <= d /\ d <= civilDay(z, s) /\ civilDay(z, s - 1) < d /\ civilDay(z, s) \in Int
      BY <1>1, <1>3, <1>4, <2>1, DatesAdvance, WallClock DEF First
    <2> HIDE DEF s, d
    <2>3. s <= t /\ civilDay(z, s) = d /\ civilDay(z, s - 1) < d
      BY <1>2, <2>1, <2>2
    <2> QED
      BY <2>3 DEF DayStartFirst, s, d, z, t
  <1>6. WallTimeFirst(p)
    <2> DEFINE s == DayStart(d, z)
               n == DayStart(d + 1, z)
               want == d * DayTicks + c.reset
               w == wallTime(d, c.reset, z)
               T == {n} \cup {u \in s..(n - 1) : local(z, u) >= want}
    <2>1. c.reset \in Nat /\ want \in Int
      BY <1>1, <1>2, CalendarAssumption DEF Schedule
    <2>2. Reaches(w, z, want, s, n)
      BY <1>1, <1>2, <2>1, WallTimeReaches
    <2> HIDE DEF s, n, want, w
    <2>3. s \in Int /\ n \in Int
      BY <1>4 DEF s, n
    <2>4. \A u \in s..n : local(z, u) \in Int
      BY <1>1, <2>3, WallClock
    <2>5. w \in s..n /\ (w = n \/ want <= local(z, w)) /\ \A u \in s..(w - 1) : local(z, u) < want
      BY <2>2 DEF Reaches
    <2>6. T \in SUBSET Int /\ w \in T
      BY <2>1, <2>3, <2>4, <2>5
    <2>7. \A y \in T : w <= y
      <3> SUFFICES ASSUME NEW y \in T PROVE w <= y
        OBVIOUS
      <3>1. CASE y = n
        BY <2>3, <2>5, <3>1
      <3>2. CASE y # n
        <4>1. y \in s..(n - 1) /\ want <= local(z, y) /\ local(z, y) \in Int
          BY <2>1, <2>3, <2>4, <3>2
        <4>2. ~(y \in s..(w - 1))
          BY <2>1, <2>5, <4>1
        <4> QED
          BY <2>3, <2>5, <4>1, <4>2
      <3> QED
        BY <3>1, <3>2
    <2> HIDE DEF T
    <2>8. w = Min(T)
      BY <2>6, <2>7, MinIs
    <2> QED
      BY <2>8 DEF WallTimeFirst, T, w, s, n, want, d, z, c, t
  <1>7. PICK j \in Int : /\ Window(t, c, z) = [start |-> ResetAt(j, c, z), end |-> ResetAt(j + 1, c, z)]
                         /\ ResetAt(j, c, z) <= t /\ t < ResetAt(j + 1, c, z)
    BY <1>1, WindowIs
  <1> DEFINE a == ResetAt(j, c, z)
             b == ResetAt(j + 1, c, z)
             w == Window(t, c, z)
  <1>8. j + 1 \in Int /\ a \in Int /\ b \in Int
    <2>1. j + 1 \in Int
      OBVIOUS
    <2> QED
      BY <1>1, <2>1, ResetInPeriod
  <1>9. w.start = a /\ w.end = b
    BY <1>7
  <1>10. WindowHolds(p)
    BY <1>7, <1>9 DEF WindowHolds, z, c, t
  <1>11. ASSUME NEW u \in a..(b - 1) PROVE Window(u, c, z) = w
    <2>1. u \in Int /\ a <= u /\ u < b
      BY <1>8
    <2> QED
      BY <1>1, <1>7, <2>1, WindowBetween
  <1>12. Window(b, c, z).start = b
    <2>1. PICK k \in Int : /\ Window(b, c, z) = [start |-> ResetAt(k, c, z), end |-> ResetAt(k + 1, c, z)]
                           /\ ResetAt(k, c, z) <= b /\ b < ResetAt(k + 1, c, z)
      BY <1>1, <1>8, WindowIs
    <2>2. k + 1 \in Int /\ ResetAt(k, c, z) \in Int /\ ResetAt(k + 1, c, z) \in Int
      BY <1>1, ResetInPeriod
    <2>3. k + 1 <= j + 1 => ResetAt(k + 1, c, z) <= b
      BY <1>1, <1>8, <2>2, ResetsRise
    <2>4. j + 1 <= k => b <= ResetAt(k, c, z)
      BY <1>1, <1>8, ResetsRise
    <2> HIDE DEF b
    <2>5. ResetAt(k, c, z) = b
      BY <1>8, <2>1, <2>2, <2>3, <2>4
    <2> QED
      BY <2>1, <2>5
  <1>13. WindowsTile(p)
    <2> HIDE DEF a, b, w
    <2>1. (\A u \in w.start..(w.end - 1) : Window(u, c, z) = w) /\ Window(w.end, c, z).start = w.end
      BY <1>9, <1>11, <1>12
    <2> QED
      BY <2>1 DEF WindowsTile, w, z, c, t
  <1> QED
    BY <1>5, <1>6, <1>10, <1>13

ProbesKnown == probes \subseteq [zone : CivilZones, schedule : Calendars, now : Nat]

\* Days and resets begin at the first instant that reaches them, and the windows hold their instants and
\* follow one another without gap or overlap (DayStart, wallTime, Window): for any zone, any
\* lengths of months and any time and day of the reset.
THEOREM CalendarIsSound == CalendarSpec => []CalendarSound
  <1>1. CalendarInit => ProbesKnown
    BY DEF CalendarInit, ProbesKnown
  <1>2. ProbesKnown /\ [CalendarNext]_calendarVars => ProbesKnown'
    <2> SUFFICES ASSUME ProbesKnown, [CalendarNext]_calendarVars PROVE ProbesKnown'
      OBVIOUS
    <2>1. CASE UNCHANGED calendarVars
      BY <2>1 DEF ProbesKnown, calendarVars
    <2>2. ASSUME NEW z \in CivilZones, NEW c \in Calendars, probes' = {[zone |-> z, schedule |-> c, now |-> 0]}
          PROVE  ProbesKnown'
      BY <2>2 DEF ProbesKnown
    <2>3. ASSUME NEW p \in probes, probes' = {[p EXCEPT !.now = p.now + 1]}
          PROVE  ProbesKnown'
      BY <2>3 DEF ProbesKnown
    <2> QED
      BY <2>1, <2>2, <2>3 DEF CalendarNext
  <1>3. ProbesKnown => CalendarSound
    <2> SUFFICES ASSUME ProbesKnown, NEW p \in probes
                 PROVE  DayStartFirst(p) /\ WallTimeFirst(p) /\ WindowHolds(p) /\ WindowsTile(p)
      BY DEF CalendarSound
    <2>1. p.zone \in CivilZones /\ p.schedule \in Calendars /\ p.now \in Int
      BY DEF ProbesKnown
    <2>2. CivilZone(p.zone)
      BY <2>1, ZonesAssumption DEF CivilZone
    <2>3. Schedule(p.schedule)
      BY <2>1, CalendarsAssumption DEF Schedule, validResetSchedule
    <2> QED
      BY <2>1, <2>2, <2>3, CalendarAt
  <1> QED
    BY <1>1, <1>2, <1>3, PTL DEF CalendarSpec
=============================================================================
