---------------------------- MODULE Usage_proofs ----------------------------
(***************************************************************************)
(* What Usage guarantees for every number of calls and instances, every    *)
(* plan and every length of the month.                                     *)
(***************************************************************************)
EXTENDS Usage, FiniteSetTheorems, TLAPS

\* The period of an instant before the horizon is one of the periods.
LEMMA MonthPeriod == \A t \in 0 .. Horizon - 1 : Month(t) \in Periods
<1> SUFFICES ASSUME NEW t \in 0 .. Horizon - 1 PROVE Month(t) \in Periods
  OBVIOUS
<1>1. MonthLen \in Nat /\ MonthLen > 0 /\ Months \in Nat
  BY UsageAssumption
<1> DEFINE q == t \div MonthLen
<1>2. q \in Int /\ MonthLen * q <= t /\ t < MonthLen * q + MonthLen
  BY <1>1 DEF Horizon
<1>3. t < Months * MonthLen /\ t >= 0
  BY <1>1 DEF Horizon
<1> HIDE DEF q
<1>4. q >= 0
  BY <1>1, <1>2, <1>3
<1>5. q < Months
  BY <1>1, <1>2, <1>3
<1> QED
  BY <1>1, <1>2, <1>4, <1>5 DEF Periods, Month, q

\* Keys without an expiry outlive the clock; the first instant is in it.
LEMMA Bounds == Horizon \in Nat /\ Forever \in Nat /\ Horizon > 0 /\ 0 \in Periods
<1>1. MonthLen \in Nat /\ MonthLen > 2 /\ Months \in Nat /\ Months > 0
  BY UsageAssumption
<1>2. Months * MonthLen \in Nat /\ Months * MonthLen > 0
  BY <1>1
<1> QED
  BY <1>1, <1>2 DEF Horizon, Forever, Periods

\* The TTLs of an instant are numbers.
LEMMA TTLInt == \A t \in 0 .. Horizon - 1 : TTLs(t) \subseteq Int
  BY MonthPeriod, Bounds, UsageAssumption DEF TTLs, Periods

\* A limit that has been read is a number.
LEMMA LimitsInt ==
    0 \in KnownLimits /\ Limits \subseteq KnownLimits /\ KnownLimits \subseteq Int
  BY UsageAssumption DEF KnownLimits

\* The initial state has the types of the keys, the rows and the calls.
LEMMA TypeInit == Init => TypeOK
  BY Bounds, LimitsInt DEF Init, TypeOK, NoCall, NoSync, NoRead, CallType, SyncType, ReaderType

\* No step of a call, a cron or the clock leaves the types.
LEMMA TypeStep == TypeOK /\ [Next]_vars => TypeOK'
<1> SUFFICES ASSUME TypeOK, [Next]_vars PROVE TypeOK'
  OBVIOUS
<1> USE Bounds DEF TypeOK
<1>n. NoCall \in CallType
  BY Bounds, LimitsInt DEF NoCall, CallType
<1>s. NoSync \in SyncType
  BY Bounds DEF NoSync, SyncType
<1>f. ASSUME NEW c \in Calls
      PROVE  /\ \A pc \in {"incr", "load", "fill"} :
                    [call EXCEPT ![c].pc = pc] \in [Calls -> CallType]
             /\ \A pc \in {"incr", "load", "fill"}, m \in Periods :
                    [call EXCEPT ![c].pc = pc, ![c].period = m] \in [Calls -> CallType]
             /\ \A pc \in {"incr", "load", "fill"}, l \in KnownLimits :
                    [call EXCEPT ![c].pc = pc, ![c].limit = l] \in [Calls -> CallType]
  <2>1. call[c] \in CallType /\ call \in [Calls -> CallType]
    OBVIOUS
  <2> HIDE DEF TypeOK
  <2>2. ASSUME NEW pc \in {"incr", "load", "fill"} PROVE [call[c] EXCEPT !.pc = pc] \in CallType
    BY <2>1 DEF CallType
  <2>3. ASSUME NEW pc \in {"incr", "load", "fill"}, NEW m \in Periods
        PROVE  [call[c] EXCEPT !.pc = pc, !.period = m] \in CallType
    BY <2>1 DEF CallType
  <2>4. ASSUME NEW pc \in {"incr", "load", "fill"}, NEW l \in KnownLimits
        PROVE  [call[c] EXCEPT !.pc = pc, !.limit = l] \in CallType
    BY <2>1 DEF CallType
  <2> QED
    BY <2>1, <2>2, <2>3, <2>4
<1>j. ASSUME NEW c \in Calls, NEW limit \in KnownLimits, Judged(c, limit)
      PROVE  call' \in [Calls -> CallType]
  <2>1. CASE Reached(call[c].count, limit)
    <3>1. PICK ttl \in TTLs(now) :
              call' = [call EXCEPT ![c].pc = "flag", ![c].ttl = ttl]
      BY <1>j, <2>1 DEF Judged
    <3>2. ttl \in Int
      BY <3>1, TTLInt
    <3>3. call[c] \in CallType /\ call \in [Calls -> CallType]
      OBVIOUS
    <3> HIDE DEF TypeOK
    <3>4. [call[c] EXCEPT !.pc = "flag", !.ttl = ttl] \in CallType
      BY <3>2, <3>3 DEF CallType
    <3> QED
      BY <3>1, <3>3, <3>4
  <2>2. CASE ~Reached(call[c].count, limit)
    BY <1>j, <1>n, <2>2 DEF Judged
  <2> QED
    BY <2>1, <2>2
<1>1. ASSUME NEW c \in Calls, Begin(c) PROVE TypeOK'
  <2>1. [NoCall EXCEPT !.pc = IF isLimitExceeded THEN "refused" ELSE "handler"]
            \in CallType
    BY LimitsInt DEF NoCall, CallType
  <2> QED
    BY <1>1, <2>1 DEF Begin
<1>2. ASSUME NEW c \in Calls, Handled(c) PROVE TypeOK'
  <2>1. Month(now) \in Periods
    BY MonthPeriod
  <2>2. call' \in [Calls -> CallType]
    BY <1>2, <2>1, <1>f DEF Handled
  <2> QED
    BY <1>2, <2>2 DEF Handled
<1>3. ASSUME NEW c \in Calls, HandlerThrows(c) PROVE TypeOK'
  BY <1>3, <1>n DEF HandlerThrows
<1>4. ASSUME NEW c \in Calls, incrementUsage(c) PROVE TypeOK'
  <2>1. call[c].period \in Periods
    BY DEF CallType
  <2> DEFINE n == counter[call[c].period] + 1
  <2>a. n \in Nat
    BY <2>1
  <2> DEFINE counted == [call[c] EXCEPT !.pc = "limit", !.count = n]
  <2>b. call' = [call EXCEPT ![c] = counted]
    BY <1>4 DEF incrementUsage
  <2>t. call[c] \in CallType
    OBVIOUS
  <2>c. counted \in CallType
    <3> HIDE DEF n, TypeOK
    <3> QED
      BY <2>a, <2>t DEF CallType
  <2> HIDE DEF n, counted
  <2>2. call' \in [Calls -> CallType]
    BY <2>b, <2>c
  <2> QED
    BY <1>4, <2>1, <2>2 DEF incrementUsage
<1>5. ASSUME NEW c \in Calls, LimitHit(c) PROVE TypeOK'
  BY <1>5, <1>j DEF LimitHit
<1>6. ASSUME NEW c \in Calls, LimitMiss(c) PROVE TypeOK'
  <2>1. call' \in [Calls -> CallType]
    BY <1>6, <1>f DEF LimitMiss
  <2> QED
    BY <1>6, <2>1 DEF LimitMiss
<1>7. ASSUME NEW c \in Calls, LimitLoad(c) PROVE TypeOK'
  <2>1. planLimit \in KnownLimits
    BY LimitsInt
  <2>2. call' \in [Calls -> CallType]
    BY <1>7, <2>1, <1>f DEF LimitLoad
  <2> QED
    BY <1>7, <2>2 DEF LimitLoad
<1>8. ASSUME NEW c \in Calls, LimitFill(c) PROVE TypeOK'
  <2>1. call[c].limit \in KnownLimits
    BY DEF CallType
  <2>2. call' \in [Calls -> CallType]
    BY <1>8, <1>j, <2>1 DEF LimitFill
  <2> QED
    BY <1>8, <2>1, <2>2, UsageAssumption DEF LimitFill, Filled
<1>9. ASSUME NEW c \in Calls, setLimitExceeded(c) PROVE TypeOK'
  <2>1. call[c].ttl \in Int
    BY DEF CallType
  <2>2. flag' \in Nat
    <3>1. CASE call[c].ttl > 0
      BY <1>9, <2>1, <3>1 DEF setLimitExceeded
    <3>2. CASE call[c].ttl = 0
      BY <1>9, <3>2 DEF setLimitExceeded
    <3>3. CASE call[c].ttl < 0
      BY <1>9, <3>3 DEF setLimitExceeded
    <3> QED
      BY <2>1, <3>1, <3>2, <3>3
  <2> QED
    BY <1>9, <1>n, <2>2 DEF setLimitExceeded
<1>10. CASE updatePlan
  BY <1>10 DEF updatePlan
<1>11. ASSUME NEW i \in Instances, ResetCounters(i) PROVE TypeOK'
  BY <1>11 DEF ResetCounters
<1>12. ASSUME NEW i \in Instances, ResetFlags(i) PROVE TypeOK'
  BY <1>12 DEF ResetFlags
<1>13. ASSUME NEW i \in Instances, SyncScan(i) PROVE TypeOK'
  <2>1. [NoSync EXCEPT !.pc = "get", !.left = {m \in Periods : counter[m] > 0}]
            \in SyncType
    BY DEF NoSync, SyncType
  <2> QED
    BY <1>13, <2>1 DEF SyncScan
<1>14. ASSUME NEW i \in Instances, SyncGet(i) PROVE TypeOK'
  <2>1. PICK m \in sync[i].left :
            \/ sync' = [sync EXCEPT ![i].pc = "upsert", ![i].left = @ \ {m},
                                    ![i].period = m, ![i].value = counter[m]]
            \/ sync' = [sync EXCEPT ![i].left = @ \ {m}]
    BY <1>14 DEF SyncGet
  <2>2. m \in Periods /\ counter[m] \in Nat
    BY DEF SyncType
  <2>3. sync[i] \in SyncType /\ sync \in [Instances -> SyncType]
    OBVIOUS
  <2>4. sync' \in [Instances -> SyncType]
    <3> HIDE DEF TypeOK
    <3>1. CASE sync' = [sync EXCEPT ![i].left = @ \ {m}]
      BY <2>3, <3>1 DEF SyncType
    <3>2. CASE sync' = [sync EXCEPT ![i].pc = "upsert", ![i].left = @ \ {m},
                                    ![i].period = m, ![i].value = counter[m]]
      BY <2>2, <2>3, <3>2 DEF SyncType
    <3> QED
      BY <2>1, <3>1, <3>2
  <2> QED
    BY <1>14, <2>4 DEF SyncGet
<1>15. ASSUME NEW i \in Instances, SyncUpsert(i) PROVE TypeOK'
  <2>1. sync[i].value \in Nat
    BY DEF SyncType
  <2>2. sync' \in [Instances -> SyncType]
    <3>1. sync[i] \in SyncType /\ sync \in [Instances -> SyncType]
      OBVIOUS
    <3>2. sync' = [sync EXCEPT ![i].pc = "get"]
      BY <1>15 DEF SyncUpsert
    <3> HIDE DEF TypeOK
    <3> QED
      BY <3>1, <3>2 DEF SyncType
  <2> QED
    BY <1>15, <2>1, <2>2 DEF SyncUpsert
<1>16. ASSUME NEW i \in Instances, SyncFails(i) PROVE TypeOK'
  BY <1>16 DEF SyncFails, SyncType
<1>17. ASSUME NEW i \in Instances, SyncEnd(i) PROVE TypeOK'
  BY <1>17, <1>s DEF SyncEnd
<1>18. CASE Tick
  BY <1>18 DEF Tick
<1>19. ASSUME NEW i \in Instances, CronsDie(i) PROVE TypeOK'
  BY <1>19, <1>s DEF CronsDie
<1>20. ASSUME NEW c \in Calls, Cut(c) PROVE TypeOK'
  <2>1. call[c].limit \in KnownLimits
    BY DEF CallType
  <2>2. limitKey' \in [value : KnownLimits, until : Nat]
    BY <1>20, <2>1, UsageAssumption DEF Cut, CallFails, CallDies, Filled
  <2> QED
    BY <1>20, <1>n, <2>2 DEF Cut, CallFails, CallDies
<1>22. ASSUME NEW r \in Readers, Read(r) PROVE TypeOK'
  <2>1. NoRead \in ReaderType /\ planLimit \in KnownLimits
        /\ reader[r].limit \in KnownLimits
    BY LimitsInt DEF NoRead, ReaderType
  <2>2. reader' \in [Readers -> ReaderType]
    <3>1. reader \in [Readers -> ReaderType] /\ reader[r] \in ReaderType
      OBVIOUS
    <3> HIDE DEF TypeOK
    <3>2. CASE ReadMiss(r)
      BY <3>1, <3>2 DEF ReadMiss, ReaderType
    <3>3. CASE ReadLoad(r)
      BY <2>1, <3>1, <3>3 DEF ReadLoad, ReaderType
    <3>4. CASE ReadFill(r) \/ ReadFails(r)
      BY <2>1, <3>1, <3>4 DEF ReadFill, ReadFails
    <3> QED
      BY <1>22, <3>2, <3>3, <3>4 DEF Read
  <2>3. limitKey' \in [value : KnownLimits, until : Nat]
    BY <1>22, <2>1, UsageAssumption
    DEF Read, ReadMiss, ReadLoad, ReadFill, ReadFails, Filled
  <2> QED
    BY <1>22, <2>2, <2>3 DEF Read, ReadMiss, ReadLoad, ReadFill, ReadFails
<1>21. CASE UNCHANGED vars
  BY <1>21 DEF vars
<1> QED
  BY <1>1, <1>2, <1>3, <1>4, <1>5, <1>6, <1>7, <1>8, <1>9, <1>10, <1>11,
     <1>12, <1>13, <1>14, <1>15, <1>16, <1>17, <1>18, <1>19, <1>20, <1>21, <1>22
  DEF Next, Log, Reset, Sync

\* The types of Usage hold in every reachable state.
THEOREM TypeCorrect == Spec => []TypeOK
  BY TypeInit, TypeStep, PTL DEF Spec

-----------------------------------------------------------------------------
(***************************************************************************)
(* The rows of Postgres.  The counter of a period never exceeds the calls  *)
(* made in it (the reset only lowers it), so neither does the value a sync *)
(* has read and will write, however late.                                  *)
(***************************************************************************)
Honest ==
    /\ \A m \in Periods : counter[m] <= served[m] /\ record[m] <= served[m]
    /\ \A i \in Instances :
           sync[i].pc = "upsert" => sync[i].value <= served[sync[i].period]

\* Nothing is counted or recorded yet.
LEMMA HonestInit == Init => Honest
  BY DEF Init, Honest, NoSync

\* The INCR moves both sides, the reset lowers one, the sync copies.
LEMMA HonestStep == TypeOK /\ Honest /\ [Next]_vars => Honest'
<1> SUFFICES ASSUME TypeOK, Honest, [Next]_vars PROVE Honest'
  OBVIOUS
<1> DEFINE Counts == <<counter, served, record, sync>>
<1>0. ASSUME UNCHANGED Counts PROVE Honest'
  BY <1>0 DEF Honest
<1>1. ASSUME NEW c \in Calls, incrementUsage(c) PROVE Honest'
  <2>1. call[c].period \in Periods
    BY DEF TypeOK, CallType
  <2>2. \A m \in Periods : served[m] \in Nat /\ served'[m] \in Nat
                          /\ counter[m] \in Nat /\ served[m] <= served'[m]
    BY <1>1, <2>1 DEF incrementUsage, TypeOK
  <2>3. \A m \in Periods : counter'[m] <= served'[m]
    BY <1>1, <2>1, <2>2 DEF incrementUsage, TypeOK, Honest
  <2>4. \A m \in Periods : record'[m] <= served'[m]
    BY <1>1, <2>2 DEF incrementUsage, TypeOK, Honest
  <2>5. \A i \in Instances : sync'[i].pc = "upsert"
                                => sync'[i].value <= served'[sync'[i].period]
    <3> SUFFICES ASSUME NEW i \in Instances, sync[i].pc = "upsert"
                 PROVE  sync[i].value <= served'[sync[i].period]
      BY <1>1 DEF incrementUsage
    <3>1. sync[i].value \in Nat /\ sync[i].period \in Periods
      BY DEF TypeOK, SyncType
    <3> QED
      BY <2>2, <3>1 DEF Honest
  <2> QED
    BY <2>3, <2>4, <2>5 DEF Honest
<1>2. ASSUME NEW i \in Instances, ResetCounters(i) PROVE Honest'
  BY <1>2 DEF ResetCounters, Honest, TypeOK
<1>3. ASSUME NEW i \in Instances, SyncGet(i) PROVE Honest'
  <2>1. PICK m \in Periods :
            \/ sync' = [sync EXCEPT ![i].pc = "upsert", ![i].left = @ \ {m},
                                    ![i].period = m, ![i].value = counter[m]]
            \/ sync' = [sync EXCEPT ![i].left = @ \ {m}]
    BY <1>3 DEF SyncGet, TypeOK, SyncType
  <2>2. \A j \in Instances \ {i} : sync'[j] = sync[j]
    BY <2>1 DEF TypeOK
  <2>3. sync'[i].pc = "upsert"
          => sync'[i].value = counter[m] /\ sync'[i].period = m
    BY <1>3, <2>1 DEF SyncGet, TypeOK, SyncType
  <2> QED
    BY <1>3, <2>2, <2>3 DEF SyncGet, Honest
<1>4. ASSUME NEW i \in Instances, SyncUpsert(i) PROVE Honest'
  <2>1. \A j \in Instances : sync'[j].pc = "upsert" => sync'[j] = sync[j]
    BY <1>4 DEF SyncUpsert, TypeOK, SyncType
  <2>2. \A m \in Periods : record'[m] <= served[m]
    BY <1>4 DEF SyncUpsert, Honest, TypeOK, SyncType
  <2> QED
    BY <1>4, <2>1, <2>2 DEF SyncUpsert, Honest
<1>5. ASSUME NEW i \in Instances,
             SyncScan(i) \/ SyncFails(i) \/ SyncEnd(i) \/ CronsDie(i)
      PROVE  Honest'
  <2>1. \A j \in Instances : sync'[j].pc = "upsert" => sync'[j] = sync[j]
    <3>0. sync \in [Instances -> SyncType] /\ NoSync.pc = "idle"
      BY DEF TypeOK, NoSync
    <3>1. CASE SyncScan(i)
      BY <3>0, <3>1 DEF SyncScan, NoSync
    <3>2. CASE SyncFails(i)
      BY <3>0, <3>2 DEF SyncFails, SyncType
    <3>3. CASE SyncEnd(i) \/ CronsDie(i)
      BY <3>0, <3>3 DEF SyncEnd, CronsDie
    <3> QED
      BY <1>5, <3>1, <3>2, <3>3
  <2>2. UNCHANGED <<counter, record, served>>
    BY <1>5 DEF SyncScan, SyncFails, SyncEnd, CronsDie
  <2> QED
    BY <2>1, <2>2 DEF Honest
<1>6. ASSUME NEW c \in Calls,
             \/ Begin(c) \/ Handled(c) \/ HandlerThrows(c) \/ LimitHit(c)
             \/ LimitMiss(c) \/ LimitLoad(c) \/ LimitFill(c)
             \/ setLimitExceeded(c) \/ Cut(c)
      PROVE  UNCHANGED Counts
  BY <1>6 DEF Begin, Handled, HandlerThrows, LimitHit, LimitMiss, LimitLoad,
              LimitFill, setLimitExceeded, Cut, CallFails, CallDies
<1>7. ASSUME (\E i \in Instances : ResetFlags(i)) \/ (\E r \in Readers : Read(r)) \/ updatePlan \/ Tick
             \/ UNCHANGED vars
      PROVE  UNCHANGED Counts
  BY <1>7 DEF ResetFlags, updatePlan, Tick, vars, Read, ReadMiss, ReadLoad, ReadFill,
              ReadFails
<1> HIDE DEF Counts
<1> QED
  BY <1>0, <1>1, <1>2, <1>3, <1>4, <1>5, <1>6, <1>7
  DEF Next, Log, Reset, Sync

\* The row of a period never shows more calls than were made in it, whatever
\* the calls, the resets and the syncs of all instances do, crashes included.
THEOREM RecordCorrect == Spec => []RecordHonest
<1>1. Honest => RecordHonest
  BY DEF Honest, RecordHonest
<1> QED
  BY <1>1, TypeInit, TypeStep, HonestInit, HonestStep, PTL DEF Spec

-----------------------------------------------------------------------------
(***************************************************************************)
(* The limit of the first month, for a plan that is not switched,          *)
(* instances that do not die and commands that do not fail.  No reset runs in it (Quiet); every copy of  *)
(* the limit is the plan's (LimitKnown); a flag that is up, or whose SET is *)
(* on its way, lasts to the month's last two seconds (FlagLasts); and once *)
(* the limit is used up the flag is up or a call that will raise it is in  *)
(* flight (Accounted).                                                     *)
(***************************************************************************)
Quiet == now < MonthLen => \A i \in Instances : reset[i] = "idle"

LimitKnown ==
    /\ limitKey.until > 0 => limitKey.value = planLimit
    /\ \A c \in Calls : call[c].pc = "fill" => call[c].limit = planLimit
    /\ \A r \in Readers : reader[r].pc = "fill" => reader[r].limit = planLimit

FlagLasts ==
    now < MonthLen - 2 =>
        /\ flag # 0 => flag >= MonthLen - 2
        /\ \A c \in Calls : call[c].pc = "flag"
                => call[c].ttl > 0 /\ now + call[c].ttl >= MonthLen - 2

Raises(c) == /\ call[c].pc \in {"limit", "load", "fill", "flag"}
             /\ UsedUp(call[c].count)

Accounted ==
    now < MonthLen - 2 /\ counter[0] > 0 /\ UsedUp(counter[0])
        => flag # 0 \/ \E c \in Calls : Raises(c)

LimitInv == Quiet /\ LimitKnown /\ FlagLasts /\ Accounted

\* The first month's instants.
LEMMA FirstMonth == \A t \in Nat : t < MonthLen => Month(t) = 0
  BY UsageAssumption DEF Month

\* A TTL taken before the month's last two seconds reaches them.
LEMMA TTLReaches ==
  ASSUME NEW t \in Nat, t < MonthLen - 2, NEW ttl \in TTLs(t)
  PROVE  ttl \in Int /\ ttl > 0 /\ t + ttl >= MonthLen - 2
<1>1. Month(t) = 0
  BY FirstMonth, UsageAssumption
<1>2. ttl \in {MonthLen * 1 - 1 - t, MonthLen * 1 - 1 - t - 1}
  BY <1>1 DEF TTLs
<1> QED
  BY <1>2, UsageAssumption

\* No call has been counted, and no key is set.
LEMMA LimitInit == Init => LimitInv
<1>1. Init => counter[0] = 0
  BY Bounds DEF Init
<1> QED
  BY <1>1, UsageAssumption
  DEF Init, NoCall, NoRead, LimitInv, Quiet, LimitKnown, FlagLasts, Accounted

\* The resets stay idle before the first month ends.
LEMMA QuietStep == TypeOK /\ Quiet /\ [Next]_vars => Quiet'
<1> SUFFICES ASSUME TypeOK, Quiet, [Next]_vars, now' < MonthLen
             PROVE  \A i \in Instances : reset'[i] = "idle"
  BY DEF Quiet
<1>t. now \in Nat
  BY Bounds DEF TypeOK
<1>1. CASE Tick
  <2>1. now < MonthLen /\ Month(now + 1) = Month(now)
    BY <1>1, <1>t, FirstMonth, UsageAssumption DEF Tick
  <2> QED
    BY <1>1, <2>1 DEF Tick, Quiet
<1>2. ASSUME NEW i \in Instances, Reset(i) PROVE FALSE
  BY <1>2 DEF Reset, ResetCounters, ResetFlags, Quiet
<1>3. ASSUME NEW i \in Instances, CronsDie(i)
      PROVE  \A j \in Instances : reset'[j] = "idle"
  BY <1>3 DEF CronsDie, Quiet, TypeOK
<1>4. ASSUME UNCHANGED <<now, reset>>
      PROVE  \A i \in Instances : reset'[i] = "idle"
  BY <1>4 DEF Quiet
<1>5. ASSUME \/ \E c \in Calls : Begin(c) \/ Log(c) \/ Cut(c)
             \/ \E r \in Readers : Read(r)
             \/ \E i \in Instances : Sync(i)
             \/ updatePlan \/ UNCHANGED vars
      PROVE  UNCHANGED <<now, reset>>
  BY <1>5 DEF Begin, Log, Handled, HandlerThrows, incrementUsage, LimitHit,
              LimitMiss, LimitLoad, LimitFill, setLimitExceeded, Cut, CallFails,
              CallDies, Read, ReadMiss, ReadLoad, ReadFill, ReadFails,
              Sync, SyncScan, SyncGet, SyncUpsert, SyncFails, SyncEnd,
              updatePlan, vars
<1> QED
  BY <1>1, <1>2, <1>3, <1>4, <1>5 DEF Next

\* What a step of one call leaves of the others, and when none is touched.
LEMMA OneCall ==
  ASSUME TypeOK, NEW c \in Calls, Begin(c) \/ Log(c)
  PROVE  /\ \A d \in Calls \ {c} : call'[d] = call[d]
         /\ UNCHANGED <<now, planLimit, reset, reader>>
<1>1. CASE LimitHit(c)
  BY <1>1 DEF LimitHit, Judged, TypeOK
<1>2. CASE LimitFill(c)
  BY <1>2 DEF LimitFill, Judged, TypeOK
<1>3. CASE Begin(c) \/ Handled(c) \/ HandlerThrows(c)
  BY <1>3 DEF Begin, Handled, HandlerThrows, TypeOK
<1>4. CASE incrementUsage(c) \/ LimitMiss(c) \/ LimitLoad(c) \/ setLimitExceeded(c)
  BY <1>4 DEF incrementUsage, LimitMiss, LimitLoad, setLimitExceeded, TypeOK
<1> QED
  BY <1>1, <1>2, <1>3, <1>4 DEF Log

LEMMA NoCallStep ==
  ASSUME [Next]_vars, ~MayChange, ~MayCrash, ~MayFail,
         ~(\E c \in Calls : Begin(c) \/ Log(c))
  PROVE  /\ UNCHANGED <<call, planLimit>>
         /\ ~(\E r \in Readers : Read(r)) => UNCHANGED <<limitKey, reader>>
<1>1. CASE Tick \/ UNCHANGED vars
  BY <1>1 DEF Tick, vars
<1>2. ASSUME NEW i \in Instances, Reset(i) \/ Sync(i) \/ CronsDie(i)
      PROVE  UNCHANGED <<call, planLimit, limitKey, reader>>
  BY <1>2 DEF Reset, ResetCounters, ResetFlags, Sync, SyncScan, SyncGet,
              SyncUpsert, SyncFails, SyncEnd, CronsDie
<1>3. ~updatePlan /\ \A c \in Calls : ~Cut(c)
  BY DEF updatePlan, Cut, CallFails, CallDies
<1>4. ASSUME NEW r \in Readers, Read(r) PROVE UNCHANGED <<call, planLimit>>
  BY <1>4 DEF Read, ReadMiss, ReadLoad, ReadFill, ReadFails
<1> QED
  BY <1>1, <1>2, <1>3, <1>4 DEF Next

\* A reader's step: it takes the plan's limit or caches the one it took.
LEMMA OneRead ==
  ASSUME TypeOK, NEW r \in Readers, Read(r)
  PROVE  /\ UNCHANGED <<now, planLimit, counter, flag, call, reset, served>>
         /\ \A s \in Readers \ {r} : reader'[s] = reader[s]
         /\ reader'[r].pc = "fill" => reader'[r].limit = planLimit
         /\ \/ limitKey' = limitKey
            \/ reader[r].pc = "fill" /\ limitKey'.value = reader[r].limit
<1>1. CASE ReadMiss(r)
  BY <1>1 DEF ReadMiss, TypeOK, ReaderType
<1>2. CASE ReadLoad(r)
  BY <1>2 DEF ReadLoad, TypeOK, ReaderType
<1>3. CASE ReadFill(r)
  BY <1>3 DEF ReadFill, Filled, NoRead, TypeOK, ReaderType
<1>4. CASE ReadFails(r)
  BY <1>4 DEF ReadFails, NoRead, TypeOK, ReaderType
<1> QED
  BY <1>1, <1>2, <1>3, <1>4 DEF Read

\* A call that is judged either ends under the limit or sends the flag.
LEMMA JudgedCall ==
  ASSUME TypeOK, NEW c \in Calls, NEW limit, Judged(c, limit)
  PROVE  \/ ~Reached(call[c].count, limit) /\ call'[c] = NoCall
         \/ /\ Reached(call[c].count, limit)
            /\ call'[c].pc = "flag"
            /\ call'[c].ttl \in TTLs(now)
            /\ call'[c].count = call[c].count
<1>1. CASE Reached(call[c].count, limit)
  <2>1. PICK ttl \in TTLs(now) :
            call' = [call EXCEPT ![c].pc = "flag", ![c].ttl = ttl]
    BY <1>1 DEF Judged
  <2> QED
    BY <1>1, <2>1 DEF TypeOK, CallType
<1>2. CASE ~Reached(call[c].count, limit)
  BY <1>2 DEF Judged, TypeOK
<1> QED
  BY <1>1, <1>2

\* A limit is cached or carried only as the plan's.
LEMMA LimitKnownStep ==
  TypeOK /\ LimitKnown /\ [Next]_vars /\ ~MayChange /\ ~MayCrash /\ ~MayFail => LimitKnown'
<1> SUFFICES ASSUME TypeOK, LimitKnown, [Next]_vars, ~MayChange, ~MayCrash, ~MayFail
             PROVE  LimitKnown'
  OBVIOUS
<1>1. CASE ~(\E c \in Calls : Begin(c) \/ Log(c))
  <2>1. UNCHANGED <<call, planLimit>>
    BY <1>1, NoCallStep
  <2>2. ASSUME NEW r \in Readers, Read(r) PROVE LimitKnown'
    BY <2>1, <2>2, OneRead DEF LimitKnown, TypeOK
  <2>3. CASE ~(\E r \in Readers : Read(r))
    BY <1>1, <2>1, <2>3, NoCallStep DEF LimitKnown
  <2> QED
    BY <2>2, <2>3
<1>2. ASSUME NEW c \in Calls, Begin(c) \/ Log(c) PROVE LimitKnown'
  <2>0. /\ \A d \in Calls \ {c} : call'[d] = call[d]
        /\ UNCHANGED <<now, planLimit, reset, reader>>
    BY <1>2, OneCall
  <2>1. CASE LimitLoad(c)
    BY <2>0, <2>1 DEF LimitLoad, LimitKnown, TypeOK, CallType
  <2>2. CASE LimitFill(c)
    <3>1. call'[c].pc # "fill"
      BY <2>2, JudgedCall DEF LimitFill, NoCall
    <3>2. limitKey'.value = planLimit
      BY <2>2 DEF LimitFill, LimitKnown, Filled
    <3> QED
      BY <2>0, <3>1, <3>2 DEF LimitKnown
  <2>3. CASE LimitHit(c)
    <3>1. call'[c].pc # "fill"
      BY <2>3, JudgedCall DEF LimitHit, NoCall
    <3> QED
      BY <2>0, <2>3, <3>1 DEF LimitHit, LimitKnown
  <2>4. CASE Begin(c) \/ Handled(c) \/ HandlerThrows(c)
    <3>1. call'[c].pc # "fill" /\ UNCHANGED limitKey
      BY <2>4 DEF Begin, Handled, HandlerThrows, NoCall, TypeOK, CallType
    <3> QED
      BY <2>0, <3>1 DEF LimitKnown
  <2>5. CASE incrementUsage(c) \/ LimitMiss(c) \/ setLimitExceeded(c)
    <3>1. call'[c].pc # "fill" /\ UNCHANGED limitKey
      BY <2>5 DEF incrementUsage, LimitMiss, setLimitExceeded, NoCall, TypeOK, CallType
    <3> QED
      BY <2>0, <3>1 DEF LimitKnown
  <2> QED
    BY <1>2, <2>1, <2>2, <2>3, <2>4, <2>5 DEF Log
<1> QED
  BY <1>1, <1>2

\* A flag is set in the first month with the TTL that reaches its end.
LEMMA FlagLastsStep ==
  TypeOK /\ LimitInv /\ [Next]_vars /\ ~MayChange /\ ~MayCrash /\ ~MayFail => FlagLasts'
<1> SUFFICES ASSUME TypeOK, LimitInv, [Next]_vars, ~MayChange, ~MayCrash, ~MayFail,
                    now' < MonthLen - 2
             PROVE  /\ flag' # 0 => flag' >= MonthLen - 2
                    /\ \A c \in Calls : call'[c].pc = "flag"
                          => call'[c].ttl > 0 /\ now' + call'[c].ttl >= MonthLen - 2
  BY DEF FlagLasts
<1>t. now \in Nat /\ flag \in Nat /\ \A c \in Calls : call[c].ttl \in Int
  BY Bounds DEF TypeOK, CallType
<1>n. now' \in {now, now + 1}
  <2>1. CASE Tick
    BY <2>1 DEF Tick
  <2>2. ASSUME NEW c \in Calls, Begin(c) \/ Log(c) PROVE now' = now
    BY <2>2, OneCall
  <2>3. ASSUME NEW i \in Instances, Reset(i) \/ Sync(i) \/ CronsDie(i) PROVE now' = now
    BY <2>3 DEF Reset, ResetCounters, ResetFlags, Sync, SyncScan, SyncGet,
                SyncUpsert, SyncFails, SyncEnd, CronsDie
  <2>4. CASE updatePlan \/ (\E c \in Calls : Cut(c))
          \/ (\E r \in Readers : Read(r)) \/ UNCHANGED vars
    BY <2>4 DEF updatePlan, Cut, CallFails, CallDies, Read, ReadMiss, ReadLoad,
                ReadFill, ReadFails, vars
  <2> QED
    BY <2>1, <2>2, <2>3, <2>4 DEF Next
<1>l. /\ now < MonthLen - 2
      /\ flag # 0 => flag >= MonthLen - 2
      /\ \A c \in Calls : call[c].pc = "flag"
            => call[c].ttl > 0 /\ now + call[c].ttl >= MonthLen - 2
  BY <1>t, <1>n, UsageAssumption DEF LimitInv, FlagLasts
<1>1. CASE ~(\E c \in Calls : Begin(c) \/ Log(c))
  <2>1. flag' \in {flag, 0}
    <3>1. ASSUME NEW i \in Instances, Reset(i) \/ Sync(i) \/ CronsDie(i)
          PROVE  flag' \in {flag, 0}
      BY <3>1 DEF Reset, ResetCounters, ResetFlags, Sync, SyncScan, SyncGet,
                  SyncUpsert, SyncFails, SyncEnd, CronsDie
    <3>2. CASE Tick \/ updatePlan \/ (\E c \in Calls : Cut(c))
          \/ (\E r \in Readers : Read(r)) \/ UNCHANGED vars
      BY <3>2 DEF Tick, updatePlan, Cut, CallFails, CallDies, Read, ReadMiss, ReadLoad,
                ReadFill, ReadFails, vars
    <3> QED
      BY <1>1, <3>1, <3>2 DEF Next
  <2>2. call' = call
    BY <1>1, NoCallStep
  <2> QED
    BY <1>t, <1>n, <1>l, <2>1, <2>2, UsageAssumption
<1>2. ASSUME NEW c \in Calls, Begin(c) \/ Log(c)
      PROVE  /\ flag' # 0 => flag' >= MonthLen - 2
             /\ \A d \in Calls : call'[d].pc = "flag"
                   => call'[d].ttl > 0 /\ now' + call'[d].ttl >= MonthLen - 2
  <2>0. /\ \A d \in Calls \ {c} : call'[d] = call[d]
        /\ UNCHANGED <<now, planLimit, reset, reader>>
    BY <1>2, OneCall
  <2>1. CASE setLimitExceeded(c)
    <3>1. call[c].pc = "flag" /\ call[c].ttl > 0
      BY <1>l, <2>1 DEF setLimitExceeded
    <3>2. flag' = now + call[c].ttl
      BY <1>t, <2>1, <3>1 DEF setLimitExceeded
    <3>3. call'[c].pc = "idle"
      BY <2>1 DEF setLimitExceeded, NoCall, TypeOK
    <3> QED
      BY <1>l, <2>0, <3>1, <3>2, <3>3
  <2>2. CASE LimitHit(c) \/ LimitFill(c)
    <3>1. PICK limit : Judged(c, limit) /\ flag' = flag
      BY <2>2 DEF LimitHit, LimitFill
    <3>2. call'[c].pc = "idle" \/ call'[c].ttl \in TTLs(now)
      BY <3>1, JudgedCall DEF NoCall
    <3>3. call'[c].pc = "flag" => call'[c].ttl > 0 /\ now + call'[c].ttl >= MonthLen - 2
      BY <1>t, <1>l, <3>2, TTLReaches
    <3> QED
      BY <1>l, <2>0, <3>1, <3>3
  <2>3. CASE Begin(c) \/ Handled(c) \/ HandlerThrows(c)
    <3>1. call'[c].pc # "flag" /\ UNCHANGED flag
      BY <2>3 DEF Begin, Handled, HandlerThrows, NoCall, TypeOK, CallType
    <3> QED
      BY <1>l, <2>0, <3>1
  <2>4. CASE incrementUsage(c) \/ LimitMiss(c) \/ LimitLoad(c)
    <3>1. call'[c].pc # "flag" /\ UNCHANGED flag
      BY <2>4 DEF incrementUsage, LimitMiss, LimitLoad, TypeOK, CallType
    <3> QED
      BY <1>l, <2>0, <3>1
  <2> QED
    BY <1>2, <2>1, <2>2, <2>3, <2>4 DEF Log
<1> QED
  BY <1>1, <1>2

\* The call that reaches the limit raises the flag before it ends.
LEMMA AccountedStep ==
  TypeOK /\ LimitInv /\ [Next]_vars /\ ~MayChange /\ ~MayCrash /\ ~MayFail => Accounted'
<1> SUFFICES ASSUME TypeOK, LimitInv, [Next]_vars, ~MayChange, ~MayCrash, ~MayFail,
                    now' < MonthLen - 2, counter'[0] > 0, UsedUp(counter[0])'
             PROVE  flag' # 0 \/ \E c \in Calls : Raises(c)'
  BY DEF Accounted
<1>t. /\ now \in Nat /\ counter[0] \in Nat
      /\ \A c \in Calls : call[c].ttl \in Int /\ call[c].period \in Periods
  BY Bounds DEF TypeOK, CallType
<1>1. CASE ~(\E c \in Calls : Begin(c) \/ Log(c))
  <2>1. UNCHANGED <<call, planLimit>>
    BY <1>1, NoCallStep
  <2>2. now' \in {now, now + 1} /\ UNCHANGED <<counter, flag>>
    <3>1. ASSUME NEW i \in Instances, Sync(i) \/ CronsDie(i)
          PROVE  UNCHANGED <<now, counter, flag>>
      BY <3>1 DEF Sync, SyncScan, SyncGet, SyncUpsert, SyncFails, SyncEnd, CronsDie
    <3>2. ASSUME NEW i \in Instances, Reset(i) PROVE FALSE
      <4>1. now' = now
        BY <3>2 DEF Reset, ResetCounters, ResetFlags
      <4>2. reset[i] = "idle"
        BY <1>t, <4>1, UsageAssumption DEF LimitInv, Quiet
      <4> QED
        BY <3>2, <4>2 DEF Reset, ResetCounters, ResetFlags
    <3>3. CASE Tick \/ updatePlan \/ (\E c \in Calls : Cut(c))
          \/ (\E r \in Readers : Read(r)) \/ UNCHANGED vars
      BY <3>3 DEF Tick, updatePlan, Cut, CallFails, CallDies, Read, ReadMiss, ReadLoad,
                ReadFill, ReadFails, vars
    <3> QED
      BY <1>1, <3>1, <3>2, <3>3 DEF Next
  <2>3. now < MonthLen - 2
    BY <1>t, <2>2, UsageAssumption
  <2>4. flag # 0 \/ \E c \in Calls : Raises(c)
    BY <2>1, <2>2, <2>3 DEF LimitInv, Accounted, UsedUp
  <2> QED
    BY <2>1, <2>2, <2>4 DEF Raises, UsedUp
<1>2. ASSUME NEW c \in Calls, Begin(c) \/ Log(c)
      PROVE  flag' # 0 \/ \E d \in Calls : Raises(d)'
  <2>0. /\ \A d \in Calls \ {c} : call'[d] = call[d]
        /\ now' = now /\ planLimit' = planLimit
    BY <1>2, OneCall
  <2>a. ASSUME counter'[0] = counter[0], flag' = flag, Raises(c) => Raises(c)'
        PROVE  flag' # 0 \/ \E d \in Calls : Raises(d)'
    <3>1. flag # 0 \/ \E d \in Calls : Raises(d)
      BY <2>0, <2>a DEF LimitInv, Accounted, UsedUp
    <3>2. ASSUME NEW d \in Calls \ {c}, Raises(d) PROVE Raises(d)'
      BY <2>0, <3>2 DEF Raises, UsedUp
    <3> QED
      BY <2>a, <3>1, <3>2
  <2>1. CASE incrementUsage(c)
    <3>1. call[c].pc = "incr" /\ flag' = flag
      BY <2>1 DEF incrementUsage
    <3>2. CASE call[c].period = 0
      <4>1. call'[c].pc = "limit" /\ call'[c].count = counter'[0]
        BY <1>t, <2>1, <3>2, Bounds DEF incrementUsage, TypeOK, CallType
      <4> QED
        BY <4>1 DEF Raises
    <3>3. CASE call[c].period # 0
      <4>1. counter'[0] = counter[0]
        BY <2>1, <3>3, Bounds DEF incrementUsage, TypeOK
      <4> QED
        BY <2>a, <3>1, <4>1 DEF Raises
    <3> QED
      BY <3>2, <3>3
  <2>2. CASE LimitHit(c) \/ LimitFill(c)
    <3>1. Judged(c, planLimit) /\ UNCHANGED <<counter, flag>>
      BY <1>t, <2>2 DEF LimitHit, LimitFill, LimitInv, LimitKnown, TypeOK
    <3>2. Raises(c) => Raises(c)'
      BY <2>0, <3>1, JudgedCall DEF Raises, UsedUp, Reached
    <3> QED
      BY <2>a, <3>1, <3>2
  <2>3. CASE setLimitExceeded(c)
    <3>1. call[c].pc = "flag" /\ call[c].ttl > 0
      BY <2>0, <2>3 DEF setLimitExceeded, LimitInv, FlagLasts
    <3>2. flag' = now + call[c].ttl
      BY <1>t, <2>3, <3>1 DEF setLimitExceeded
    <3> QED
      BY <1>t, <3>1, <3>2
  <2>4. CASE LimitMiss(c) \/ LimitLoad(c)
    <3>1. /\ call'[c].pc \in {"load", "fill"} /\ call'[c].count = call[c].count
          /\ UNCHANGED <<counter, flag>>
      BY <2>4 DEF LimitMiss, LimitLoad, TypeOK, CallType
    <3> QED
      BY <2>0, <2>a, <3>1 DEF Raises, UsedUp
  <2>5. CASE Begin(c) \/ Handled(c) \/ HandlerThrows(c)
    <3>1. ~Raises(c) /\ UNCHANGED <<counter, flag>>
      BY <2>5 DEF Begin, Handled, HandlerThrows, InFlight, Raises
    <3> QED
      BY <2>a, <3>1
  <2> QED
    BY <1>2, <2>1, <2>2, <2>3, <2>4, <2>5 DEF Log
<1> QED
  BY <1>1, <1>2

\* For a plan that is not switched, instances that do not die and commands that
\* do not fail: in the first
\* month, once the limit is used up and the calls that counted are answered,
\* the flag is up until the last two seconds, whatever the number of calls.
THEOREM LimitCorrect ==
  ASSUME ~MayChange, ~MayCrash, ~MayFail
  PROVE  Spec => []LimitInForce
<1>1. TypeOK /\ LimitInv /\ [Next]_vars => LimitInv'
  BY QuietStep, LimitKnownStep, FlagLastsStep, AccountedStep DEF LimitInv
<1>2. TypeOK /\ LimitInv => LimitInForce
  <2> SUFFICES ASSUME TypeOK, LimitInv, now < MonthLen - 2, counter[0] > 0,
                      UsedUp(counter[0]),
                      ~(\E c \in Calls : call[c].pc \in {"limit", "load", "fill", "flag"})
               PROVE  now < flag
    BY DEF LimitInForce, isLimitExceeded
  <2>1. flag # 0
    BY DEF LimitInv, Accounted, Raises
  <2>2. flag >= MonthLen - 2
    BY <2>1 DEF LimitInv, FlagLasts
  <2> QED
    BY <2>2, Bounds, UsageAssumption DEF TypeOK
<1> QED
  BY <1>1, <1>2, TypeInit, TypeStep, LimitInit, PTL DEF Spec

-----------------------------------------------------------------------------
(***************************************************************************)
(* A flag is earned, whatever the switches and the crashes.  Every limit   *)
(* that is cached or carried is one of the plans the organization may have *)
(* had (LimitsKnown); a call past its INCR carries a count that the calls  *)
(* of its period reach, and one about to raise the flag a count that uses  *)
(* up one of those limits (Carried); served never falls, so neither is     *)
(* taken back when a reset drops the counter in between.                   *)
(***************************************************************************)
\* The limits the organization may have had: any plan's, or its own when it
\* cannot switch.
PastLimits == IF MayChange THEN Limits ELSE {planLimit}

Exceeds(n) == \E limit \in PastLimits : Reached(n, limit)

Earned == \E m \in Periods : Exceeds(served[m])

\* The flag stands only for a count that reached one of those limits.
FlagEarnedOnce == isLimitExceeded => Earned

LimitsKnown ==
    /\ limitKey.until > 0 => limitKey.value \in PastLimits
    /\ \A c \in Calls : call[c].pc = "fill" => call[c].limit \in PastLimits
    /\ \A r \in Readers : reader[r].pc = "fill" => reader[r].limit \in PastLimits

Carried ==
    \A c \in Calls :
        /\ call[c].pc \in {"limit", "load", "fill", "flag"}
              => call[c].count <= served[call[c].period]
        /\ call[c].pc = "flag" => Exceeds(call[c].count)

EarnInv == LimitsKnown /\ Carried /\ (flag # 0 => Earned)

\* What the organization may have had, a switch does not change.
LEMMA PastLimitsStay ==
  ASSUME TypeOK, [Next]_vars
  PROVE  PastLimits' = PastLimits /\ planLimit \in PastLimits
<1>1. ASSUME ~MayChange PROVE planLimit' = planLimit
  <2>1. CASE Tick \/ UNCHANGED vars
    BY <2>1 DEF Tick, vars
  <2>2. ASSUME NEW i \in Instances, Reset(i) \/ Sync(i) \/ CronsDie(i)
        PROVE  planLimit' = planLimit
    BY <2>2 DEF Reset, ResetCounters, ResetFlags, Sync, SyncScan, SyncGet,
                SyncUpsert, SyncFails, SyncEnd, CronsDie
  <2>3. ASSUME NEW c \in Calls, Begin(c) \/ Log(c) \/ Cut(c)
        PROVE  planLimit' = planLimit
    BY <2>3, OneCall DEF Cut, CallFails, CallDies
  <2> QED
    BY <1>1, <2>1, <2>2, <2>3, OneRead DEF Next, updatePlan
<1> QED
  BY <1>1 DEF PastLimits, TypeOK

\* A call that meets no step of its own stays as it is, or dies.
LEMMA Bystander ==
  ASSUME TypeOK, [Next]_vars, ~(\E c \in Calls : Begin(c) \/ Log(c)),
         NEW c \in Calls
  PROVE  call'[c] \in {call[c], NoCall}
<1>1. CASE Tick \/ updatePlan \/ UNCHANGED vars
  BY <1>1 DEF Tick, updatePlan, vars
<1>2. ASSUME NEW i \in Instances, Reset(i) \/ Sync(i) \/ CronsDie(i)
      PROVE  call' = call
  BY <1>2 DEF Reset, ResetCounters, ResetFlags, Sync, SyncScan, SyncGet,
              SyncUpsert, SyncFails, SyncEnd, CronsDie
<1>3. ASSUME NEW d \in Calls, Cut(d)
      PROVE  call'[c] \in {call[c], NoCall}
  BY <1>3 DEF Cut, CallFails, CallDies, TypeOK
<1> QED
  BY <1>1, <1>2, <1>3, OneRead DEF Next

\* The number of calls made in a period never falls.
LEMMA ServedGrows ==
  ASSUME TypeOK, [Next]_vars
  PROVE  \A m \in Periods : served[m] \in Nat /\ served'[m] \in Nat
                            /\ served[m] <= served'[m]
<1>0. \A m \in Periods : served[m] \in Nat
  BY DEF TypeOK
<1>1. ASSUME NEW c \in Calls, incrementUsage(c)
      PROVE  \A m \in Periods : served'[m] \in Nat /\ served[m] <= served'[m]
  <2>1. call[c].period \in Periods
    BY DEF TypeOK, CallType
  <2> QED
    BY <1>0, <1>1, <2>1 DEF incrementUsage, TypeOK
<1>2. ASSUME NEW c \in Calls, Begin(c) \/ Handled(c) \/ HandlerThrows(c)
      PROVE  served' = served
  BY <1>2 DEF Begin, Handled, HandlerThrows
<1>3. ASSUME NEW c \in Calls, LimitHit(c) \/ LimitMiss(c) \/ LimitLoad(c)
      PROVE  served' = served
  BY <1>3 DEF LimitHit, LimitMiss, LimitLoad
<1>4. ASSUME NEW c \in Calls, LimitFill(c) \/ setLimitExceeded(c) \/ Cut(c)
      PROVE  served' = served
  BY <1>4 DEF LimitFill, setLimitExceeded, Cut, CallFails, CallDies
<1>5. ASSUME NEW i \in Instances, Reset(i) \/ Sync(i) \/ CronsDie(i)
      PROVE  served' = served
  BY <1>5 DEF Reset, ResetCounters, ResetFlags, Sync, SyncScan, SyncGet,
              SyncUpsert, SyncFails, SyncEnd, CronsDie
<1>6. CASE updatePlan \/ Tick \/ UNCHANGED vars
  BY <1>0, <1>6 DEF updatePlan, Tick, vars
<1> QED
  BY <1>0, <1>1, <1>2, <1>3, <1>4, <1>5, <1>6, OneRead DEF Next, Log

\* A count that used a limit up still does when more calls are made.
LEMMA EarnedStays ==
  ASSUME TypeOK, [Next]_vars, Earned
  PROVE  Earned'
<1>1. PICK m \in Periods, limit \in PastLimits : Reached(served[m], limit)
  BY DEF Earned, Exceeds
<1>2. served[m] \in Nat /\ served'[m] \in Nat /\ served[m] <= served'[m]
  BY ServedGrows
<1>3. limit \in Int
  BY UsageAssumption DEF TypeOK, PastLimits
<1>4. Reached(served'[m], limit)
  BY <1>1, <1>2, <1>3 DEF Reached
<1>5. limit \in PastLimits'
  BY PastLimitsStay
<1> QED
  BY <1>4, <1>5 DEF Earned, Exceeds

\* Nothing is carried and no flag is up.
LEMMA EarnInit == Init => EarnInv
  BY DEF Init, NoCall, NoRead, EarnInv, Carried, LimitsKnown

\* A call that keeps its count and its period keeps them covered.
LEMMA CarriedFrame ==
  ASSUME TypeOK, [Next]_vars, Carried, NEW c \in Calls,
         call[c].pc \in {"limit", "load", "fill", "flag"},
         call'[c].count = call[c].count, call'[c].period = call[c].period
  PROVE  call'[c].count <= served'[call'[c].period]
<1>1. call[c].period \in Periods /\ call[c].count \in Nat
  BY DEF TypeOK, CallType
<1>2. call[c].count <= served[call[c].period]
  BY DEF Carried
<1>3. /\ served[call[c].period] \in Nat /\ served'[call[c].period] \in Nat
      /\ served[call[c].period] <= served'[call[c].period]
  BY <1>1, ServedGrows
<1> QED
  BY <1>1, <1>2, <1>3

\* A judged call keeps its period, and its count if it goes on.
LEMMA JudgedPeriod ==
  ASSUME TypeOK, NEW c \in Calls, NEW limit, Judged(c, limit)
  PROVE  call'[c].pc = "flag" => call'[c].period = call[c].period
<1>1. CASE Reached(call[c].count, limit)
  <2>1. PICK ttl \in TTLs(now) :
            call' = [call EXCEPT ![c].pc = "flag", ![c].ttl = ttl]
    BY <1>1 DEF Judged
  <2> QED
    BY <2>1 DEF TypeOK, CallType
<1>2. CASE ~Reached(call[c].count, limit)
  <2>1. call'[c] = NoCall
    BY <1>2 DEF Judged, TypeOK
  <2> QED
    BY <2>1 DEF NoCall
<1> QED
  BY <1>1, <1>2

\* One call's step: it counts itself with the others, or raises the flag with a
\* count that reached a limit it had read.
LEMMA CarriedStep ==
  ASSUME TypeOK, Honest, LimitsKnown, Carried, [Next]_vars,
         NEW c \in Calls, Begin(c) \/ Log(c)
  PROVE  Carried'
<1>0. \A d \in Calls \ {c} : call'[d] = call[d]
  BY OneCall
<1>p. \A n : Exceeds(n) => Exceeds(n)'
  BY PastLimitsStay DEF Exceeds
<1>1. ASSUME NEW d \in Calls \ {c}
      PROVE  /\ call'[d].pc \in {"limit", "load", "fill", "flag"}
                   => call'[d].count <= served'[call'[d].period]
             /\ call'[d].pc = "flag" => Exceeds(call[d].count)'
  <2>1. call'[d] = call[d]
    BY <1>0
  <2>2. call'[d].pc \in {"limit", "load", "fill", "flag"}
           => call'[d].count <= served'[call'[d].period]
    BY <2>1, CarriedFrame
  <2>3. call'[d].pc = "flag" => Exceeds(call[d].count)'
    BY <2>1, PastLimitsStay DEF Carried, Exceeds
  <2> QED
    BY <2>2, <2>3
<1>2. ASSUME /\ call'[c].pc \in {"limit", "load", "fill", "flag"}
                   => call'[c].count <= served'[call'[c].period]
             /\ call'[c].pc = "flag" => Exceeds(call[c].count)'
      PROVE  Carried'
  BY <1>1, <1>2 DEF Carried
<1>t. /\ call[c].count \in Nat /\ call[c].period \in Periods
      /\ call \in [Calls -> CallType]
  BY DEF TypeOK, CallType
<1>3. CASE incrementUsage(c)
  <2> DEFINE m == call[c].period
  <2>1. /\ call'[c].pc = "limit" /\ call'[c].count = counter[m] + 1
        /\ call'[c].period = m
    BY <1>t, <1>3 DEF incrementUsage, CallType
  <2>2. served'[m] = served[m] + 1 /\ counter[m] \in Nat /\ served[m] \in Nat
    BY <1>t, <1>3 DEF incrementUsage, TypeOK
  <2>3. counter[m] <= served[m]
    BY <1>t DEF Honest
  <2> QED
    BY <1>2, <2>1, <2>2, <2>3
<1>4. CASE LimitMiss(c) \/ LimitLoad(c)
  <2>1. /\ call[c].pc \in {"limit", "load"} /\ call'[c].pc # "flag"
        /\ call'[c].count = call[c].count /\ call'[c].period = call[c].period
    BY <1>t, <1>4 DEF LimitMiss, LimitLoad, CallType
  <2>2. call'[c].count <= served'[call'[c].period]
    BY <2>1, CarriedFrame
  <2> QED
    BY <1>2, <2>1, <2>2
<1>5. CASE LimitHit(c) \/ LimitFill(c)
  <2>1. PICK limit \in PastLimits :
            Judged(c, limit) /\ call[c].pc \in {"limit", "fill"}
    <3>1. now \in Nat /\ limitKey.until \in Nat
      BY Bounds DEF TypeOK
    <3>2. CASE LimitHit(c)
      BY <3>1, <3>2 DEF LimitHit, LimitsKnown
    <3>3. CASE LimitFill(c)
      BY <3>3 DEF LimitFill, LimitsKnown
    <3> QED
      BY <1>5, <3>2, <3>3
  <2>2. CASE call'[c].pc = "flag"
    <3>1. /\ Reached(call[c].count, limit) /\ call'[c].count = call[c].count
          /\ call'[c].period = call[c].period
      BY <2>1, <2>2, JudgedCall, JudgedPeriod DEF NoCall
    <3>2. call'[c].count <= served'[call'[c].period]
      BY <2>1, <3>1, CarriedFrame
    <3>3. Exceeds(call[c].count)'
      BY <3>1, PastLimitsStay DEF Exceeds
    <3> QED
      BY <1>2, <3>2, <3>3
  <2>3. CASE call'[c].pc # "flag"
    <3>1. call'[c].pc = "idle"
      BY <2>1, <2>3, JudgedCall DEF NoCall
    <3> QED
      BY <1>2, <3>1
  <2> QED
    BY <2>2, <2>3
<1>6. CASE Begin(c) \/ Handled(c) \/ HandlerThrows(c)
  <2>1. call'[c].pc \notin {"limit", "load", "fill", "flag"}
    BY <1>t, <1>6 DEF Begin, Handled, HandlerThrows, NoCall, CallType
  <2> QED
    BY <1>2, <2>1
<1>7. CASE setLimitExceeded(c)
  <2>1. call'[c].pc = "idle"
    BY <1>t, <1>7 DEF setLimitExceeded, NoCall
  <2> QED
    BY <1>2, <2>1
<1> QED
  BY <1>3, <1>4, <1>5, <1>6, <1>7 DEF Log

\* A limit is cached or carried only as one the organization has had.
LEMMA LimitsKnownStep ==
  ASSUME TypeOK, LimitsKnown, [Next]_vars, NEW c \in Calls, Begin(c) \/ Log(c)
  PROVE  LimitsKnown'
<1>0. /\ \A d \in Calls \ {c} : call'[d] = call[d]
      /\ reader' = reader
      /\ PastLimits' = PastLimits /\ planLimit \in PastLimits
  BY OneCall, PastLimitsStay
<1>1. CASE LimitLoad(c)
  BY <1>0, <1>1 DEF LimitLoad, LimitsKnown, TypeOK, CallType
<1>2. CASE LimitFill(c)
  <2>1. call'[c].pc # "fill"
    BY <1>2, JudgedCall DEF LimitFill, NoCall
  <2>2. limitKey'.value \in PastLimits
    BY <1>2 DEF LimitFill, LimitsKnown, Filled
  <2> QED
    BY <1>0, <2>1, <2>2 DEF LimitsKnown
<1>3. CASE ~LimitLoad(c) /\ ~LimitFill(c)
  <2>1. call'[c].pc # "fill" /\ UNCHANGED limitKey
    <3>1. CASE LimitHit(c)
      BY <3>1, JudgedCall DEF LimitHit, NoCall
    <3>2. CASE Begin(c) \/ Handled(c) \/ HandlerThrows(c)
      BY <3>2 DEF Begin, Handled, HandlerThrows, NoCall, TypeOK, CallType
    <3>3. CASE incrementUsage(c) \/ LimitMiss(c) \/ setLimitExceeded(c)
      BY <3>3 DEF incrementUsage, LimitMiss, setLimitExceeded, NoCall,
                  TypeOK, CallType
    <3> QED
      BY <1>3, <3>1, <3>2, <3>3 DEF Log
  <2> QED
    BY <1>0, <2>1 DEF LimitsKnown
<1> QED
  BY <1>1, <1>2, <1>3

\* The SET of the flag is earned by the count its call carries.
LEMMA EarnedStep ==
  ASSUME TypeOK, EarnInv, [Next]_vars, NEW c \in Calls, Begin(c) \/ Log(c)
  PROVE  flag' # 0 => Earned'
<1>1. CASE setLimitExceeded(c)
  <2>1. /\ Exceeds(call[c].count) /\ call[c].count <= served[call[c].period]
        /\ call[c].count \in Nat /\ call[c].period \in Periods
    BY <1>1 DEF setLimitExceeded, EarnInv, Carried, TypeOK, CallType
  <2>2. PICK limit \in PastLimits : Reached(call[c].count, limit)
    BY <2>1 DEF Exceeds
  <2>3. served[call[c].period] \in Nat /\ limit \in Int
    BY <2>1, UsageAssumption DEF TypeOK, PastLimits
  <2>4. Reached(served[call[c].period], limit)
    BY <2>1, <2>2, <2>3 DEF Reached
  <2> QED
    BY <2>1, <2>4, EarnedStays DEF Earned, Exceeds
<1>2. CASE ~setLimitExceeded(c)
  <2>1. flag' = flag
    <3>1. CASE Begin(c) \/ Handled(c) \/ HandlerThrows(c) \/ incrementUsage(c)
      BY <3>1 DEF Begin, Handled, HandlerThrows, incrementUsage
    <3>2. CASE LimitHit(c) \/ LimitMiss(c) \/ LimitLoad(c) \/ LimitFill(c)
      BY <3>2 DEF LimitHit, LimitMiss, LimitLoad, LimitFill
    <3> QED
      BY <1>2, <3>1, <3>2 DEF Log
  <2> QED
    BY <2>1, EarnedStays DEF EarnInv
<1> QED
  BY <1>1, <1>2

\* Every step keeps limits known, counts covered and flags earned.
LEMMA EarnStep ==
  ASSUME TypeOK, Honest, EarnInv, [Next]_vars
  PROVE  EarnInv'
<1>1. CASE ~(\E c \in Calls : Begin(c) \/ Log(c))
  <2>0. PastLimits' = PastLimits /\ NoCall.pc = "idle"
    BY PastLimitsStay DEF NoCall
  <2>1. Carried'
    <3> SUFFICES ASSUME NEW c \in Calls
                 PROVE  /\ call'[c].pc \in {"limit", "load", "fill", "flag"}
                              => call'[c].count <= served'[call'[c].period]
                        /\ call'[c].pc = "flag" => Exceeds(call[c].count)'
      BY DEF Carried
    <3>1. call'[c] \in {call[c], NoCall}
      BY <1>1, Bystander
    <3>2. CASE call'[c] = call[c]
      <4>1. call'[c].pc \in {"limit", "load", "fill", "flag"}
               => call'[c].count <= served'[call'[c].period]
        BY <3>2, CarriedFrame DEF EarnInv
      <4>2. call'[c].pc = "flag" => Exceeds(call[c].count)'
        BY <2>0, <3>2 DEF EarnInv, Carried, Exceeds
      <4> QED
        BY <4>1, <4>2
    <3>3. CASE call'[c] = NoCall
      BY <2>0, <3>3
    <3> QED
      BY <3>1, <3>2, <3>3
  <2>2. /\ flag' \in {flag, 0}
        /\ limitKey' = limitKey \/ limitKey'.value \in PastLimits
        /\ \A r \in Readers : reader'[r].pc = "fill"
                                => reader'[r].limit \in PastLimits
    <3> USE <2>0 DEF EarnInv, LimitsKnown
    <3>1. CASE Tick \/ updatePlan \/ UNCHANGED vars
      BY <3>1 DEF Tick, updatePlan, vars
    <3>2. ASSUME NEW i \in Instances, Reset(i) \/ Sync(i) \/ CronsDie(i)
          PROVE  limitKey' = limitKey /\ flag' \in {flag, 0} /\ reader' = reader
      BY <3>2 DEF Reset, ResetCounters, ResetFlags, Sync, SyncScan, SyncGet,
                  SyncUpsert, SyncFails, SyncEnd, CronsDie
    <3>3. ASSUME NEW c \in Calls, Cut(c)
          PROVE  /\ UNCHANGED <<flag, reader>>
                 /\ limitKey' = limitKey \/ limitKey'.value \in PastLimits
      BY <3>3 DEF Cut, CallFails, CallDies, Filled
    <3>4. ASSUME NEW r \in Readers, Read(r)
          PROVE  /\ flag' = flag
                 /\ limitKey' = limitKey \/ limitKey'.value \in PastLimits
                 /\ \A s \in Readers : reader'[s].pc = "fill"
                                         => reader'[s].limit \in PastLimits
      BY <3>4, OneRead, PastLimitsStay
    <3> QED
      BY <1>1, <3>1, <3>2, <3>3, <3>4 DEF Next
  <2>3. LimitsKnown'
    BY <1>1, <2>0, <2>2, Bystander DEF EarnInv, LimitsKnown
  <2>4. flag' # 0 => Earned'
    BY <2>2, EarnedStays DEF EarnInv
  <2> QED
    BY <2>1, <2>3, <2>4 DEF EarnInv
<1>2. ASSUME NEW c \in Calls, Begin(c) \/ Log(c) PROVE EarnInv'
  BY <1>2, CarriedStep, LimitsKnownStep, EarnedStep DEF EarnInv
<1> QED
  BY <1>1, <1>2

\* The flag is up only for an organization whose calls used up, in some month,
\* the limit of a plan it may have been on, however calls, plan switches, deaths
\* of instances, resets and the end of a month interleave.
THEOREM EarnedOnceCorrect == Spec => []FlagEarnedOnce
<1>1. TypeOK /\ EarnInv => FlagEarnedOnce
  <2> SUFFICES ASSUME TypeOK, EarnInv, now < flag PROVE Earned
    BY DEF FlagEarnedOnce, isLimitExceeded
  <2>1. flag # 0
    BY Bounds DEF TypeOK
  <2> QED
    BY <2>1 DEF EarnInv
<1>2. TypeOK /\ Honest /\ EarnInv /\ [Next]_vars => EarnInv'
  BY EarnStep
<1> QED
  BY <1>1, <1>2, TypeInit, TypeStep, HonestInit, HonestStep, EarnInit, PTL
  DEF Spec

\* For a plan that is not switched that limit is the plan's: crashes included,
\* the flag is up only for an organization that used its own limit up.
THEOREM EarnedCorrect ==
  ASSUME ~MayChange
  PROVE  Spec => []FlagEarned
<1>1. FlagEarnedOnce => FlagEarned
  BY DEF FlagEarnedOnce, FlagEarned, Earned, Exceeds, PastLimits, Reached, UsedUp
<1> QED
  BY <1>1, EarnedOnceCorrect, PTL

-----------------------------------------------------------------------------
(***************************************************************************)
(* How far calls that race past the flag overshoot the limit.  While the   *)
(* flag is down, every call counted at the limit or above is one on its    *)
(* way to raise it; when it goes up, the calls already past it may still   *)
(* be counted, and no call is both on its way to the flag and not yet      *)
(* counted.                                                                *)
(***************************************************************************)
Raising == {c \in Calls : Raises(c)}
Uncounted == {c \in Calls : call[c].pc \in {"handler", "incr"}}

\* In the first month no more calls are served than the limit and, of those in
\* flight, all but one.
OvershootBounded ==
    now < MonthLen - 2 /\ planLimit > 0
        => served[0] <= planLimit + Cardinality(Calls) - 1

Whole == now < MonthLen => counter[0] = served[0]

OvershootInv ==
    now < MonthLen - 2 /\ planLimit > 0 =>
        /\ flag = 0 => served[0] <= planLimit - 1 + Cardinality(Raising)
        /\ flag # 0 => served[0] + Cardinality(Uncounted)
                            <= planLimit - 1 + Cardinality(Calls)

\* The two sets are disjoint parts of the calls.
LEMMA PartsFinite ==
  ASSUME IsFiniteSet(Calls)
  PROVE  /\ IsFiniteSet(Raising) /\ IsFiniteSet(Uncounted)
         /\ Cardinality(Raising) \in Nat /\ Cardinality(Uncounted) \in Nat
         /\ Cardinality(Calls) \in Nat
         /\ Cardinality(Raising) + Cardinality(Uncounted) <= Cardinality(Calls)
<1>1. Raising \in SUBSET Calls /\ Uncounted \in SUBSET Calls
  BY DEF Raising, Uncounted
<1>2. IsFiniteSet(Raising) /\ IsFiniteSet(Uncounted)
  BY <1>1, FS_Subset
<1>3. Raising \cap Uncounted = {}
  BY DEF Raising, Uncounted, Raises
<1>4. /\ Cardinality(Raising) \in Nat /\ Cardinality(Uncounted) \in Nat
      /\ Cardinality(Calls) \in Nat
  BY <1>2, FS_CardinalityType
<1>5. Cardinality(Raising \cup Uncounted)
          = Cardinality(Raising) + Cardinality(Uncounted)
  <2>1. Cardinality(Raising \cup Uncounted)
          = Cardinality(Raising) + Cardinality(Uncounted)
            - Cardinality(Raising \cap Uncounted)
    BY <1>2, FS_Union
  <2> QED
    BY <1>3, <1>4, <2>1, FS_EmptySet
<1>6. (Raising \cup Uncounted) \in SUBSET Calls
  BY <1>1
<1>7. Cardinality(Raising \cup Uncounted) <= Cardinality(Calls)
  BY <1>6, FS_Subset
<1> QED
  BY <1>2, <1>4, <1>5, <1>7

\* Nothing has been counted.
LEMMA OvershootInit ==
  ASSUME IsFiniteSet(Calls), Init PROVE Whole /\ OvershootInv
<1>1. served[0] = 0 /\ counter[0] = 0 /\ flag = 0 /\ planLimit \in Int
  BY Bounds, UsageAssumption DEF Init
<1> QED
  BY <1>1, PartsFinite DEF Whole, OvershootInv

\* In the first month nothing but the calls' own steps moves counts or flag.
LEMMA FirstMonthFrame ==
  ASSUME TypeOK, Quiet, [Next]_vars, ~MayChange, ~MayCrash, ~MayFail,
         now' < MonthLen, ~(\E c \in Calls : Begin(c) \/ Log(c))
  PROVE  UNCHANGED <<call, planLimit, counter, served, flag>>
<1>1. UNCHANGED <<call, planLimit>>
  BY NoCallStep
<1>2. ASSUME NEW i \in Instances, Reset(i) PROVE FALSE
  <2>1. now' = now
    BY <1>2 DEF Reset, ResetCounters, ResetFlags
  <2> QED
    BY <1>2, <2>1 DEF Quiet, Reset, ResetCounters, ResetFlags
<1>3. ASSUME NEW i \in Instances, Sync(i) \/ CronsDie(i)
      PROVE  UNCHANGED <<counter, served, flag>>
  BY <1>3 DEF Sync, SyncScan, SyncGet, SyncUpsert, SyncFails, SyncEnd, CronsDie
<1>4. CASE Tick \/ updatePlan \/ (\E c \in Calls : Cut(c))
          \/ (\E r \in Readers : Read(r)) \/ UNCHANGED vars
  BY <1>4 DEF Tick, updatePlan, Cut, CallFails, CallDies, Read, ReadMiss, ReadLoad,
                ReadFill, ReadFails, vars
<1> QED
  BY <1>1, <1>2, <1>3, <1>4 DEF Next

\* The clock never runs backwards.
LEMMA ClockRuns ==
  ASSUME TypeOK, [Next]_vars
  PROVE  now \in Nat /\ now' \in {now, now + 1}
<1>1. now \in Nat
  BY Bounds DEF TypeOK
<1>2. CASE Tick
  BY <1>1, <1>2 DEF Tick
<1>3. ASSUME NEW c \in Calls, Begin(c) \/ Log(c) \/ Cut(c) PROVE now' = now
  BY <1>3, OneCall DEF Cut, CallFails, CallDies
<1>4. ASSUME NEW i \in Instances, Reset(i) \/ Sync(i) \/ CronsDie(i)
      PROVE  now' = now
  BY <1>4 DEF Reset, ResetCounters, ResetFlags, Sync, SyncScan, SyncGet,
              SyncUpsert, SyncFails, SyncEnd, CronsDie
<1>5. CASE updatePlan \/ UNCHANGED vars
  BY <1>1, <1>5 DEF updatePlan, vars
<1> QED
  BY <1>1, <1>2, <1>3, <1>4, <1>5, OneRead DEF Next

\* A call's step other than its INCR leaves the counts, other than its SET the
\* flag.
LEMMA CallWrites ==
  ASSUME NEW c \in Calls, Begin(c) \/ Log(c)
  PROVE  /\ ~incrementUsage(c) => UNCHANGED <<counter, served>>
         /\ ~setLimitExceeded(c) => flag' = flag
<1>1. CASE Begin(c) \/ Handled(c) \/ HandlerThrows(c)
  BY <1>1 DEF Begin, Handled, HandlerThrows
<1>2. CASE LimitHit(c) \/ LimitMiss(c) \/ LimitLoad(c) \/ LimitFill(c)
  BY <1>2 DEF LimitHit, LimitMiss, LimitLoad, LimitFill
<1>3. CASE incrementUsage(c)
  BY <1>3 DEF incrementUsage
<1>4. CASE setLimitExceeded(c)
  BY <1>4 DEF setLimitExceeded
<1> QED
  BY <1>1, <1>2, <1>3, <1>4 DEF Log

\* In the first month the counter loses nothing.
LEMMA WholeStep ==
  ASSUME TypeOK, Quiet, Whole, [Next]_vars, ~MayChange, ~MayCrash, ~MayFail
  PROVE  Whole'
<1> SUFFICES ASSUME now' < MonthLen PROVE counter'[0] = served'[0]
  BY DEF Whole
<1>1. counter[0] = served[0]
  BY ClockRuns, UsageAssumption DEF Whole
<1>2. CASE ~(\E c \in Calls : Begin(c) \/ Log(c))
  BY <1>1, <1>2, FirstMonthFrame
<1>3. ASSUME NEW c \in Calls, Begin(c) \/ Log(c)
      PROVE  counter'[0] = served'[0]
  <2>1. CASE incrementUsage(c)
    BY <1>1, <2>1, Bounds DEF incrementUsage, TypeOK
  <2> QED
    BY <1>1, <1>3, <2>1, CallWrites
<1> QED
  BY <1>2, <1>3

\* The INCR either stays under the limit or adds a call that raises the flag;
\* in both cases it is one call fewer that is past the flag and not counted.
LEMMA OvershootIncr ==
  ASSUME IsFiniteSet(Calls), TypeOK, Whole, OvershootInv,
         now < MonthLen - 2, planLimit > 0, NEW c \in Calls, incrementUsage(c)
  PROVE  OvershootInv'
<1> DEFINE m == call[c].period
<1>t. /\ counter[0] \in Nat /\ served[0] \in Nat /\ planLimit \in Int
      /\ m \in Periods
  BY Bounds, UsageAssumption DEF TypeOK, CallType
<1>0. /\ \A d \in Calls \ {c} : call'[d] = call[d]
      /\ UNCHANGED <<now, planLimit, flag>>
      /\ call[c].pc = "incr" /\ call'[c].pc = "limit"
      /\ call'[c].count = counter[m] + 1
  BY DEF incrementUsage, TypeOK, CallType
<1>1. served'[0] = IF m = 0 THEN served[0] + 1 ELSE served[0]
  BY <1>t, Bounds DEF incrementUsage, TypeOK
<1>2. counter[0] = served[0]
  BY ClockRuns, UsageAssumption, Bounds DEF Whole, TypeOK
<1>3. c \in Uncounted /\ c \notin Raising
  BY <1>0 DEF Uncounted, Raising, Raises
<1>4. Uncounted' = Uncounted \ {c}
  BY <1>0 DEF Uncounted
<1>5. Cardinality(Uncounted') = Cardinality(Uncounted) - 1
  BY <1>3, <1>4, PartsFinite, FS_RemoveElement
<1>6. Raising' = IF UsedUp(counter[m] + 1) THEN Raising \cup {c} ELSE Raising
  <2>1. ASSUME NEW d \in Calls \ {c} PROVE Raises(d)' <=> Raises(d)
    BY <1>0, <2>1 DEF Raises, UsedUp
  <2>2. Raises(c)' <=> UsedUp(counter[m] + 1)
    BY <1>0 DEF Raises, UsedUp
  <2> QED
    BY <1>3, <2>1, <2>2 DEF Raising
<1>7. Cardinality(Raising') = IF UsedUp(counter[m] + 1)
                              THEN Cardinality(Raising) + 1
                              ELSE Cardinality(Raising)
  BY <1>3, <1>6, PartsFinite, FS_AddElement
<1>8. CASE flag = 0
  <2>1. served[0] <= planLimit - 1 + Cardinality(Raising)
    BY <1>8 DEF OvershootInv
  <2>2. CASE m = 0 /\ ~UsedUp(counter[m] + 1)
    <3>1. served[0] + 1 <= planLimit - 1
      BY <1>t, <1>2, <2>2 DEF UsedUp, Unlimited
    <3> QED
      BY <1>0, <1>1, <1>7, <1>8, <1>t, <2>2, <3>1, PartsFinite DEF OvershootInv
  <2>3. CASE m # 0 \/ UsedUp(counter[m] + 1)
    <3>1. served'[0] <= planLimit - 1 + Cardinality(Raising')
      BY <1>1, <1>7, <1>t, <2>1, <2>3, PartsFinite
    <3> QED
      BY <1>0, <1>8, <3>1 DEF OvershootInv
  <2> QED
    BY <2>2, <2>3
<1>9. CASE flag # 0
  <2>1. served[0] + Cardinality(Uncounted) <= planLimit - 1 + Cardinality(Calls)
    BY <1>9 DEF OvershootInv
  <2>2. served'[0] + Cardinality(Uncounted') <= planLimit - 1 + Cardinality(Calls)
    BY <1>1, <1>5, <1>t, <2>1, PartsFinite
  <2> QED
    BY <1>0, <1>9, <2>2 DEF OvershootInv
<1> QED
  BY <1>8, <1>9

\* Counts and flag unchanged, the bound survives a step that takes no call from
\* those that raise the flag and, when it is up, lets none past it.
LEMMA OvershootFrame ==
  ASSUME IsFiniteSet(Calls), TypeOK, OvershootInv, now < MonthLen - 2,
         UNCHANGED <<planLimit, served, flag>>,
         flag = 0 => Raising \subseteq Raising',
         flag # 0 => Uncounted' \subseteq Uncounted,
         IsFiniteSet(Raising'), Cardinality(Raising') \in Nat,
         Cardinality(Uncounted') \in Nat
  PROVE  OvershootInv'
<1>t. served[0] \in Nat /\ planLimit \in Int
  BY Bounds, UsageAssumption DEF TypeOK
<1>1. flag = 0 => Cardinality(Raising) <= Cardinality(Raising')
  BY FS_Subset
<1>2. flag # 0 => Cardinality(Uncounted') <= Cardinality(Uncounted)
  BY FS_Subset, PartsFinite
<1> QED
  BY <1>t, <1>1, <1>2, PartsFinite DEF OvershootInv

\* A step of one call: past the flag, to the counter, to the flag.
LEMMA OvershootCall ==
  ASSUME IsFiniteSet(Calls), TypeOK, LimitInv, Whole, OvershootInv,
         now < MonthLen - 2, planLimit > 0, NEW c \in Calls, Begin(c) \/ Log(c),
         IsFiniteSet(Raising'), Cardinality(Raising') \in Nat,
         Cardinality(Uncounted') \in Nat
  PROVE  OvershootInv'
<1>0. /\ \A d \in Calls \ {c} : call'[d] = call[d]
      /\ UNCHANGED <<now, planLimit>>
  BY OneCall
<1>o. \A d \in Calls \ {c} : /\ d \in Raising' <=> d \in Raising
                             /\ d \in Uncounted' <=> d \in Uncounted
  BY <1>0 DEF Raising, Uncounted, Raises, UsedUp
<1>f. ASSUME UNCHANGED <<served, flag>>,
             c \in Raising => c \in Raising',
             flag # 0 /\ c \in Uncounted' => c \in Uncounted
      PROVE  OvershootInv'
  <2>1. Raising \subseteq Raising'
    BY <1>f, <1>o DEF Raising
  <2>2. flag # 0 => Uncounted' \subseteq Uncounted
    BY <1>f, <1>o DEF Uncounted
  <2> QED
    BY <1>0, <1>f, <2>1, <2>2, OvershootFrame
<1>1. CASE incrementUsage(c)
  BY <1>1, OvershootIncr
<1>2. CASE setLimitExceeded(c)
  <2>1. call[c].pc = "flag" /\ call[c].ttl > 0 /\ call[c].ttl \in Int
    BY <1>2 DEF setLimitExceeded, LimitInv, FlagLasts, TypeOK, CallType
  <2>2. flag' = now + call[c].ttl /\ now \in Nat
    BY <1>2, <2>1, Bounds DEF setLimitExceeded, TypeOK
  <2>3. flag' # 0 /\ served' = served
    BY <1>2, <2>1, <2>2 DEF setLimitExceeded
  <2>4. call'[c] = NoCall
    BY <1>2 DEF setLimitExceeded, TypeOK
  <2>5. Uncounted' = Uncounted
    BY <1>0, <2>1, <2>4 DEF Uncounted, NoCall
  <2>6. served[0] + Cardinality(Uncounted)
            <= planLimit - 1 + Cardinality(Calls)
    <3>1. served[0] \in Nat /\ planLimit \in Int
      BY Bounds, UsageAssumption DEF TypeOK
    <3> QED
      BY <3>1, PartsFinite DEF OvershootInv
  <2> QED
    BY <1>0, <2>3, <2>5, <2>6 DEF OvershootInv
<1>3. CASE LimitHit(c) \/ LimitFill(c)
  <2>1. Judged(c, planLimit) /\ UNCHANGED <<served, flag>>
    <3>1. now \in Nat /\ limitKey.until \in Nat
      BY Bounds DEF TypeOK
    <3> QED
      BY <1>3, <3>1 DEF LimitHit, LimitFill, LimitInv, LimitKnown
  <2>2. c \in Raising => c \in Raising'
    BY <1>0, <2>1, JudgedCall DEF Raising, Raises, UsedUp, Reached
  <2>3. c \notin Uncounted'
    BY <2>1, JudgedCall DEF Uncounted, NoCall
  <2> QED
    BY <1>f, <2>1, <2>2, <2>3
<1>4. CASE LimitMiss(c) \/ LimitLoad(c)
  <2>1. /\ call'[c].pc \in {"load", "fill"} /\ call'[c].count = call[c].count
        /\ UNCHANGED <<served, flag>>
    BY <1>4 DEF LimitMiss, LimitLoad, TypeOK, CallType
  <2>2. c \in Raising => c \in Raising'
    BY <1>0, <2>1 DEF Raising, Raises, UsedUp
  <2>3. c \notin Uncounted'
    BY <2>1 DEF Uncounted
  <2> QED
    BY <1>f, <2>1, <2>2, <2>3
<1>5. CASE Handled(c) \/ HandlerThrows(c)
  <2>1. /\ c \notin Raising /\ c \in Uncounted
        /\ UNCHANGED <<served, flag>>
    BY <1>5 DEF Handled, HandlerThrows, Raising, Raises, Uncounted
  <2> QED
    BY <1>f, <2>1
<1>6. CASE Begin(c)
  <2>1. c \notin Raising /\ UNCHANGED <<served, flag>>
    BY <1>6 DEF Begin, InFlight, Raising, Raises
  <2>2. flag # 0 => isLimitExceeded
    <3>1. flag # 0 => flag >= MonthLen - 2
      BY DEF LimitInv, FlagLasts
    <3> QED
      BY <3>1, Bounds, UsageAssumption DEF isLimitExceeded, TypeOK
  <2>3. flag # 0 => call'[c].pc = "refused"
    BY <1>6, <2>2 DEF Begin, NoCall, TypeOK
  <2>4. flag # 0 => c \notin Uncounted'
    BY <2>3 DEF Uncounted
  <2> QED
    BY <1>f, <2>1, <2>4
<1> QED
  BY <1>1, <1>2, <1>3, <1>4, <1>5, <1>6 DEF Log

\* Every step keeps the bound.
LEMMA OvershootStep ==
  ASSUME IsFiniteSet(Calls), TypeOK, TypeOK', LimitInv, Whole, OvershootInv,
         [Next]_vars, ~MayChange, ~MayCrash, ~MayFail
  PROVE  OvershootInv'
<1> SUFFICES ASSUME now' < MonthLen - 2, planLimit' > 0 PROVE OvershootInv'
  BY DEF OvershootInv
<1>0. now < MonthLen - 2 /\ now' < MonthLen
  <2>1. now' \in Nat
    BY ClockRuns
  <2> QED
    BY <2>1, ClockRuns, UsageAssumption
<1>p. /\ IsFiniteSet(Raising') /\ Cardinality(Raising') \in Nat
      /\ Cardinality(Uncounted') \in Nat
  <2>1. Raising' \in SUBSET Calls /\ Uncounted' \in SUBSET Calls
    BY DEF Raising, Uncounted
  <2> QED
    BY <2>1, FS_Subset, FS_CardinalityType
<1>1. CASE ~(\E c \in Calls : Begin(c) \/ Log(c))
  <2>1. UNCHANGED <<call, planLimit, counter, served, flag>>
    BY <1>0, <1>1, FirstMonthFrame DEF LimitInv
  <2>2. Raising' = Raising /\ Uncounted' = Uncounted
    BY <2>1 DEF Raising, Uncounted, Raises, UsedUp
  <2> QED
    BY <1>0, <1>p, <2>1, <2>2, OvershootFrame
<1>2. ASSUME NEW c \in Calls, Begin(c) \/ Log(c) PROVE OvershootInv'
  <2>1. planLimit > 0
    BY <1>2, OneCall
  <2> QED
    BY <1>0, <1>p, <1>2, <2>1, OvershootCall
<1> QED
  BY <1>1, <1>2

\* For a plan that is not switched, instances that do not die and commands that
\* do not fail: in the first
\* month, up to its last two seconds, no more calls are served than the limit
\* and one less than the calls that can be in flight at once.
THEOREM OvershootCorrect ==
  ASSUME IsFiniteSet(Calls), ~MayChange, ~MayCrash, ~MayFail
  PROVE  Spec => []OvershootBounded
<1> DEFINE Inv == TypeOK /\ LimitInv /\ Whole /\ OvershootInv
<1>1. Init => Inv
  BY TypeInit, LimitInit, OvershootInit
<1>2. Inv /\ [Next]_vars => Inv'
  <2>1. TypeOK /\ LimitInv /\ [Next]_vars => LimitInv'
    BY QuietStep, LimitKnownStep, FlagLastsStep, AccountedStep DEF LimitInv
  <2>2. ASSUME Inv, [Next]_vars PROVE Whole'
    BY <2>2, WholeStep DEF LimitInv
  <2>3. ASSUME Inv, [Next]_vars PROVE OvershootInv'
    BY <2>3, TypeStep, OvershootStep
  <2> QED
    BY <2>1, <2>2, <2>3, TypeStep
<1>3. Inv => OvershootBounded
  <2> SUFFICES ASSUME TypeOK, OvershootInv, now < MonthLen - 2, planLimit > 0
               PROVE  served[0] <= planLimit + Cardinality(Calls) - 1
    BY DEF OvershootBounded
  <2>1. served[0] \in Nat /\ planLimit \in Int
    BY Bounds, UsageAssumption DEF TypeOK
  <2> QED
    BY <2>1, PartsFinite DEF OvershootInv
<1> QED
  BY <1>1, <1>2, <1>3, PTL DEF Spec

=============================================================================
