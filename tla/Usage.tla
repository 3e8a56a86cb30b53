------------------------------- MODULE Usage -------------------------------
(* How the API calls of ONE organization are counted, limited, reset and     *)
(* copied to Postgres.  A call passes the global UsageTrackerInterceptor,    *)
(* which reads the limit flag before the handler and counts after it.        *)
(* Every line between two awaits of the source is one action, so the calls   *)
(* of one organization, the monthly reset and the five-minute sync (both run *)
(* in every instance of the application) interleave at each Redis or         *)
(* Postgres command.                                                         *)
EXTENDS Integers

CONSTANTS
    Calls,       \* slots: at most this many calls are in flight at once
    Readers,     \* slots of the requests that ask for the limit and count nothing
    Instances,   \* instances of the application, each with its own crons
    MonthLen,    \* seconds of a month
    Months,      \* bound: the clock stops at the end of the last one
    Limits,      \* apiCallsPerMonth of the plans
    LimitTTL,    \* TTL_EXPIRATION, of the cached limit
    MaxServed,   \* bound: handlers answer until as many calls are counted
    LastStart,   \* bound: no call starts in a later month
    MayCrash,    \* an instance may die
    MayFail,     \* a command of Redis or Postgres may throw in a call
    MayChange    \* the organization may switch its plan

Unlimited == -1

ASSUME UsageAssumption ==
    /\ MonthLen \in Nat /\ MonthLen > 2
    /\ Months \in Nat /\ Months > 0
    /\ Limits \subseteq Int
    /\ LimitTTL \in Nat /\ LimitTTL > 0
    /\ MaxServed \in Nat /\ LastStart \in Nat
    /\ MayCrash \in BOOLEAN /\ MayFail \in BOOLEAN /\ MayChange \in BOOLEAN

VARIABLES
    now,         \* the clock, in seconds
    planLimit,   \* Postgres: apiCallsPerMonth of the organization's plan
    counter,     \* Redis usage:<org>:api_calls:<period>; 0: no such key
    flag,        \* Redis usage:<org>:limit_exceeded: when the key is gone
    limitKey,    \* Redis usage:<org>:limit: the value and when it is gone
    call,        \* the calls in flight
    reader,      \* the requests in getPlanLimit without a count of their own
    reset,       \* where each instance's monthly reset stands
    sync,        \* where each instance's sync stands
    record,      \* Postgres: the value of usage_records of each period
    served       \* history: the INCRs of each period

vars == <<now, planLimit, counter, flag, limitKey, call, reader, reset, sync,
          record, served>>

Periods == 0 .. Months - 1
Horizon == Months * MonthLen
Forever == Horizon + MonthLen    \* a key that was set without an expiry

\* formatYYMM.
Month(t) == t \div MonthLen

\* getEndOfMonthTTL: the whole seconds up to the month's last second.  The
\* floor takes one more away unless the milliseconds happen to be zero.
TTLs(t) == LET left == MonthLen * (Month(t) + 1) - 1 - t
           IN  {left, left - 1}

NoCall == [pc |-> "idle", period |-> 0, count |-> 0, limit |-> 0, ttl |-> 0]
NoRead == [pc |-> "idle", limit |-> 0]
NoSync == [pc |-> "idle", left |-> {}, period |-> 0, value |-> 0]

KnownLimits == Limits \cup {0}    \* 0 until one has been read
CallType == [pc : {"idle", "refused", "handler", "incr", "limit", "load",
                   "fill", "flag"},
             period : Periods, count : Nat, limit : KnownLimits, ttl : Int]
ReaderType == [pc : {"idle", "load", "fill"}, limit : KnownLimits]
SyncType == [pc : {"idle", "get", "upsert"}, left : SUBSET Periods,
             period : Periods, value : Nat]

InFlight(c) == call[c].pc \notin {"idle", "refused"}
\* isLimitExceeded: the key is there.
isLimitExceeded == now < flag

Init ==
    /\ now = 0
    /\ planLimit \in Limits
    /\ counter = [m \in Periods |-> 0]
    /\ flag = 0
    /\ limitKey = [value |-> 0, until |-> 0]
    /\ call = [c \in Calls |-> NoCall]
    /\ reader = [r \in Readers |-> NoRead]
    /\ reset = [i \in Instances |-> "idle"]
    /\ sync = [i \in Instances |-> NoSync]
    /\ record = [m \in Periods |-> 0]
    /\ served = [m \in Periods |-> 0]

-----------------------------------------------------------------------------
\* One API call.

\* intercept: the flag is read; a call that meets it is answered 409.
Begin(c) ==
    /\ ~InFlight(c)
    /\ Month(now) <= LastStart
    /\ call' = [call EXCEPT ![c] = [NoCall EXCEPT
                    !.pc = IF isLimitExceeded THEN "refused" ELSE "handler"]]
    /\ UNCHANGED <<now, planLimit, counter, flag, limitKey, reset, sync,
                   record, served, reader>>

\* The handler answers; logUsage computes the period, and sends the INCR.
\* Bound: once MaxServed calls are counted, handlers throw.
Handled(c) ==
    /\ call[c].pc = "handler"
    /\ served[Month(now)] < MaxServed
    /\ call' = [call EXCEPT ![c].pc = "incr", ![c].period = Month(now)]
    /\ UNCHANGED <<now, planLimit, counter, flag, limitKey, reset, sync,
                   record, served, reader>>

\* The handler throws: the call is not counted.
HandlerThrows(c) ==
    /\ call[c].pc = "handler"
    /\ call' = [call EXCEPT ![c] = NoCall]
    /\ UNCHANGED <<now, planLimit, counter, flag, limitKey, reset, sync,
                   record, served, reader>>

incrementUsage(c) ==
    LET m == call[c].period IN
    /\ call[c].pc = "incr"
    /\ counter' = [counter EXCEPT ![m] = @ + 1]
    /\ served' = [served EXCEPT ![m] = @ + 1]
    /\ call' = [call EXCEPT ![c].pc = "limit", ![c].count = counter[m] + 1]
    /\ UNCHANGED <<now, planLimit, flag, limitKey, reset, sync, record, reader>>

\* Plausible mutants: > for >=, and a -1 that is not special.
Reached_above(count, limit) == limit # Unlimited /\ count > limit
Reached_unlimited(count, limit) == count >= limit

\* The condition of logUsage.
Reached(count, limit) == limit # Unlimited /\ count >= limit

\* The rest of logUsage once getPlanLimit has answered: a call at the limit
\* takes its TTL from the clock it sees now and sends the SET.
Judged(c, limit) ==
    IF Reached(call[c].count, limit)
    THEN \E ttl \in TTLs(now) :
             call' = [call EXCEPT ![c].pc = "flag", ![c].ttl = ttl]
    ELSE call' = [call EXCEPT ![c] = NoCall]

\* getPlanLimit: the cached limit is there.
LimitHit(c) ==
    /\ call[c].pc = "limit"
    /\ now < limitKey.until
    /\ Judged(c, limitKey.value)
    /\ UNCHANGED <<now, planLimit, counter, flag, limitKey, reset, sync,
                   record, served, reader>>

LimitMiss(c) ==
    /\ call[c].pc = "limit"
    /\ now >= limitKey.until
    /\ call' = [call EXCEPT ![c].pc = "load"]
    /\ UNCHANGED <<now, planLimit, counter, flag, limitKey, reset, sync,
                   record, served, reader>>

\* A plausible mutant: -1 taken for a limit that is not set.
LimitLoad_default(c) ==
    /\ call[c].pc = "load"
    /\ call' = [call EXCEPT ![c].pc = "fill",
                            ![c].limit = IF planLimit > 0 THEN planLimit ELSE 1000]
    /\ UNCHANGED <<now, planLimit, counter, flag, limitKey, reset, sync,
                   record, served, reader>>

\* The organization is read with its plan ...
LimitLoad(c) ==
    /\ call[c].pc = "load"
    /\ call' = [call EXCEPT ![c].pc = "fill", ![c].limit = planLimit]
    /\ UNCHANGED <<now, planLimit, counter, flag, limitKey, reset, sync,
                   record, served, reader>>

\* The cache entry that a SET of getPlanLimit leaves now.
Filled(limit) == [value |-> limit, until |-> now + LimitTTL]

\* ... and its limit is cached, whatever the plan has become since.
LimitFill(c) ==
    /\ call[c].pc = "fill"
    /\ limitKey' = Filled(call[c].limit)
    /\ Judged(c, call[c].limit)
    /\ UNCHANGED <<now, planLimit, counter, flag, reset, sync, record, served,
                   reader>>

\* CacheService.set: a TTL of 0 sets the key without an expiry, a negative one
\* is an error of Redis and fails the call, which its handler had answered.
setLimitExceeded(c) ==
    LET ttl == call[c].ttl IN
    /\ call[c].pc = "flag"
    /\ flag' = CASE ttl > 0 -> now + ttl
                 [] ttl = 0 -> Forever
                 [] ttl < 0 -> flag
    /\ call' = [call EXCEPT ![c] = NoCall]
    /\ UNCHANGED <<now, planLimit, counter, limitKey, reset, sync, record,
                   served, reader>>

\* A command of logUsage throws (or the organization is not found): the INCR,
\* one of getPlanLimit's, or the SET of the flag.  The call, whose handler had
\* answered, ends as an error and raises no flag.  The SET of the limit may have
\* been done although its answer was lost.
CallFails(c) ==
    /\ MayFail
    /\ call[c].pc \in {"incr", "limit", "load", "fill", "flag"}
    /\ \/ limitKey' = limitKey
       \/ call[c].pc = "fill" /\ limitKey' = Filled(call[c].limit)
    /\ call' = [call EXCEPT ![c] = NoCall]
    /\ UNCHANGED <<now, planLimit, counter, flag, reset, sync, record, served,
                   reader>>

\* getStats and WebhookTrackerInterceptor ask getPlanLimit too, inside the
\* handler of a counted call or of one that is not: nothing happens when the
\* limit is cached; else they load it and fill the cache like a counted call.
ReadMiss(r) ==
    /\ reader[r].pc = "idle"
    /\ now >= limitKey.until
    /\ reader' = [reader EXCEPT ![r].pc = "load"]
    /\ UNCHANGED <<now, planLimit, counter, flag, limitKey, call, reset, sync,
                   record, served>>

ReadLoad(r) ==
    /\ reader[r].pc = "load"
    /\ reader' = [reader EXCEPT ![r].pc = "fill", ![r].limit = planLimit]
    /\ UNCHANGED <<now, planLimit, counter, flag, limitKey, call, reset, sync,
                   record, served>>

ReadFill(r) ==
    /\ reader[r].pc = "fill"
    /\ limitKey' = Filled(reader[r].limit)
    /\ reader' = [reader EXCEPT ![r] = NoRead]
    /\ UNCHANGED <<now, planLimit, counter, flag, call, reset, sync, record,
                   served>>

\* It throws or its instance dies before the fill.
ReadFails(r) ==
    /\ reader[r].pc # "idle"
    /\ reader' = [reader EXCEPT ![r] = NoRead]
    /\ UNCHANGED <<now, planLimit, counter, flag, limitKey, call, reset, sync,
                   record, served>>

\* updatePlan: neither the cached limit nor the flag is touched.
updatePlan ==
    /\ MayChange
    /\ planLimit' \in Limits \ {planLimit}
    /\ UNCHANGED <<now, counter, flag, limitKey, call, reset, sync, record,
                   served, reader>>

-----------------------------------------------------------------------------
\* The monthly reset, in every instance: two scans, one after the other.  The
\* first drops the counters of every period, the new one's included.
ResetCounters(i) ==
    /\ reset[i] = "due"
    /\ counter' = [m \in Periods |-> 0]
    /\ reset' = [reset EXCEPT ![i] = "flags"]
    /\ UNCHANGED <<now, planLimit, flag, limitKey, call, sync, record, served,
                   reader>>

ResetFlags(i) ==
    /\ reset[i] = "flags"
    /\ flag' = 0
    /\ reset' = [reset EXCEPT ![i] = "idle"]
    /\ UNCHANGED <<now, planLimit, counter, limitKey, call, sync, record,
                   served, reader>>

\* The sync: the keys are listed, then read and copied one by one.
SyncScan(i) ==
    LET keys == {m \in Periods : counter[m] > 0} IN
    /\ sync[i].pc = "idle"
    /\ keys # {}
    /\ sync' = [sync EXCEPT ![i] = [NoSync EXCEPT !.pc = "get", !.left = keys]]
    /\ UNCHANGED <<now, planLimit, counter, flag, limitKey, call, reset,
                   record, served, reader>>

\* A key that has gone since is skipped.
SyncGet(i) ==
    /\ sync[i].pc = "get"
    /\ \E m \in sync[i].left :
           IF counter[m] > 0
           THEN sync' = [sync EXCEPT ![i].pc = "upsert", ![i].left = @ \ {m},
                                     ![i].period = m, ![i].value = counter[m]]
           ELSE sync' = [sync EXCEPT ![i].left = @ \ {m}]
    /\ UNCHANGED <<now, planLimit, counter, flag, limitKey, call, reset,
                   record, served, reader>>

\* A plausible mutant: the value is added to the row's.
SyncUpsert_adds(i) ==
    /\ sync[i].pc = "upsert"
    /\ record' = [record EXCEPT ![sync[i].period] = @ + sync[i].value]
    /\ sync' = [sync EXCEPT ![i].pc = "get"]
    /\ UNCHANGED <<now, planLimit, counter, flag, limitKey, call, reset,
                   served, reader>>

\* UsageRecordService.create: the row of the period takes the value read.
SyncUpsert(i) ==
    /\ sync[i].pc = "upsert"
    /\ record' = [record EXCEPT ![sync[i].period] = sync[i].value]
    /\ sync' = [sync EXCEPT ![i].pc = "get"]
    /\ UNCHANGED <<now, planLimit, counter, flag, limitKey, call, reset,
                   served, reader>>

\* The upsert fails: the key is passed over until the next sync.
SyncFails(i) ==
    /\ sync[i].pc = "upsert"
    /\ sync' = [sync EXCEPT ![i].pc = "get"]
    /\ UNCHANGED <<now, planLimit, counter, flag, limitKey, call, reset,
                   record, served, reader>>

SyncEnd(i) ==
    /\ sync[i].pc = "get"
    /\ sync[i].left = {}
    /\ sync' = [sync EXCEPT ![i] = NoSync]
    /\ UNCHANGED <<now, planLimit, counter, flag, limitKey, call, reset,
                   record, served, reader>>

-----------------------------------------------------------------------------
\* A second passes.  The first of a month makes the reset due in every
\* instance.  Bound: a call ends before the second month after LastStart.
Tick ==
    /\ now + 1 < Horizon
    /\ Month(now + 1) > LastStart + 1 => \A c \in Calls : ~InFlight(c)
    /\ now' = now + 1
    /\ reset' = IF Month(now + 1) = Month(now) THEN reset
                ELSE [i \in Instances |-> "due"]
    /\ UNCHANGED <<planLimit, counter, flag, limitKey, call, sync, record,
                   served, reader>>

\* An instance dies: its crons are not caught up with, and a call it was
\* serving is gone where it stood.
CronsDie(i) ==
    /\ MayCrash
    /\ <<reset[i], sync[i]>> # <<"idle", NoSync>>
    /\ reset' = [reset EXCEPT ![i] = "idle"]
    /\ sync' = [sync EXCEPT ![i] = NoSync]
    /\ UNCHANGED <<now, planLimit, counter, flag, limitKey, call, record,
                   served, reader>>

CallDies(c) ==
    /\ MayCrash
    /\ InFlight(c)
    /\ call' = [call EXCEPT ![c] = NoCall]
    /\ UNCHANGED <<now, planLimit, counter, flag, limitKey, reset, sync,
                   record, served, reader>>

Log(c) ==
    \/ Handled(c) \/ HandlerThrows(c) \/ incrementUsage(c)
    \/ LimitHit(c) \/ LimitMiss(c) \/ LimitLoad(c) \/ LimitFill(c)
    \/ setLimitExceeded(c)

\* What cuts a call off where it stands.
Cut(c) == CallFails(c) \/ CallDies(c)

Read(r)  == ReadMiss(r) \/ ReadLoad(r) \/ ReadFill(r) \/ ReadFails(r)
Reset(i) == ResetCounters(i) \/ ResetFlags(i)
Sync(i)  == SyncScan(i) \/ SyncGet(i) \/ SyncUpsert(i) \/ SyncFails(i) \/ SyncEnd(i)

Next ==
    \/ \E c \in Calls : Begin(c) \/ Log(c) \/ Cut(c)
    \/ \E r \in Readers : Read(r)
    \/ \E i \in Instances : Reset(i) \/ Sync(i) \/ CronsDie(i)
    \/ updatePlan \/ Tick

Spec == Init /\ [][Next]_vars

-----------------------------------------------------------------------------
\* The plan's limit is used up by n calls.
UsedUp(n) == planLimit # Unlimited /\ n >= planLimit

\* Types.
TypeOK ==
    /\ now \in 0 .. Horizon - 1
    /\ planLimit \in Limits
    /\ counter \in [Periods -> Nat]
    /\ flag \in Nat
    /\ limitKey \in [value : KnownLimits, until : Nat]
    /\ call \in [Calls -> CallType]
    /\ reader \in [Readers -> ReaderType]
    /\ reset \in [Instances -> {"idle", "due", "flags"}]
    /\ sync \in [Instances -> SyncType]
    /\ record \in [Periods -> Nat]
    /\ served \in [Periods -> Nat]

\* Two syncs of two instances, the reset and the calls race on the counter,
\* yet the row of a period never shows more calls than were made in it.
RecordHonest == \A m \in Periods : record[m] <= served[m]

\* In the first month the limit is in force: with calls racing each other past
\* the flag, once the limit is reached and no call is left that has yet to
\* raise it, the flag stands until the month's last two seconds (there the TTL
\* is 0 or negative).  Stated for a fixed plan without crashes or failing
\* commands; the readers that fill the cache meanwhile do not disturb it.
LimitInForce ==
    now < MonthLen - 2 /\ counter[0] > 0 /\ UsedUp(counter[0])
        => \/ isLimitExceeded
           \/ \E c \in Calls : call[c].pc \in {"limit", "load", "fill", "flag"}

\* The flag is only ever raised for an organization that reached the limit of
\* one of its plans in some month: with one plan, its own.
FlagEarned ==
    isLimitExceeded => \E m \in Periods : UsedUp(served[m])

=============================================================================
