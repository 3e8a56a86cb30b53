--------------------------- MODULE Billing_proofs ---------------------------
(***************************************************************************)
(* What Billing guarantees for every number of attempts, events, callers   *)
(* and instances, and every length of the trial and of the grace.          *)
(***************************************************************************)
EXTENDS Billing, FiniteSetTheorems, TLAPS

\* The row that register writes is a row.
LEMMA NewRowType == \A p \in Plans : NewRow(p) \in RowType
  BY BillingAssumption DEF NewRow, RowType, Statuses

\* The initial state has the types of the columns and of Stripe's objects.
LEMMA TypeInit == Init => TypeOK
<1> SUFFICES ASSUME Init PROVE TypeOK
  OBVIOUS
<1>1. PICK p \in Plans : row = NewRow(p) /\ job.plan = p
  BY DEF Init
<1>2. row \in RowType /\ row.plan \in Plans
  BY <1>1, NewRowType DEF RowType
<1>3. job \in JobType
  BY DEF Init, JobType
<1>4. subs \in [SubIds -> SubType]
  BY DEF Init, SubType, SubIds
<1>5. events \in [1 .. MaxEvents -> EventType]
  <2>1. <<1, row.plan>> \in SubIds
    BY <1>2, BillingAssumption DEF SubIds, Customers, Runs
  <2>2. [kind |-> "updated", sub |-> <<1, row.plan>>, status |-> "active"]
            \in EventType
    BY <2>1 DEF EventType, StripeStatuses
  <2> QED
    BY <2>2 DEF Init
<1>6. owner \in [Owners -> CallType] /\ renamer \in [Renamers -> CallType]
  <2>1. IdleCall \in CallType
    BY NewRowType, BillingAssumption DEF IdleCall, CallType
  <2> QED
    BY <2>1 DEF Init
<1>7. cron \in [Instances -> {"idle", "cancel", "suspend"}]
  BY DEF Init
<1>8. /\ today \in Nat /\ customers \in 0 .. Runs /\ sent \in 0 .. MaxEvents
      /\ pending \subseteq 1 .. MaxEvents /\ found \subseteq pending
      /\ suspendedOn \in Nat /\ latest \in 0 .. MaxEvents
  BY BillingAssumption DEF Init, Runs
<1>9. astray \in BOOLEAN
  BY DEF Init
<1> QED
  BY <1>2, <1>3, <1>4, <1>5, <1>6, <1>7, <1>8, <1>9 DEF TypeOK

\* With the types: a job that has come to its customer has one, and a plan
\* switch that calls Stripe has read a subscription.
TypeInv ==
    /\ TypeOK
    /\ job.pc \in {"store", "subscribe", "record"} => job.customer \in Customers
    /\ \A o \in Owners : owner[o].pc \in {"retrieve", "switch"}
                             => owner[o].read.sub \in SubIds

\* No step of the job leaves the types.
LEMMA TypeJob == TypeInv /\ Job => TypeInv'
<1> SUFFICES ASSUME TypeInv, Job PROVE TypeInv'
  OBVIOUS
<1>t. TypeOK
  BY DEF TypeInv
<1>o. UNCHANGED owner
  BY DEF Job, JobLoad, JobCustomer, JobStoreCustomer, JobSubscribe, JobRecord,
         JobDone, JobFails, JobStalls
<1>p. /\ row.plan \in Plans /\ row.customer \in Customers \cup {0}
      /\ row.trialEnds \in {0, TrialDays} /\ row \in RowType
  BY <1>t DEF TypeOK, RowType
<1>j. /\ job.customer \in Customers \cup {0} /\ job.plan \in Plans
      /\ job.tries \in Nat /\ job.stalls \in Nat /\ job \in JobType
  BY <1>t DEF TypeOK, JobType
<1>m. ASSUME job' \in JobType, row' \in RowType, subs' \in [SubIds -> SubType],
             customers' \in 0 .. Runs, astray' \in BOOLEAN,
             UNCHANGED <<today, events, sent, pending, found, renamer, cron,
                         suspendedOn, latest>>
      PROVE  TypeOK'
  BY <1>t, <1>o, <1>m DEF TypeOK
<1>c. ASSUME job' \in JobType, row' \in RowType, subs' \in [SubIds -> SubType],
             customers' \in 0 .. Runs, astray' \in BOOLEAN,
             UNCHANGED <<today, events, sent, pending, found, renamer, cron,
                         suspendedOn, latest>>,
             job'.pc \in {"store", "subscribe", "record"} => job'.customer \in Customers
      PROVE  TypeInv'
  BY <1>o, <1>m, <1>c DEF TypeInv
<1>1. CASE JobLoad
  <2>1. job' \in JobType
    BY <1>1, <1>p, <1>j DEF JobLoad, JobType
  <2>2. job'.pc = "subscribe" => job'.customer \in Customers
    BY <1>1, <1>p, <1>j DEF JobLoad, JobType
  <2>3. job'.pc \in {"customer", "subscribe"}
    BY <1>1, <1>j DEF JobLoad, JobType
  <2> QED
    BY <1>1, <1>t, <1>p, <1>c, <2>1, <2>2, <2>3 DEF JobLoad, stripe, TypeOK
<1>2. CASE JobCustomer
  <2>1. customers + 1 \in Customers /\ customers' \in 0 .. Runs
    BY <1>2, <1>t, BillingAssumption DEF JobCustomer, Customers, Runs, TypeOK
  <2>2. job' \in JobType /\ job'.customer \in Customers
    BY <1>2, <1>j, <2>1 DEF JobCustomer, JobType
  <2> QED
    BY <1>2, <1>t, <1>p, <1>c, <2>1, <2>2 DEF JobCustomer, TypeOK
<1>3. CASE JobStoreCustomer
  <2>1. row' \in RowType
    BY <1>3, <1>p, <1>j DEF JobStoreCustomer, RowType
  <2>2. job' \in JobType /\ job'.customer = job.customer
    BY <1>3, <1>j DEF JobStoreCustomer, JobType
  <2> QED
    BY <1>3, <1>t, <1>c, <2>1, <2>2 DEF JobStoreCustomer, stripe, TypeOK, TypeInv
<1>4. CASE JobSubscribe
  <2>1. subs' \in [SubIds -> SubType]
    <3> DEFINE id == <<job.customer, job.plan>>
    <3>1. CASE subs' = subs
      BY <1>t, <3>1 DEF TypeOK
    <3>2. ASSUME NEW s \in {"trialing", "active"}, NEW b \in BOOLEAN,
                 subs' = [subs EXCEPT ![id].status = s, ![id].trial = b]
          PROVE  subs' \in [SubIds -> SubType]
      <4> DEFINE n == [subs[id] EXCEPT !.status = s, !.trial = b]
      <4>1. subs' = [subs EXCEPT ![id] = n]
        BY <3>2
      <4>2. subs \in [SubIds -> SubType]
        BY <1>t DEF TypeOK
      <4> HIDE DEF id
      <4>3. ASSUME id \in SubIds PROVE n \in SubType
        BY <4>2, <4>3 DEF SubType, StripeStatuses
      <4> HIDE DEF n
      <4> QED
        BY <4>1, <4>2, <4>3
    <3>3. \/ subs' = subs
          \/ \E s \in {"trialing", "active"}, b \in BOOLEAN :
                 subs' = [subs EXCEPT ![id].status = s, ![id].trial = b]
      <4> DEFINE b == today < job.trialEnds
                 s == IF b THEN "trialing" ELSE "active"
      <4>1. subs' = subs \/ subs' = [subs EXCEPT ![id].status = s, ![id].trial = b]
        BY <1>4 DEF JobSubscribe
      <4>2. s \in {"trialing", "active"} /\ b \in BOOLEAN
        OBVIOUS
      <4> HIDE DEF s, b, id
      <4> QED
        BY <4>1, <4>2
    <3> QED
      BY <3>1, <3>2, <3>3
  <2>2. job' \in JobType /\ job'.customer = job.customer
    <3> DEFINE b == today < job.trialEnds
    <3>1. job' = [job EXCEPT !.pc = "record", !.trial = b] /\ b \in BOOLEAN
      BY <1>4 DEF JobSubscribe
    <3> HIDE DEF b
    <3> QED
      BY <1>j, <3>1 DEF JobType
  <2>3. job.customer \in Customers
    BY <1>4 DEF JobSubscribe, TypeInv
  <2>4. UNCHANGED <<today, row, customers, events, sent, pending, found, renamer, cron,
                    suspendedOn, latest, astray>>
    BY <1>4 DEF JobSubscribe
  <2> QED
    BY <1>t, <1>p, <1>c, <2>1, <2>2, <2>3, <2>4 DEF TypeOK
<1>5. CASE JobRecord
  <2>1. <<job.customer, job.plan>> \in SubIds
    BY <1>5, <1>j DEF JobRecord, TypeInv, SubIds
  <2>2. row' \in RowType
    BY <1>5, <1>p, <2>1 DEF JobRecord, RowType, Statuses
  <2>3. job' \in JobType /\ job'.pc = "ack"
    BY <1>5, <1>j DEF JobRecord, JobType
  <2>4. astray' \in BOOLEAN
    BY <1>5, <1>t DEF JobRecord, TypeOK
  <2> QED
    BY <1>5, <1>t, <1>c, <2>2, <2>3, <2>4 DEF JobRecord, stripe, TypeOK
<1>6. CASE JobDone
  <2>1. job' \in JobType /\ job'.pc = "done"
    BY <1>6, <1>j DEF JobDone, JobType
  <2> QED
    BY <1>6, <1>t, <1>p, <1>c, <2>1 DEF JobDone, stripe, TypeOK
<1>7. CASE JobFails
  <2>1. job' \in JobType /\ job'.pc \in {"queued", "failed"}
    <3>1. PICK pc \in {"queued", "failed"} :
              job' = [job EXCEPT !.pc = pc, !.tries = job.tries + 1]
      BY <1>7 DEF JobFails
    <3>2. job.tries + 1 \in Nat
      BY <1>j
    <3> DEFINE n == job.tries + 1
    <3> HIDE DEF n
    <3>3. job' = [job EXCEPT !.pc = pc, !.tries = n] /\ n \in Nat
      BY <3>1, <3>2 DEF n
    <3> QED
      BY <1>j, <3>3 DEF JobType
  <2> QED
    BY <1>7, <1>t, <1>p, <1>c, <2>1 DEF JobFails, stripe, TypeOK
<1>8. CASE JobStalls
  <2>1. job' \in JobType /\ job'.pc \in {"queued", "failed"}
    <3>1. PICK pc \in {"queued", "failed"} :
              job' = [job EXCEPT !.pc = pc, !.stalls = job.stalls + 1]
      BY <1>8 DEF JobStalls
    <3>2. job.stalls + 1 \in Nat
      BY <1>j
    <3> DEFINE n == job.stalls + 1
    <3> HIDE DEF n
    <3>3. job' = [job EXCEPT !.pc = pc, !.stalls = n] /\ n \in Nat
      BY <3>1, <3>2 DEF n
    <3> QED
      BY <1>j, <3>3 DEF JobType
  <2> QED
    BY <1>8, <1>t, <1>p, <1>c, <2>1 DEF JobStalls, stripe, TypeOK
<1> QED
  BY <1>1, <1>2, <1>3, <1>4, <1>5, <1>6, <1>7, <1>8 DEF Job

\* A change of a subscription sends events of Stripe's kinds.
LEMMA TypeStripe ==
  ASSUME TypeInv, NEW id \in SubIds, StripeChanges(id) \/ PaymentFails(id)
  PROVE  TypeInv'
<1>t. TypeOK
  BY DEF TypeInv
<1>0. UNCHANGED <<today, row, job, customers, found, owner, renamer, cron,
                  suspendedOn, latest, astray>>
  BY DEF StripeChanges, PaymentFails
<1>m. ASSUME subs' \in [SubIds -> SubType], events' \in [1 .. MaxEvents -> EventType],
             sent' \in 0 .. MaxEvents, pending' \subseteq 1 .. MaxEvents,
             pending \subseteq pending'
      PROVE  TypeInv'
  BY <1>0, <1>m, <1>t DEF TypeInv, TypeOK
<1>1. CASE StripeChanges(id)
  <2>1. PICK s \in Leads(subs[id].status) :
            /\ sent < MaxEvents
            /\ subs' = [subs EXCEPT ![id].status = s]
            /\ \E kind \in {"updated", "deleted"} :
                   events' = [events EXCEPT ![sent + 1] = Event(kind, id, s)]
            /\ sent' = sent + 1
            /\ pending' = pending \cup {sent + 1}
    BY <1>1 DEF StripeChanges
  <2>2. s \in StripeStatuses
    BY <2>1 DEF Leads, StripeStatuses
  <2>3. subs' \in [SubIds -> SubType]
    BY <1>t, <2>1, <2>2 DEF TypeOK, SubType
  <2>4. \A kind \in {"updated", "deleted"} : Event(kind, id, s) \in EventType
    BY <2>2 DEF Event, EventType
  <2>5. events' \in [1 .. MaxEvents -> EventType]
    BY <1>t, <2>1, <2>4 DEF TypeOK
  <2>6. sent + 1 \in 1 .. MaxEvents
    BY <1>t, <2>1, BillingAssumption DEF TypeOK
  <2> QED
    BY <1>m, <1>t, <2>1, <2>3, <2>5, <2>6 DEF TypeOK
<1>2. CASE PaymentFails(id)
  <2>1. subs' \in [SubIds -> SubType]
    BY <1>2, <1>t DEF PaymentFails, TypeOK, SubType, StripeStatuses
  <2>2. Event("failed", id, "past_due") \in EventType
        /\ Event("updated", id, "past_due") \in EventType
    BY DEF Event, EventType, StripeStatuses
  <2>3. events' \in [1 .. MaxEvents -> EventType]
    BY <1>2, <1>t, <2>2 DEF PaymentFails, TypeOK
  <2>4. sent + 1 \in 1 .. MaxEvents /\ sent + 2 \in 1 .. MaxEvents
    BY <1>2, <1>t, BillingAssumption DEF PaymentFails, TypeOK
  <2> QED
    BY <1>2, <1>m, <1>t, <2>1, <2>3, <2>4 DEF PaymentFails, TypeOK
<1> QED
  BY <1>1, <1>2

\* The payment statuses the events stand for.
LEMMA StatusType == \A e \in EventType : StatusOf(e) \in Statuses
<1> SUFFICES ASSUME NEW e \in EventType PROVE StatusOf(e) \in Statuses
  OBVIOUS
<1>1. e.kind \in {"updated", "deleted", "failed"} /\ e.status \in StripeStatuses
  BY DEF EventType
<1>2. PaymentStatus(e.status) \in Statuses
  BY <1>1 DEF PaymentStatus, StripeStatuses, Statuses
<1> HIDE DEF PaymentStatus
<1>3. e.kind = "updated" => StatusOf(e) = PaymentStatus(e.status)
  BY DEF StatusOf
<1>4. e.kind = "deleted" => StatusOf(e) = "CANCELLED"
  BY DEF StatusOf
<1>5. e.kind = "failed" => StatusOf(e) = "SUSPENDED"
  BY DEF StatusOf
<1> QED
  BY <1>1, <1>2, <1>3, <1>4, <1>5 DEF Statuses

\* The handler of an event writes a status.
LEMMA TypeHandler ==
  ASSUME TypeInv, NEW n \in 1 .. MaxEvents, Receive(n) \/ Apply(n) \/ HandlerFails(n)
  PROVE  TypeInv'
<1>t. TypeOK
  BY DEF TypeInv
<1>1. CASE Receive(n)
  <2>1. \/ found' = found \cup {n} /\ pending' = pending
        \/ found' = found /\ pending' = pending \ {n}
    BY <1>1 DEF Receive
  <2>2. n \in pending /\ n \notin found
    BY <1>1 DEF Receive
  <2>3. found' \subseteq pending' /\ pending' \subseteq 1 .. MaxEvents
    BY <1>t, <2>1, <2>2 DEF TypeOK
  <2>4. UNCHANGED <<today, row, job, customers, subs, events, sent, owner,
                    renamer, cron, suspendedOn, latest>>
    BY <1>1 DEF Receive
  <2>5. astray' \in BOOLEAN
    BY <1>1, <1>t DEF Receive, TypeOK
  <2> QED
    BY <1>t, <2>3, <2>4, <2>5 DEF TypeInv, TypeOK
<1>2. CASE Apply(n)
  <2> DEFINE s == StatusOf(events[n])
  <2>1. s \in Statuses
    BY <1>t, StatusType DEF TypeOK
  <2>2. row' \in RowType
    <3> DEFINE b == row.active /\ s # "CANCELLED"
    <3>1. row' = [row EXCEPT !.status = s, !.active = b] /\ b \in BOOLEAN
      BY <1>2 DEF Apply
    <3>2. row \in RowType
      BY <1>t DEF TypeOK
    <3> HIDE DEF s, b
    <3> QED
      BY <2>1, <3>1, <3>2 DEF RowType
  <2>3. found' \subseteq pending' /\ pending' \subseteq 1 .. MaxEvents
    BY <1>2, <1>t DEF Apply, TypeOK
  <2>4. latest' \in 0 .. MaxEvents /\ astray' \in BOOLEAN
    BY <1>2, <1>t DEF Apply, TypeOK
  <2> QED
    BY <1>2, <1>t, <2>2, <2>3, <2>4 DEF Apply, TypeInv, TypeOK
<1>3. CASE HandlerFails(n)
  BY <1>3, <1>t DEF HandlerFails, stripe, TypeInv, TypeOK
<1> QED
  BY <1>1, <1>2, <1>3

\* Every column of what a save leaves is the row's or the object's.
LEMMA WrittenColumns ==
  ASSUME row \in RowType, NEW obj \in RowType, NEW d \in SUBSET Columns
  PROVE  /\ Written(obj, d) \in RowType
         /\ Written(obj, d).plan \in {row.plan, obj.plan}
         /\ Written(obj, d).sub \in {row.sub, obj.sub}
         /\ Written(obj, d).status \in {row.status, obj.status}
<1> DEFINE w == Written(obj, d)
<1>1. /\ w.plan = (IF "plan" \in d THEN obj.plan ELSE row.plan)
      /\ w.customer = (IF "customer" \in d THEN obj.customer ELSE row.customer)
      /\ w.sub = (IF "sub" \in d THEN obj.sub ELSE row.sub)
      /\ w.status = (IF "status" \in d THEN obj.status ELSE row.status)
      /\ w.active = (IF "active" \in d THEN obj.active ELSE row.active)
      /\ w.trialEnds = (IF "trialEnds" \in d THEN obj.trialEnds
                        ELSE row.trialEnds)
      /\ w = [plan |-> w.plan, customer |-> w.customer, sub |-> w.sub,
              status |-> w.status, active |-> w.active,
              trialEnds |-> w.trialEnds]
  BY DEF Written
<1> HIDE DEF w
<1>2. w \in RowType
  BY <1>1 DEF RowType
<1> QED
  BY <1>1, <1>2 DEF w

\* What updatePlan makes of the row it read.
LEMMA SwitchedType ==
  \A c \in CallType : /\ Switched(c) \in RowType
                      /\ Switched(c).sub = c.read.sub
                      /\ Switched(c).status \in {c.read.status, "ACTIVE"}
  BY DEF Switched, CallType, RowType, Statuses

\* IdleCall is one that is not at work.
LEMMA IdleType == IdleCall \in CallType /\ IdleCall.pc = "idle"
                  /\ IdleCall.read.sub = NoSub /\ IdleCall.read.status = "FREE"
  BY NewRowType, BillingAssumption DEF IdleCall, CallType, NewRow

\* One call of a plan switch goes on to another step.
LEMMA TypeGoesOn ==
  ASSUME TypeInv, NEW o \in Owners, NEW k \in CallType,
         owner' = [owner EXCEPT ![o] = k], k.pc \in {"retrieve", "switch"}
             => k.read.sub \in SubIds,
         row' \in RowType,
         UNCHANGED <<today, job, stripe, found, renamer, cron, suspendedOn,
                     latest, astray>>
  PROVE  TypeInv'
<1>1. owner' \in [Owners -> CallType]
  BY DEF TypeInv, TypeOK
<1>2. \A q \in Owners : owner'[q] = IF q = o THEN k ELSE owner[q]
  BY DEF TypeInv, TypeOK
<1>3. TypeOK'
  BY <1>1 DEF TypeInv, TypeOK, stripe
<1> QED
  BY <1>2, <1>3 DEF TypeInv

\* A plan switch keeps the types, at every call.
LEMMA TypeOwner ==
  ASSUME TypeInv, NEW o \in Owners, SwitchPlan(o)
  PROVE  TypeInv'
<1>t. TypeOK /\ row \in RowType /\ owner \in [Owners -> CallType]
  BY DEF TypeInv, TypeOK
<1>o. PICK k : k = owner[o]
  OBVIOUS
<1>k. k \in CallType /\ k.read \in RowType /\ k.plan \in Plans
  BY <1>t, <1>o DEF CallType
<1>1. CASE updatePlan(o)
  <2>1. PICK p \in Plans :
            owner' = [owner EXCEPT ![o] = [pc |-> "retrieve", read |-> row,
                                           plan |-> p, diff |-> {}]]
    BY <1>1, BillingAssumption DEF updatePlan
  <2> DEFINE n == [pc |-> "retrieve", read |-> row, plan |-> p, diff |-> {}]
  <2>2. n \in CallType
    BY <1>t DEF CallType
  <2>3. n.read.sub \in SubIds
    BY <1>1, <1>t DEF updatePlan, RowType
  <2> HIDE DEF n
  <2> QED
    BY <1>1, <1>t, <2>1, <2>2, <2>3, TypeGoesOn DEF updatePlan, n
<1>2. CASE Retrieve(o)
  <2> DEFINE n == [k EXCEPT !.pc = "switch"]
  <2>1. owner' = [owner EXCEPT ![o] = n] /\ k.pc = "retrieve"
    BY <1>2, <1>o, <1>t DEF Retrieve
  <2>2. n \in CallType /\ n.read = k.read
    BY <1>k DEF CallType
  <2>3. n.read.sub \in SubIds
    BY <2>1, <2>2, <1>o DEF TypeInv
  <2> HIDE DEF n
  <2> QED
    BY <1>2, <1>t, <2>1, <2>2, <2>3, TypeGoesOn DEF Retrieve
<1>3. CASE SwitchPrice(o)
  <2>1. PICK id : id = k.read.sub
    OBVIOUS
  <2>2. PICK s : s = IF subs[id].status = "trialing" THEN "active"
                     ELSE subs[id].status
    OBVIOUS
  <2>3. /\ k.pc = "switch" /\ s \notin {"none", "canceled"} /\ sent < MaxEvents
        /\ subs' = [subs EXCEPT ![id].price = k.plan, ![id].status = s]
        /\ events' = [events EXCEPT ![sent + 1] = Event("updated", id, s)]
        /\ sent' = sent + 1 /\ pending' = pending \cup {sent + 1}
        /\ owner' = [owner EXCEPT ![o].pc = "save"]
        /\ UNCHANGED <<today, row, job, customers, found, renamer, cron,
                       suspendedOn, latest, astray>>
    BY <1>3, <1>o, <2>1, <2>2 DEF SwitchPrice
  <2>4. id \in SubIds
    BY <2>1, <2>3, <1>o DEF TypeInv
  <2>5. subs[id] \in SubType /\ s \in StripeStatuses
    BY <1>t, <2>2, <2>3, <2>4 DEF TypeOK, SubType, StripeStatuses
  <2>6. subs' \in [SubIds -> SubType]
    <3> DEFINE n == [subs[id] EXCEPT !.price = k.plan, !.status = s]
    <3>1. subs' = [subs EXCEPT ![id] = n]
      BY <2>3
    <3>2. n \in SubType
      BY <2>5, <1>k DEF SubType
    <3> HIDE DEF n
    <3> QED
      BY <1>t, <3>1, <3>2 DEF TypeOK
  <2>7. events' \in [1 .. MaxEvents -> EventType]
    <3>1. Event("updated", id, s) \in EventType
      BY <2>4, <2>5 DEF Event, EventType
    <3> QED
      BY <1>t, <2>3, <3>1 DEF TypeOK
  <2>8. sent + 1 \in 1 .. MaxEvents
    BY <1>t, <2>3, BillingAssumption DEF TypeOK
  <2>9. owner' \in [Owners -> CallType]
    BY <1>t, <2>3 DEF CallType
  <2>10. \A q \in Owners : owner'[q].pc \in {"retrieve", "switch"}
                               => owner'[q] = owner[q]
    BY <1>t, <2>3 DEF CallType
  <2>11. TypeOK'
    BY <1>t, <2>3, <2>6, <2>7, <2>8, <2>9 DEF TypeOK
  <2> QED
    BY <2>3, <2>10, <2>11 DEF TypeInv
<1>4. CASE SelectPlan(o)
  <2>1. PICK d : d = Differing(Switched(k))
    OBVIOUS
  <2> DEFINE n == [k EXCEPT !.pc = "update", !.diff = d]
  <2>2. owner' = [owner EXCEPT ![o] = n]
    BY <1>4, <1>o, <1>t, <2>1 DEF SelectPlan
  <2>3. d \subseteq Columns
    BY <2>1 DEF Differing
  <2>4. n \in CallType /\ n.pc = "update"
    BY <1>k, <2>3 DEF CallType
  <2> HIDE DEF n
  <2> QED
    BY <1>4, <1>t, <2>2, <2>4, TypeGoesOn DEF SelectPlan
<1>5. CASE SavePlan(o)
  <2>1. row' \in RowType
    BY <1>5, <1>t, SwitchedType, WrittenColumns DEF SavePlan, CallType
  <2> QED
    BY <1>5, <2>1, IdleType, TypeGoesOn DEF SavePlan
<1>6. CASE SwitchFails(o)
  BY <1>6, <1>t, IdleType, TypeGoesOn DEF SwitchFails
<1> QED
  BY <1>1, <1>2, <1>3, <1>4, <1>5, <1>6 DEF SwitchPlan

\* So does a rename.
LEMMA TypeRenamer ==
  ASSUME TypeInv, NEW r \in Renamers, Rename(r)
  PROVE  TypeInv'
<1>t. TypeOK /\ row \in RowType /\ renamer \in [Renamers -> CallType]
  BY DEF TypeInv, TypeOK
<1>r. PICK k : k = renamer[r]
  OBVIOUS
<1>k. k \in CallType /\ k.read \in RowType /\ k.diff \subseteq Columns
  BY <1>t, <1>r DEF CallType
<1>m. ASSUME NEW n \in CallType, renamer' = [renamer EXCEPT ![r] = n],
             row' \in RowType,
             UNCHANGED <<today, job, stripe, found, owner, cron, suspendedOn,
                         latest, astray>>
      PROVE  TypeInv'
  <2>1. renamer' \in [Renamers -> CallType]
    BY <1>m, <1>t
  <2> QED
    BY <1>m, <1>t, <2>1 DEF TypeInv, TypeOK, stripe
<1>1. CASE updateName(r)
  <2>1. [IdleCall EXCEPT !.pc = "save", !.read = row] \in CallType
    BY <1>t, IdleType DEF CallType
  <2> QED
    BY <1>1, <1>t, <1>m, <2>1 DEF updateName
<1>2. CASE SelectName(r)
  <2>1. PICK d : d = Differing(k.read)
    OBVIOUS
  <2> DEFINE n == [k EXCEPT !.pc = "update", !.diff = d]
  <2>2. renamer' = [renamer EXCEPT ![r] = n]
    BY <1>2, <1>r, <1>t, <2>1 DEF SelectName
  <2>3. d \subseteq Columns
    BY <2>1 DEF Differing
  <2>4. n \in CallType
    BY <1>k, <2>3 DEF CallType
  <2> HIDE DEF n
  <2> QED
    BY <1>2, <1>t, <1>m, <2>2, <2>4 DEF SelectName
<1>3. CASE SaveName(r)
  <2>1. row' \in RowType
    BY <1>3, <1>t, <1>k, <1>r, WrittenColumns DEF SaveName
  <2> QED
    BY <1>3, <1>m, <2>1, IdleType DEF SaveName
<1>4. CASE RenameFails(r)
  BY <1>4, <1>t, <1>m, IdleType DEF RenameFails
<1> QED
  BY <1>1, <1>2, <1>3, <1>4 DEF Rename

\* The phases of the trial expiry, and midnight.
LEMMA TypeCron ==
  ASSUME TypeInv, Tick \/ \E i \in Instances : Cron(i)
  PROVE  TypeInv'
<1>t. TypeOK
  BY DEF TypeInv
<1>p. ASSUME NEW i \in Instances, NEW q \in {"cancel", "suspend"}, Passed(i, q)
      PROVE  cron' \in [Instances -> {"idle", "cancel", "suspend"}]
  BY <1>p, <1>t DEF Passed, PhaseOrder, TypeOK
<1>1. CASE Tick
  <2>1. cron' \in [Instances -> {"idle", "cancel", "suspend"}]
    BY <1>1 DEF Tick, PhaseOrder
  <2> QED
    BY <1>1, <1>t, <2>1 DEF Tick, stripe, TypeInv, TypeOK
<1>2. ASSUME NEW i \in Instances, CancelPhase(i) PROVE TypeInv'
  <2>1. row' \in RowType
    BY <1>2, <1>t DEF CancelPhase, TypeOK, RowType, Statuses
  <2>2. cron' \in [Instances -> {"idle", "cancel", "suspend"}]
    BY <1>2, <1>p DEF CancelPhase
  <2> QED
    BY <1>2, <1>t, <2>1, <2>2 DEF CancelPhase, stripe, TypeInv, TypeOK
<1>3. ASSUME NEW i \in Instances, SuspendPhase(i) PROVE TypeInv'
  <2>1. row' \in RowType /\ suspendedOn' \in Nat
    BY <1>3, <1>t DEF SuspendPhase, TypeOK, RowType, Statuses
  <2>2. cron' \in [Instances -> {"idle", "cancel", "suspend"}]
    BY <1>3, <1>p DEF SuspendPhase
  <2> QED
    BY <1>3, <1>t, <2>1, <2>2 DEF SuspendPhase, stripe, TypeInv, TypeOK
<1>4. ASSUME NEW i \in Instances, PhaseFails(i) PROVE TypeInv'
  <2>1. cron[i] \in {"cancel", "suspend"}
    BY <1>4, <1>t DEF PhaseFails, TypeOK
  <2>2. cron' \in [Instances -> {"idle", "cancel", "suspend"}]
    BY <1>4, <1>p, <2>1 DEF PhaseFails
  <2> QED
    BY <1>4, <1>t, <2>2 DEF PhaseFails, stripe, TypeInv, TypeOK
<1> QED
  BY <1>1, <1>2, <1>3, <1>4 DEF Cron

LEMMA TypeStep == TypeInv /\ [Next]_vars => TypeInv'
<1>1. TypeInv /\ UNCHANGED vars => TypeInv'
  BY DEF vars, stripe, TypeInv, TypeOK
<1> QED
  BY <1>1, TypeJob, TypeStripe, TypeHandler, TypeOwner, TypeRenamer, TypeCron
  DEF Next

LEMMA TypeInvariant == Spec => []TypeInv
<1>1. Init => TypeInv
  <2> SUFFICES ASSUME Init PROVE TypeInv
    OBVIOUS
  <2>1. job.pc \in {"none", "queued"}
    BY DEF Init
  <2>2. \A o \in Owners : owner[o].pc = "idle"
    BY DEF Init, IdleCall
  <2> QED
    BY <2>1, <2>2, TypeInit DEF TypeInv
<1> QED
  BY <1>1, TypeStep, PTL DEF Spec

\* The types of Billing hold in every reachable state.
THEOREM TypeCorrect == Spec => []TypeOK
<1>1. TypeInv => TypeOK
  BY DEF TypeInv
<1> QED
  BY <1>1, TypeInvariant, PTL

-----------------------------------------------------------------------------
(***************************************************************************)
(* Cancelled organizations.  The status CANCELLED comes from an event,     *)
(* from the cron or from a stale row; so every event on its way that says  *)
(* so is of a canceled subscription, and every row a rename has read obeys *)
(* what the row obeys.  A canceled subscription stays canceled.            *)
(***************************************************************************)
CancelInv ==
    /\ row.status = "CANCELLED" => Over
    /\ \A r \in Renamers : renamer[r].read.status = "CANCELLED" => Over
    /\ \A o \in Owners :
           owner[o].pc # "idle" => owner[o].read.status \in {"ACTIVE", "TRIAL"}
    /\ \A n \in pending :
           StatusOf(events[n]) = "CANCELLED"
               => subs[events[n].sub].status = "canceled"

\* What Stripe has canceled stays so, and time does not go back.
LEMMA CanceledStays ==
  ASSUME TypeInv, [Next]_vars
  PROVE  /\ \A id \in SubIds :
                subs[id].status = "canceled" => subs'[id].status = "canceled"
         /\ today' >= today
<1>t. TypeOK
  BY DEF TypeInv
<1> DEFINE Keeps == \A id \in SubIds :
                       subs[id].status = "canceled" => subs'[id].status = "canceled"
<1>1. CASE Job
  <2>1. today' = today
    BY <1>1 DEF Job, JobLoad, JobCustomer, JobStoreCustomer, JobSubscribe, JobRecord,
                JobDone, JobFails, JobStalls
  <2>2. CASE JobSubscribe
    <3> DEFINE key == <<job.customer, job.plan>>
    <3>1. \/ subs' = subs
          \/ /\ subs[key].status = "none"
             /\ \A id \in SubIds \ {key} : subs'[id] = subs[id]
      BY <2>2, <1>t DEF JobSubscribe, TypeOK
    <3> HIDE DEF key
    <3>2. Keeps
      BY <3>1
    <3> QED
      BY <1>t, <2>1, <3>2 DEF TypeOK
  <2>3. CASE ~JobSubscribe
    <3>1. UNCHANGED subs
      BY <1>1, <2>3 DEF Job, JobLoad, JobCustomer, JobStoreCustomer, JobRecord,
                        JobDone, JobFails, JobStalls, stripe
    <3> QED
      BY <1>t, <2>1, <3>1 DEF TypeOK
  <2> QED
    BY <2>2, <2>3
<1>2. ASSUME NEW id \in SubIds, StripeChanges(id) \/ PaymentFails(id)
      PROVE  Keeps /\ today' >= today
  <2>1. subs[id].status # "canceled"
    BY <1>2 DEF StripeChanges, PaymentFails, Leads
  <2>2. /\ \A x \in SubIds \ {id} : subs'[x] = subs[x]
        /\ today' = today
    BY <1>2, <1>t DEF StripeChanges, PaymentFails, TypeOK
  <2> QED
    BY <1>t, <2>1, <2>2 DEF TypeOK
<1>3. ASSUME NEW o \in Owners, SwitchPrice(o) PROVE Keeps /\ today' >= today
  <2> DEFINE id == owner[o].read.sub
  <2>1. subs[id].status # "canceled"
    BY <1>3 DEF SwitchPrice
  <2>2. /\ \A x \in SubIds \ {id} : subs'[x] = subs[x]
        /\ today' = today
    BY <1>3, <1>t DEF SwitchPrice, TypeOK
  <2> QED
    BY <1>t, <2>1, <2>2 DEF TypeOK
<1>4. CASE Tick
  BY <1>4, <1>t DEF Tick, stripe, TypeOK
<1>5. ASSUME \/ \E n \in 1 .. MaxEvents : Receive(n) \/ Apply(n) \/ HandlerFails(n)
             \/ \E o \in Owners : SwitchPlan(o) /\ ~SwitchPrice(o)
             \/ \E r \in Renamers : Rename(r)
             \/ \E i \in Instances : Cron(i)
             \/ UNCHANGED vars
      PROVE  UNCHANGED <<subs, today>>
  BY <1>5 DEF Receive, Apply, HandlerFails, SwitchPlan, updatePlan, Retrieve,
              SelectPlan, SavePlan, SwitchFails, Rename, updateName, SelectName,
              SaveName, RenameFails, Cron, CancelPhase, SuspendPhase, PhaseFails,
              stripe, vars
<1>6. ASSUME UNCHANGED <<subs, today>> PROVE Keeps /\ today' >= today
  BY <1>6, <1>t DEF TypeOK
<1> HIDE DEF Keeps
<1>7. Keeps /\ today' >= today
  <2>1. CASE Job
    BY <1>1, <2>1 DEF Keeps
  <2> QED
    BY <2>1, <1>2, <1>3, <1>4, <1>5, <1>6 DEF Next, Keeps
<1> QED
  BY <1>7 DEF Keeps

LEMMA OverStays == TypeInv /\ Over /\ [Next]_vars => Over'
<1> SUFFICES ASSUME TypeInv, Over, [Next]_vars PROVE Over'
  OBVIOUS
<1>1. CASE today > TrialDays + Grace
  BY <1>1, CanceledStays, TypeStep, BillingAssumption DEF Over, TypeInv, TypeOK
<1>2. CASE \E id \in SubIds : subs[id].status = "canceled"
  BY <1>2, CanceledStays DEF Over
<1> QED
  BY <1>1, <1>2 DEF Over

\* The events on their way, of every sender.
LEMMA EventsStep ==
  ASSUME TypeInv, CancelInv, [Next]_vars
  PROVE  \A n \in pending' : StatusOf(events'[n]) = "CANCELLED"
                => subs'[events'[n].sub].status = "canceled"
<1>t. TypeOK
  BY DEF TypeInv
<1>0. ASSUME events' = events, pending' \subseteq pending
      PROVE  \A n \in pending' : StatusOf(events'[n]) = "CANCELLED"
                => subs'[events'[n].sub].status = "canceled"
  <2> SUFFICES ASSUME NEW n \in pending, StatusOf(events[n]) = "CANCELLED"
               PROVE  subs'[events[n].sub].status = "canceled"
    BY <1>0
  <2>1. events[n].sub \in SubIds
    BY <1>t DEF TypeOK, EventType
  <2> QED
    BY <2>1, CanceledStays DEF CancelInv
<1>1. ASSUME NEW id \in SubIds, NEW s \in StripeStatuses,
             NEW kind \in {"updated", "deleted"},
             s # "canceled" => kind = "updated",
             subs'[id].status = s,
             events' = [events EXCEPT ![sent + 1] = Event(kind, id, s)],
             pending' = pending \cup {sent + 1}, sent + 1 \in 1 .. MaxEvents
      PROVE  \A n \in pending' : StatusOf(events'[n]) = "CANCELLED"
                => subs'[events'[n].sub].status = "canceled"
  <2> SUFFICES ASSUME NEW n \in pending', StatusOf(events'[n]) = "CANCELLED"
               PROVE  subs'[events'[n].sub].status = "canceled"
    OBVIOUS
  <2>1. CASE n = sent + 1
    <3>1. events'[n] = Event(kind, id, s)
      BY <1>1, <1>t, <2>1 DEF TypeOK
    <3>2. s = "canceled"
      <4>1. SUFFICES ASSUME s # "canceled" PROVE FALSE
        OBVIOUS
      <4>2. StatusOf(Event(kind, id, s)) = PaymentStatus(s)
        BY <1>1, <4>1 DEF StatusOf, Event
      <4>3. PaymentStatus(s) # "CANCELLED"
        BY <4>1 DEF PaymentStatus, StripeStatuses
      <4> QED
        BY <3>1, <4>2, <4>3
    <3> QED
      BY <1>1, <3>1, <3>2 DEF Event
  <2>2. CASE n # sent + 1
    <3>1. n \in pending /\ events'[n] = events[n]
      BY <1>1, <1>t, <2>2 DEF TypeOK
    <3>2. events[n].sub \in SubIds
      BY <1>t, <3>1 DEF TypeOK, EventType
    <3> QED
      BY <3>1, <3>2, CanceledStays DEF CancelInv
  <2> QED
    BY <2>1, <2>2
<1>2. ASSUME NEW id \in SubIds, StripeChanges(id)
      PROVE  \A n \in pending' : StatusOf(events'[n]) = "CANCELLED"
                => subs'[events'[n].sub].status = "canceled"
  <2>1. PICK s \in Leads(subs[id].status) :
            /\ subs' = [subs EXCEPT ![id].status = s]
            /\ \E kind \in {"updated", "deleted"} :
                   /\ kind = "deleted" => s = "canceled"
                   /\ events' = [events EXCEPT ![sent + 1] = Event(kind, id, s)]
            /\ pending' = pending \cup {sent + 1}
            /\ sent < MaxEvents
    BY <1>2 DEF StripeChanges
  <2>2. s \in StripeStatuses
    BY <2>1 DEF Leads, StripeStatuses
  <2>3. subs'[id].status = s
    BY <1>t, <2>1 DEF TypeOK, SubType
  <2>4. sent + 1 \in 1 .. MaxEvents
    BY <1>t, <2>1, BillingAssumption DEF TypeOK
  <2>5. PICK kind \in {"updated", "deleted"} :
            /\ s # "canceled" => kind = "updated"
            /\ events' = [events EXCEPT ![sent + 1] = Event(kind, id, s)]
    BY <2>1
  <2> QED
    BY <1>1, <2>1, <2>2, <2>3, <2>4, <2>5
<1>3. ASSUME NEW id \in SubIds, PaymentFails(id)
      PROVE  \A n \in pending' : StatusOf(events'[n]) = "CANCELLED"
                => subs'[events'[n].sub].status = "canceled"
  <2>1. \A e \in {Event("failed", id, "past_due"), Event("updated", id, "past_due")} :
            StatusOf(e) # "CANCELLED"
    BY DEF StatusOf, Event, PaymentStatus
  <2> SUFFICES ASSUME NEW n \in pending', StatusOf(events'[n]) = "CANCELLED"
               PROVE  subs'[events'[n].sub].status = "canceled"
    OBVIOUS
  <2>2. n # sent + 1 /\ n # sent + 2
    BY <1>3, <1>t, <2>1, BillingAssumption DEF PaymentFails, TypeOK
  <2>3. n \in pending /\ events'[n] = events[n]
    BY <1>3, <1>t, <2>2 DEF PaymentFails, TypeOK
  <2>4. events[n].sub \in SubIds
    BY <1>t, <2>3 DEF TypeOK, EventType
  <2> QED
    BY <2>3, <2>4, CanceledStays DEF CancelInv
<1>4. ASSUME NEW o \in Owners, SwitchPrice(o)
      PROVE  \A n \in pending' : StatusOf(events'[n]) = "CANCELLED"
                => subs'[events'[n].sub].status = "canceled"
  <2> DEFINE id == owner[o].read.sub
             s  == IF subs[id].status = "trialing" THEN "active" ELSE subs[id].status
  <2>1. id \in SubIds
    BY <1>4 DEF SwitchPrice, TypeInv
  <2>2. /\ s \notin {"none", "canceled"} /\ sent < MaxEvents
        /\ subs' = [subs EXCEPT ![id].price = owner[o].plan, ![id].status = s]
        /\ events' = [events EXCEPT ![sent + 1] = Event("updated", id, s)]
        /\ pending' = pending \cup {sent + 1}
    BY <1>4 DEF SwitchPrice
  <2>3. s \in StripeStatuses
    BY <1>t, <2>1, <2>2 DEF TypeOK, SubType, StripeStatuses
  <2> HIDE DEF id, s
  <2>4. subs'[id].status = s
    BY <1>t, <2>1, <2>2 DEF TypeOK, SubType
  <2>5. sent + 1 \in 1 .. MaxEvents
    BY <1>t, <2>2, BillingAssumption DEF TypeOK
  <2> QED
    BY <1>1, <2>1, <2>2, <2>3, <2>4, <2>5
<1>5. ASSUME \/ Job \/ Tick \/ UNCHANGED vars
             \/ \E n \in 1 .. MaxEvents : Receive(n) \/ Apply(n) \/ HandlerFails(n)
             \/ \E o \in Owners : SwitchPlan(o) /\ ~SwitchPrice(o)
             \/ \E r \in Renamers : Rename(r)
             \/ \E i \in Instances : Cron(i)
      PROVE  events' = events /\ pending' \subseteq pending
  <2>1. CASE Job
    BY <2>1 DEF Job, JobLoad, JobCustomer, JobStoreCustomer, JobSubscribe, JobRecord,
                JobDone, JobFails, JobStalls, stripe
  <2>2. CASE Tick \/ UNCHANGED vars
    BY <2>2 DEF Tick, vars, stripe
  <2>3. ASSUME NEW n \in 1 .. MaxEvents, Receive(n) \/ Apply(n) \/ HandlerFails(n)
        PROVE  events' = events /\ pending' \subseteq pending
    <3>1. CASE Receive(n)
      <4>1. pending' = pending \/ pending' = pending \ {n}
        BY <3>1 DEF Receive
      <4>2. events' = events
        BY <3>1 DEF Receive
      <4> QED
        BY <4>1, <4>2
    <3>2. CASE Apply(n)
      BY <3>2 DEF Apply
    <3>3. CASE HandlerFails(n)
      BY <3>3 DEF HandlerFails, stripe
    <3> QED
      BY <2>3, <3>1, <3>2, <3>3
  <2>4. ASSUME \/ \E o \in Owners : SwitchPlan(o) /\ ~SwitchPrice(o)
               \/ \E r \in Renamers : Rename(r)
               \/ \E i \in Instances : Cron(i)
        PROVE  events' = events /\ pending' \subseteq pending
    BY <2>4 DEF SwitchPlan, updatePlan, Retrieve, SelectPlan, SavePlan,
                SwitchFails, Rename, updateName, SelectName, SaveName,
                RenameFails, Cron, CancelPhase, SuspendPhase, PhaseFails, stripe
  <2> QED
    BY <1>5, <2>1, <2>2, <2>3, <2>4
<1> QED
  BY <1>0, <1>2, <1>3, <1>4, <1>5 DEF Next

\* Who writes the row, and what: the job, a handler, a save and the cron.
LEMMA RowWriters ==
  ASSUME TypeInv, [Next]_vars
  PROVE  \/ row' = row
         \/ JobStoreCustomer \/ JobRecord
         \/ \E n \in 1 .. MaxEvents : Apply(n)
         \/ \E o \in Owners : SavePlan(o)
         \/ \E r \in Renamers : SaveName(r)
         \/ \E i \in Instances : CancelPhase(i) \/ SuspendPhase(i)
<1>1. ASSUME \/ Tick \/ UNCHANGED vars
             \/ \E id \in SubIds : StripeChanges(id) \/ PaymentFails(id)
             \/ \E n \in 1 .. MaxEvents : Receive(n) \/ HandlerFails(n)
             \/ \E i \in Instances : PhaseFails(i)
      PROVE  row' = row
  BY <1>1 DEF Tick, vars, StripeChanges, PaymentFails, Receive, HandlerFails,
              PhaseFails
<1>2. ASSUME Job, ~JobStoreCustomer, ~JobRecord PROVE row' = row
  BY <1>2 DEF Job, JobLoad, JobCustomer, JobSubscribe, JobDone, JobFails,
              JobStalls
<1>3. ASSUME NEW o \in Owners, SwitchPlan(o), ~SavePlan(o) PROVE row' = row
  BY <1>3 DEF SwitchPlan, updatePlan, Retrieve, SwitchPrice, SelectPlan,
              SwitchFails
<1>4. ASSUME NEW r \in Renamers, Rename(r), ~SaveName(r) PROVE row' = row
  BY <1>4 DEF Rename, updateName, SelectName, RenameFails
<1> QED
  BY <1>1, <1>2, <1>3, <1>4 DEF Next, Cron

\* The row itself, of every writer.
LEMMA RowStep ==
  ASSUME TypeInv, CancelInv, [Next]_vars
  PROVE  row'.status = "CANCELLED" => Over'
<1>t. TypeOK
  BY DEF TypeInv
<1>r. row \in RowType
  BY <1>t DEF TypeOK
<1> DEFINE Goal == row'.status = "CANCELLED" => Over'
<1>0. ASSUME row'.status = row.status \/ row'.status # "CANCELLED" PROVE Goal
  BY <1>0, OverStays DEF CancelInv
<1>2. CASE JobStoreCustomer
  BY <1>2, <1>r, <1>0 DEF JobStoreCustomer, RowType
<1>3. CASE JobRecord
  BY <1>3, <1>r, <1>0 DEF JobRecord, RowType
<1>4. ASSUME NEW n \in 1 .. MaxEvents, Apply(n) PROVE Goal
  <2> DEFINE s == StatusOf(events[n])
             b == row.active /\ s # "CANCELLED"
  <2>1. row' = [row EXCEPT !.status = s, !.active = b] /\ n \in pending
    BY <1>4, <1>t DEF Apply, TypeOK
  <2>2. events[n].sub \in SubIds
    BY <1>t DEF TypeOK, EventType
  <2>3. s = "CANCELLED" => Over
    BY <2>1, <2>2 DEF CancelInv, Over
  <2> HIDE DEF s, b
  <2>4. row'.status = s
    BY <2>1, <1>r DEF RowType
  <2> QED
    BY <2>3, <2>4, OverStays
<1>5. ASSUME NEW o \in Owners, SavePlan(o) PROVE Goal
  <2>1. /\ owner[o] \in CallType /\ owner[o].diff \subseteq Columns
        /\ owner[o].read.status \in {"ACTIVE", "TRIAL"}
    BY <1>5, <1>t DEF SavePlan, CancelInv, TypeOK, CallType
  <2>2. row'.status \in {row.status, "ACTIVE", "TRIAL"}
    BY <1>5, <1>r, <2>1, SwitchedType, WrittenColumns DEF SavePlan
  <2> QED
    BY <2>2, <1>0
<1>6. ASSUME NEW r \in Renamers, SaveName(r) PROVE Goal
  <2>1. renamer[r].read \in RowType /\ renamer[r].diff \subseteq Columns
    BY <1>t DEF TypeOK, CallType
  <2>2. row'.status \in {row.status, renamer[r].read.status}
    BY <1>6, <1>r, <2>1, WrittenColumns DEF SaveName
  <2> QED
    BY <2>2, OverStays DEF CancelInv
<1>7. ASSUME NEW i \in Instances, CancelPhase(i) PROVE Goal
  <2>1. CASE ToCancel
    <3>1. row.trialEnds = TrialDays /\ today > TrialDays + Grace
      BY <2>1, <1>t, <1>r, BillingAssumption
      DEF ToCancel, GraceOver, RowType, TypeOK
    <3> QED
      BY <3>1, OverStays DEF Over
  <2>2. CASE ~ToCancel
    BY <1>7, <2>2, <1>0 DEF CancelPhase
  <2> QED
    BY <2>1, <2>2
<1>8. ASSUME NEW i \in Instances, SuspendPhase(i) PROVE Goal
  BY <1>8, <1>r, <1>0 DEF SuspendPhase, RowType
<1>9. CASE row' = row
  BY <1>9, <1>0
<1> HIDE DEF Goal
<1>10. Goal
  <2>1. \/ row' = row
        \/ JobStoreCustomer \/ JobRecord
        \/ \E n \in 1 .. MaxEvents : Apply(n)
        \/ \E o \in Owners : SavePlan(o)
        \/ \E r \in Renamers : SaveName(r)
        \/ \E i \in Instances : CancelPhase(i) \/ SuspendPhase(i)
    BY RowWriters
  <2> QED
    BY <2>1, <1>2, <1>3, <1>4, <1>5, <1>6, <1>7, <1>8, <1>9 DEF Goal
<1> QED
  BY <1>10 DEF Goal

\* A row that a call has read is the row of that moment, or an idle call's.
LEMMA ReadStep ==
  ASSUME TypeInv, [Next]_vars
  PROVE  /\ \A r \in Renamers : \/ renamer'[r].read = renamer[r].read
                                \/ renamer'[r].read \in {row, IdleCall.read}
         /\ \A o \in Owners :
                \/ owner'[o] = IdleCall
                \/ owner[o].pc # "idle" /\ owner'[o].read = owner[o].read
                \/ owner'[o] = owner[o]
                \/ /\ row.status \in {"ACTIVE", "TRIAL"} /\ row.sub # NoSub
                   /\ owner'[o].read = row
<1>t. /\ owner \in [Owners -> CallType] /\ renamer \in [Renamers -> CallType]
  BY DEF TypeInv, TypeOK
<1>1. ASSUME NEW q \in Renamers, Rename(q), NEW r \in Renamers
      PROVE  \/ renamer'[r].read = renamer[r].read
             \/ renamer'[r].read \in {row, IdleCall.read}
  <2>1. CASE updateName(q)
    BY <2>1, <1>t, IdleType DEF updateName, CallType
  <2>2. CASE SelectName(q)
    BY <2>2, <1>t DEF SelectName, CallType
  <2>3. CASE SaveName(q) \/ RenameFails(q)
    <3>1. renamer' = [renamer EXCEPT ![q] = IdleCall]
      BY <2>3 DEF SaveName, RenameFails
    <3> QED
      BY <3>1, <1>t
  <2> QED
    BY <1>1, <2>1, <2>2, <2>3 DEF Rename
<1>2. ASSUME ~\E q \in Renamers : Rename(q) PROVE renamer' = renamer
  BY <1>2 DEF Next, Job, JobLoad, JobCustomer, JobStoreCustomer, JobSubscribe,
      JobRecord, JobDone, JobFails, JobStalls, Tick, StripeChanges,
      PaymentFails, Receive, Apply, HandlerFails, SwitchPlan, updatePlan,
      Retrieve, SwitchPrice, SelectPlan, SavePlan, SwitchFails, Cron,
      CancelPhase, SuspendPhase, PhaseFails, vars
<1>3. ASSUME NEW q \in Owners, SwitchPlan(q), NEW o \in Owners
      PROVE  \/ owner'[o] = IdleCall
             \/ owner[o].pc # "idle" /\ owner'[o].read = owner[o].read
             \/ owner'[o] = owner[o]
             \/ /\ row.status \in {"ACTIVE", "TRIAL"} /\ row.sub # NoSub
                /\ owner'[o].read = row
  <2>1. CASE updatePlan(q)
    BY <2>1, <1>t DEF updatePlan
  <2>2. CASE Retrieve(q)
    BY <2>2, <1>t DEF Retrieve, CallType
  <2>3. CASE SwitchPrice(q)
    BY <2>3, <1>t DEF SwitchPrice, CallType
  <2>4. CASE SelectPlan(q)
    BY <2>4, <1>t DEF SelectPlan, CallType
  <2>5. CASE SavePlan(q) \/ SwitchFails(q)
    <3>1. owner' = [owner EXCEPT ![q] = IdleCall]
      BY <2>5 DEF SavePlan, SwitchFails
    <3> QED
      BY <3>1, <1>t
  <2> QED
    BY <1>3, <2>1, <2>2, <2>3, <2>4, <2>5 DEF SwitchPlan
<1>4. ASSUME ~\E q \in Owners : SwitchPlan(q) PROVE owner' = owner
  BY <1>4 DEF Next, Job, JobLoad, JobCustomer, JobStoreCustomer, JobSubscribe,
      JobRecord, JobDone, JobFails, JobStalls, Tick, StripeChanges,
      PaymentFails, Receive, Apply, HandlerFails, Rename, updateName,
      SelectName, SaveName, RenameFails, Cron, CancelPhase, SuspendPhase,
      PhaseFails, vars
<1> QED
  BY <1>1, <1>2, <1>3, <1>4

\* The rows that renames and plan switches hold.
LEMMA CallsStep ==
  ASSUME TypeInv, CancelInv, [Next]_vars
  PROVE  /\ \A r \in Renamers :
                renamer'[r].read.status = "CANCELLED" => Over'
         /\ \A o \in Owners : owner'[o].pc # "idle"
                => owner'[o].read.status \in {"ACTIVE", "TRIAL"}
<1>1. \A r \in Renamers : renamer[r].read.status = "CANCELLED" => Over
  BY DEF CancelInv
<1>2. row.status = "CANCELLED" => Over
  BY DEF CancelInv
<1>3. \A o \in Owners : owner[o].pc # "idle"
                            => owner[o].read.status \in {"ACTIVE", "TRIAL"}
  BY DEF CancelInv
<1>4. Over => Over'
  BY OverStays
<1>5. ASSUME NEW r \in Renamers, renamer'[r].read.status = "CANCELLED"
      PROVE  Over'
  <2>1. renamer'[r].read = renamer[r].read
        \/ renamer'[r].read \in {row, IdleCall.read}
    BY ReadStep
  <2> QED
    BY <1>1, <1>2, <1>4, <1>5, <2>1, IdleType
<1>6. ASSUME NEW o \in Owners, owner'[o].pc # "idle"
      PROVE  owner'[o].read.status \in {"ACTIVE", "TRIAL"}
  <2>1. \/ owner'[o] = IdleCall
        \/ owner[o].pc # "idle" /\ owner'[o].read = owner[o].read
        \/ owner'[o] = owner[o]
        \/ row.status \in {"ACTIVE", "TRIAL"} /\ owner'[o].read = row
    BY ReadStep
  <2> QED
    BY <1>3, <1>6, <2>1, IdleType
<1> QED
  BY <1>5, <1>6

LEMMA CancelInvariant == Spec => []CancelInv
<1>1. Init => CancelInv
  <2> SUFFICES ASSUME Init PROVE CancelInv
    OBVIOUS
  <2>1. row.status # "CANCELLED"
    BY DEF Init, NewRow
  <2>2. /\ \A r \in Renamers : renamer[r].read.status = "FREE"
        /\ \A o \in Owners : owner[o].pc = "idle"
        /\ pending = {}
    BY IdleType DEF Init
  <2> QED
    BY <2>1, <2>2 DEF CancelInv
<1>2. TypeInv /\ CancelInv /\ [Next]_vars => CancelInv'
  BY RowStep, CallsStep, EventsStep DEF CancelInv
<1> QED
  BY <1>1, <1>2, TypeInvariant, PTL DEF Spec

\* An organization is cancelled only when Stripe canceled a subscription of it
\* or its trial and grace are over: for any number of events, renames, plan
\* switches, attempts and instances, in any order.
THEOREM CancelledCorrect == Spec => []CancelledMeansOver
<1>1. CancelInv => CancelledMeansOver
  BY DEF CancelInv, CancelledMeansOver
<1> QED
  BY <1>1, CancelInvariant, PTL

-----------------------------------------------------------------------------
(***************************************************************************)
(* Subscriptions that exist.  Stripe never unmakes one, so whatever names  *)
(* one that Stripe has made keeps doing so, however old: the row, every    *)
(* row a call has read, the job that is about to record one.  And what     *)
(* says ACTIVE was there after the first subscription.                     *)
(***************************************************************************)
Key == <<job.customer, job.plan>>
Made(id) == id \in SubIds /\ subs[id].status # "none"
SomeMade == \E id \in SubIds : Made(id)
Real(r) == (r.sub # NoSub => Made(r.sub)) /\ (r.status = "ACTIVE" => SomeMade)

RealInv ==
    /\ Real(row)
    /\ \A o \in Owners : Real(owner[o].read) /\ (owner[o].pc # "idle" => SomeMade)
    /\ \A r \in Renamers : Real(renamer[r].read)
    /\ job.pc = "record" => Made(Key)
    /\ pending # {} => SomeMade

\* What Stripe has made stays.
LEMMA MadeStays ==
  ASSUME TypeInv, [Next]_vars
  PROVE  /\ \A id : Made(id) => Made(id)'
         /\ SomeMade => SomeMade'
<1>t. TypeOK /\ subs \in [SubIds -> SubType]
  BY DEF TypeInv, TypeOK
<1> DEFINE Stays == \A id \in SubIds :
                        subs[id].status # "none" => subs'[id].status # "none"
<1>1. ASSUME subs' = subs PROVE Stays
  BY <1>1
<1>2. ASSUME JobSubscribe PROVE Stays
  <2> DEFINE b == today < job.trialEnds
             s == IF b THEN "trialing" ELSE "active"
  <2>1. \/ subs' = subs
        \/ subs' = [subs EXCEPT ![Key].status = s, ![Key].trial = b]
    BY <1>2 DEF JobSubscribe, Key
  <2>2. s # "none"
    OBVIOUS
  <2> HIDE DEF s, b
  <2> QED
    BY <1>t, <2>1, <2>2 DEF SubType
<1>3. ASSUME NEW id \in SubIds, StripeChanges(id) \/ PaymentFails(id) PROVE Stays
  <2>1. \E s : s # "none" /\ subs' = [subs EXCEPT ![id].status = s]
    BY <1>3 DEF StripeChanges, PaymentFails, Leads
  <2> QED
    BY <1>t, <2>1 DEF SubType
<1>4. ASSUME NEW o \in Owners, SwitchPrice(o) PROVE Stays
  <2>1. PICK id, s, p : /\ s # "none"
                        /\ subs' = [subs EXCEPT ![id].price = p, ![id].status = s]
    BY <1>4 DEF SwitchPrice
  <2> QED
    BY <1>t, <2>1 DEF SubType
<1>5. ASSUME subs' # subs, ~JobSubscribe,
             \A id \in SubIds : ~StripeChanges(id) /\ ~PaymentFails(id)
      PROVE  \E o \in Owners : SwitchPrice(o)
  BY <1>5 DEF Next, Job, JobLoad, JobCustomer, JobStoreCustomer, JobRecord,
      JobDone, JobFails, JobStalls, Tick, Receive, Apply, HandlerFails,
      SwitchPlan, updatePlan, Retrieve, SelectPlan, SavePlan, SwitchFails,
      Rename, updateName, SelectName, SaveName, RenameFails, Cron, CancelPhase,
      SuspendPhase, PhaseFails, vars, stripe
<1> HIDE DEF Stays
<1>6. Stays
  BY <1>1, <1>2, <1>3, <1>4, <1>5
<1> QED
  BY <1>6 DEF Stays, Made, SomeMade

\* The subscription the job is about to record, and the events.
LEMMA SourcesStep ==
  ASSUME TypeInv, RealInv, [Next]_vars
  PROVE  /\ job'.pc = "record" => Made(Key)'
         /\ pending' # {} => SomeMade'
<1>t. TypeOK /\ job \in JobType /\ subs \in [SubIds -> SubType]
  BY DEF TypeInv, TypeOK
<1>1. ASSUME job'.pc = "record", JobSubscribe PROVE Made(Key)'
  <2> DEFINE b == today < job.trialEnds
             s == IF b THEN "trialing" ELSE "active"
  <2>1. /\ job' = [job EXCEPT !.pc = "record", !.trial = b]
        /\ \/ subs' = subs /\ subs[Key].status # "none"
           \/ subs' = [subs EXCEPT ![Key].status = s, ![Key].trial = b]
    BY <1>1 DEF JobSubscribe, Key
  <2>2. Key \in SubIds
    BY <1>1, <1>t DEF JobSubscribe, TypeInv, JobType, Key, SubIds
  <2>3. s # "none"
    OBVIOUS
  <2> HIDE DEF s, b
  <2>4. Key' = Key
    BY <2>1, <1>t DEF Key, JobType
  <2>5. subs'[Key].status # "none"
    BY <1>t, <2>1, <2>2, <2>3 DEF SubType
  <2> QED
    BY <2>2, <2>4, <2>5 DEF Made
<1>2. ASSUME job'.pc = "record", ~JobSubscribe PROVE Made(Key)'
  <2>1. job' = job
    BY <1>2, <1>t DEF Next, Job, JobLoad, JobCustomer, JobStoreCustomer,
        JobRecord, JobDone, JobFails, JobStalls, Tick, StripeChanges,
        PaymentFails, Receive, Apply, HandlerFails, SwitchPlan, updatePlan,
        Retrieve, SwitchPrice, SelectPlan, SavePlan, SwitchFails, Rename,
        updateName, SelectName, SaveName, RenameFails, Cron, CancelPhase,
        SuspendPhase, PhaseFails, vars, JobType
  <2>2. Key' = Key /\ Made(Key)
    BY <1>2, <2>1 DEF Key, RealInv
  <2>3. PICK k : k = Key
    OBVIOUS
  <2>4. Made(k)'
    BY <2>2, <2>3, MadeStays
  <2> QED
    BY <2>2, <2>3, <2>4 DEF Made
<1>3. ASSUME pending' # {}, pending = {} PROVE SomeMade
  <2>1. ASSUME NEW id \in SubIds, StripeChanges(id) \/ PaymentFails(id)
        PROVE  Made(id)
    BY <2>1 DEF StripeChanges, PaymentFails, Leads, Made
  <2>2. ASSUME NEW o \in Owners, SwitchPrice(o) PROVE SomeMade
    <3>1. owner[o].pc = "switch"
      BY <2>2 DEF SwitchPrice
    <3> QED
      BY <3>1 DEF RealInv
  <2>3. ASSUME NEW n \in 1 .. MaxEvents, Receive(n) \/ Apply(n) \/ HandlerFails(n)
        PROVE  FALSE
    BY <1>3, <2>3, <1>t DEF Receive, Apply, HandlerFails, TypeOK
  <2>4. CASE pending' = pending
    BY <1>3, <2>4
  <2>5. ASSUME pending' # pending,
               \A id \in SubIds : ~StripeChanges(id) /\ ~PaymentFails(id),
               \A n \in 1 .. MaxEvents :
                   ~Receive(n) /\ ~Apply(n) /\ ~HandlerFails(n)
        PROVE  \E o \in Owners : SwitchPrice(o)
    BY <2>5 DEF Next, Job, JobLoad, JobCustomer, JobStoreCustomer,
        JobSubscribe, JobRecord, JobDone, JobFails, JobStalls, Tick,
        SwitchPlan, updatePlan, Retrieve, SelectPlan, SavePlan, SwitchFails,
        Rename, updateName, SelectName, SaveName, RenameFails, Cron,
        CancelPhase, SuspendPhase, PhaseFails, vars, stripe
  <2> QED
    BY <2>1, <2>2, <2>3, <2>4, <2>5 DEF SomeMade
<1>4. ASSUME pending' # {} PROVE SomeMade'
  BY <1>3, <1>4, MadeStays DEF RealInv
<1> QED
  BY <1>1, <1>2, <1>4

\* What the row says after a step of any writer.
LEMMA RealRow ==
  ASSUME TypeInv, RealInv, [Next]_vars
  PROVE  Real(row)'
<1>t. TypeOK /\ row \in RowType /\ job \in JobType
  BY DEF TypeInv, TypeOK
<1>r. Real(row) /\ (SomeMade => SomeMade')
  BY MadeStays DEF RealInv
<1>k. ASSUME row'.sub = NoSub \/ Made(row'.sub),
             row'.status = "ACTIVE" => SomeMade
      PROVE  Real(row)'
  <2>1. PICK id : id = row'.sub
    OBVIOUS
  <2>2. id # NoSub => Made(id)'
    BY <1>k, <2>1, MadeStays
  <2>3. row'.sub # NoSub => Made(row.sub)'
    BY <2>1, <2>2 DEF Made
  <2> QED
    BY <1>k, <1>r, <2>3 DEF Real
<1>m. ASSUME row'.sub = row.sub, row'.status # "ACTIVE" \/ row'.status = row.status
      PROVE  Real(row)'
  BY <1>m, <1>k, <1>r DEF Real
<1>s. ASSUME NEW obj \in RowType, Real(obj), NEW d \in SUBSET Columns,
             row' = Written(obj, d)
      PROVE  Real(row)'
  BY <1>s, <1>k, <1>r, <1>t, WrittenColumns DEF Real
<1>1. CASE row' = row
  BY <1>1, <1>m
<1>2. CASE JobStoreCustomer
  BY <1>2, <1>m, <1>t DEF JobStoreCustomer, RowType
<1>3. CASE JobRecord
  <2>1. row'.sub = Key /\ Made(Key)
    BY <1>3, <1>t DEF JobRecord, Key, RowType, RealInv
  <2> QED
    BY <2>1, <1>k DEF SomeMade, Made
<1>4. ASSUME NEW n \in 1 .. MaxEvents, Apply(n) PROVE Real(row)'
  <2>1. SomeMade
    BY <1>4, <1>t DEF Apply, RealInv, TypeOK
  <2>2. row'.sub = row.sub
    BY <1>4, <1>t DEF Apply, RowType
  <2> QED
    BY <2>1, <2>2, <1>k, <1>r DEF Real
<1>5. ASSUME NEW o \in Owners, SavePlan(o) PROVE Real(row)'
  <2>1. PICK k : k = owner[o]
    OBVIOUS
  <2>2. k \in CallType /\ k.diff \subseteq Columns /\ Real(k.read) /\ SomeMade
    BY <1>5, <2>1, <1>t DEF SavePlan, TypeOK, CallType, RealInv
  <2>3. PICK obj : obj = Switched(k)
    OBVIOUS
  <2>4. obj \in RowType /\ Real(obj)
    BY <2>2, <2>3, SwitchedType DEF Real
  <2> QED
    BY <1>5, <1>s, <2>1, <2>2, <2>3, <2>4 DEF SavePlan
<1>6. ASSUME NEW r \in Renamers, SaveName(r) PROVE Real(row)'
  <2>1. PICK k : k = renamer[r]
    OBVIOUS
  <2>2. k.read \in RowType /\ k.diff \subseteq Columns /\ Real(k.read)
    BY <2>1, <1>t DEF TypeOK, CallType, RealInv
  <2> QED
    BY <1>6, <1>s, <2>1, <2>2 DEF SaveName
<1>7. ASSUME NEW i \in Instances, CancelPhase(i) \/ SuspendPhase(i)
      PROVE  Real(row)'
  BY <1>7, <1>m, <1>t DEF CancelPhase, SuspendPhase, RowType
<1> QED
  BY <1>1, <1>2, <1>3, <1>4, <1>5, <1>6, <1>7, RowWriters

\* What the calls have read.
LEMMA RealCalls ==
  ASSUME TypeInv, RealInv, [Next]_vars
  PROVE  /\ \A o \in Owners : Real(owner[o].read)'
                              /\ (owner'[o].pc # "idle" => SomeMade')
         /\ \A r \in Renamers : Real(renamer[r].read)'
<1>k. ASSUME NEW x, Real(x) PROVE Real(x)'
  BY <1>k, MadeStays DEF Real
<1>i. Real(IdleCall.read)'
  BY IdleType DEF Real
<1>1. ASSUME NEW r \in Renamers PROVE Real(renamer[r].read)'
  <2>1. PICK x : x = renamer'[r].read
    OBVIOUS
  <2>2. x \in {renamer[r].read, row, IdleCall.read}
    BY <2>1, ReadStep
  <2>3. Real(x)'
    BY <2>2, <1>k, <1>i DEF RealInv
  <2> QED
    BY <2>1, <2>3 DEF Real
<1>2. ASSUME NEW o \in Owners
      PROVE  Real(owner[o].read)' /\ (owner'[o].pc # "idle" => SomeMade')
  <2>1. PICK x : x = owner'[o].read
    OBVIOUS
  <2>2. \/ owner'[o] = IdleCall
        \/ owner[o].pc # "idle" /\ x = owner[o].read
        \/ owner'[o] = owner[o]
        \/ row.sub # NoSub /\ x = row
    BY <2>1, ReadStep
  <2>3. Real(x)'
    BY <2>1, <2>2, <1>k, <1>i DEF RealInv
  <2>4. owner'[o].pc # "idle" => SomeMade
    BY <2>2, IdleType DEF RealInv, Real, SomeMade, Made
  <2> QED
    BY <2>1, <2>3, <2>4, MadeStays DEF Real
<1> QED
  BY <1>1, <1>2

\* No row names a subscription Stripe has not made, and none says ACTIVE before
\* there is one (StripeWebhookService, OrganizationService and the worker).
THEOREM SubscriptionCorrect == Spec => []SubscriptionIsReal
<1>1. Init => RealInv
  <2> SUFFICES ASSUME Init PROVE RealInv
    OBVIOUS
  <2>1. row.sub = NoSub /\ row.status # "ACTIVE"
    BY DEF Init, NewRow
  <2>2. /\ \A o \in Owners : owner[o] = IdleCall
        /\ \A r \in Renamers : renamer[r] = IdleCall
        /\ pending = {} /\ job.pc \in {"none", "queued"}
    BY DEF Init
  <2> QED
    BY <2>1, <2>2, IdleType DEF RealInv, Real
<1>2. TypeInv /\ RealInv /\ [Next]_vars => RealInv'
  <2> SUFFICES ASSUME TypeInv, RealInv, [Next]_vars PROVE RealInv'
    OBVIOUS
  <2>1. Real(row)'
    BY RealRow
  <2> QED
    BY <2>1, RealCalls, SourcesStep DEF RealInv
<1>3. RealInv => SubscriptionIsReal
  BY DEF RealInv, Real, SubscriptionIsReal, SomeMade, Made
<1> QED
  BY <1>1, <1>2, <1>3, TypeInvariant, PTL DEF Spec

-----------------------------------------------------------------------------
(***************************************************************************)
(* One subscription.  A job that is about to make a customer finds none in *)
(* the row, and one that is about to subscribe has the row's: so whatever  *)
(* has been subscribed is the row's customer on the row's plan.  It needs  *)
(* that nobody saves the whole row meanwhile.                              *)
(***************************************************************************)
JobInv ==
    /\ job.pc \in {"customer", "store"} => row.customer = 0
    /\ job.pc \in {"subscribe", "record"}
           => row.customer = job.customer /\ row.customer # 0
    /\ job.pc \in {"customer", "store", "subscribe", "record"}
           => job.plan = row.plan
    /\ \A id \in SubIds :
           subs[id].status # "none" => id = <<row.customer, row.plan>>

LEMMA JobStep ==
  ASSUME Owners = {}, Renamers = {}, TypeInv, JobInv, [Next]_vars
  PROVE  JobInv'
<1>t. TypeOK
  BY DEF TypeInv
<1>r. row \in RowType /\ job \in JobType
  BY <1>t DEF TypeOK
<1>n. row.customer = 0 => \A id \in SubIds : subs[id].status = "none"
  BY BillingAssumption DEF JobInv, SubIds, Customers, Runs
<1>k. ASSUME row'.customer = row.customer, row'.plan = row.plan, job' = job,
             \A id \in SubIds : subs'[id].status # "none" => subs[id].status # "none"
      PROVE  JobInv'
  BY <1>k DEF JobInv
<1>1. CASE JobLoad
  <2> DEFINE pc == IF row.customer = 0 THEN "customer" ELSE "subscribe"
  <2>a. job' = [job EXCEPT !.pc = pc, !.customer = row.customer, !.plan = row.plan,
                           !.trialEnds = row.trialEnds]
    BY <1>1 DEF JobLoad
  <2>b. \/ pc = "customer" /\ row.customer = 0
        \/ pc = "subscribe" /\ row.customer # 0
    OBVIOUS
  <2> HIDE DEF pc
  <2>c. job'.pc = pc /\ job'.customer = row.customer /\ job'.plan = row.plan
    BY <2>a, <1>r DEF JobType
  <2>2. row' = row /\ subs' = subs
    BY <1>1 DEF JobLoad, stripe
  <2> QED
    BY <2>b, <2>c, <2>2 DEF JobInv
<1>2. CASE JobCustomer
  <2>1. job'.pc = "store" /\ job'.plan = job.plan /\ row' = row /\ subs' = subs
    BY <1>2, <1>r DEF JobCustomer, JobType
  <2> QED
    BY <1>2, <2>1 DEF JobCustomer, JobInv
<1>3. CASE JobStoreCustomer
  <2>1. /\ row'.customer = job.customer /\ row'.plan = row.plan /\ subs' = subs
        /\ job'.pc = "subscribe" /\ job'.customer = job.customer
        /\ job'.plan = job.plan
    BY <1>3, <1>r DEF JobStoreCustomer, RowType, JobType, stripe
  <2>2. job.customer # 0 /\ row.customer = 0 /\ job.plan = row.plan
    BY <1>3 DEF JobStoreCustomer, TypeInv, JobInv, Customers
  <2> QED
    BY <1>n, <2>1, <2>2 DEF JobInv
<1>4. CASE JobSubscribe
  <2> DEFINE key == <<job.customer, job.plan>>
  <2>1. \A id \in SubIds \ {key} : subs'[id] = subs[id]
    BY <1>4, <1>t DEF JobSubscribe, TypeOK
  <2>2. key = <<row.customer, row.plan>> /\ row' = row
    BY <1>4 DEF JobSubscribe, JobInv
  <2>3. job'.pc = "record" /\ job'.customer = job.customer /\ job'.plan = job.plan
    BY <1>4, <1>r DEF JobSubscribe, JobType
  <2>4. row.customer = job.customer /\ row.customer # 0 /\ job.plan = row.plan
    BY <1>4 DEF JobSubscribe, JobInv
  <2>5. \A id \in SubIds :
            subs'[id].status # "none" => id = <<row'.customer, row'.plan>>
    BY <2>1, <2>2 DEF JobInv
  <2> HIDE DEF key
  <2> QED
    BY <2>2, <2>3, <2>4, <2>5 DEF JobInv
<1>5. CASE JobRecord \/ JobDone \/ JobFails \/ JobStalls
  <2>1. /\ row'.customer = row.customer /\ row'.plan = row.plan /\ subs' = subs
        /\ job'.pc \in {"ack", "done", "queued", "failed"}
    BY <1>5, <1>r DEF JobRecord, JobDone, JobFails, JobStalls, stripe, RowType,
                      JobType
  <2> QED
    BY <2>1 DEF JobInv
<1>6. ASSUME NEW id \in SubIds, StripeChanges(id) \/ PaymentFails(id) PROVE JobInv'
  <2>1. subs[id].status # "none"
    BY <1>6 DEF StripeChanges, PaymentFails, Leads
  <2>2. \A x \in SubIds \ {id} : subs'[x] = subs[x]
    BY <1>6, <1>t DEF StripeChanges, PaymentFails, TypeOK
  <2>3. row' = row /\ job' = job
    BY <1>6 DEF StripeChanges, PaymentFails
  <2> QED
    BY <1>k, <2>1, <2>2, <2>3
<1>7. ASSUME NEW n \in 1 .. MaxEvents, Receive(n) \/ Apply(n) \/ HandlerFails(n)
      PROVE  JobInv'
  <2>1. row'.customer = row.customer /\ row'.plan = row.plan
    BY <1>7, <1>r DEF Receive, Apply, HandlerFails, RowType
  <2>2. job' = job /\ subs' = subs
    BY <1>7 DEF Receive, Apply, HandlerFails, stripe
  <2> QED
    BY <1>k, <2>1, <2>2
<1>8. ASSUME NEW i \in Instances, Cron(i) PROVE JobInv'
  <2>1. row'.customer = row.customer /\ row'.plan = row.plan
    BY <1>8, <1>r DEF Cron, CancelPhase, SuspendPhase, PhaseFails, RowType
  <2>2. job' = job /\ subs' = subs
    BY <1>8 DEF Cron, CancelPhase, SuspendPhase, PhaseFails, stripe
  <2> QED
    BY <1>k, <2>1, <2>2
<1>9. CASE Tick \/ UNCHANGED vars
  BY <1>9, <1>k DEF Tick, vars, stripe
<1> QED
  BY <1>1, <1>2, <1>3, <1>4, <1>5, <1>6, <1>7, <1>8, <1>9 DEF Next, Job

\* However often the job is run again, however many customers that leaves
\* behind and whatever events and crons come between, the organization has at
\* most one subscription, as long as nobody saves its whole row meanwhile.
THEOREM OneSubscriptionCorrect ==
  ASSUME Owners = {}, Renamers = {}
  PROVE  Spec => []OneSubscription
<1>1. Init => JobInv
  <2> SUFFICES ASSUME Init PROVE JobInv
    OBVIOUS
  <2>1. job.pc \in {"none", "queued"} /\ \A id \in SubIds : subs[id].status = "none"
    BY DEF Init
  <2> QED
    BY <2>1 DEF JobInv
<1>2. TypeInv /\ JobInv /\ [Next]_vars => JobInv'
  BY JobStep
<1>3. JobInv => OneSubscription
  <2> SUFFICES ASSUME JobInv PROVE OneSubscription
    OBVIOUS
  <2> DEFINE S == {id \in SubIds : subs[id].status # "none"}
             only == <<row.customer, row.plan>>
  <2>1. S \subseteq {only}
    BY DEF JobInv
  <2>2. IsFiniteSet({only}) /\ Cardinality({only}) = 1
    BY FS_Singleton
  <2>3. Cardinality(S) <= 1
    <3> HIDE DEF S, only
    <3> QED
      BY <2>1, <2>2, FS_Subset
  <2> QED
    BY <2>3 DEF OneSubscription
<1> QED
  BY <1>1, <1>2, <1>3, TypeInvariant, PTL DEF Spec

-----------------------------------------------------------------------------
(***************************************************************************)
(* In step with Stripe.  The newest event tells what its subscription has  *)
(* come to.  It is answered only after it has been applied or dropped; if  *)
(* it was applied and nothing older after it, the row has its status.      *)
(* Before the first event the row has what the job recorded.               *)
(***************************************************************************)
Recorded ==
    /\ row.sub # NoSub => row.sub = <<row.customer, row.plan>> /\ Made(row.sub)
    /\ job.pc = "record" => Made(Key) /\ subs[Key].trial = job.trial
    /\ sent = 0 =>
           /\ \A id \in SubIds : subs[id].status \in
                  {"none", IF subs[id].trial THEN "trialing" ELSE "active"}
           /\ row.sub # NoSub => row.status = Standing(row.sub)

Told ==
    /\ pending \subseteq 1 .. sent /\ latest <= sent
    /\ \A n \in 1 .. sent : Made(events[n].sub)
    /\ sent > 0 => /\ events[sent].kind # "failed"
                   /\ StatusOf(events[sent]) = Standing(events[sent].sub)
    /\ \A n \in found : events[n].kind # "failed" => row.sub = events[n].sub

UpToDate ==
    ~astray /\ sent > 0 =>
        /\ sent \notin pending => latest = sent
        /\ latest = sent => /\ row.sub = events[sent].sub
                            /\ row.status = StatusOf(events[sent])

SyncInv == Recorded /\ Told /\ UpToDate

\* The subscription of a row and of the newest event is one of Stripe's.
LEMMA SyncSubs ==
  ASSUME SyncInv, BillingAssumption
  PROVE  /\ row.sub # NoSub => row.sub \in SubIds
         /\ sent \in Nat /\ sent > 0 => events[sent].sub \in SubIds
                                        /\ events[sent].sub # NoSub
<1>1. sent \in Nat /\ sent > 0 => sent \in 1 .. sent
  OBVIOUS
<1> QED
  BY <1>1 DEF SyncInv, Recorded, Told, Made, BillingAssumption

\* A step that leaves Stripe alone, and the columns of a subscribed row.
LEMMA SyncFrame ==
  ASSUME TypeInv, SyncInv, row'.sub = row.sub,
         row.sub # NoSub => /\ row'.customer = row.customer
                            /\ row'.plan = row.plan /\ row'.status = row.status,
         job' = job \/ job'.pc # "record", found' \subseteq found,
         UNCHANGED <<subs, events, sent, pending, latest, astray>>
  PROVE  SyncInv'
<1>t. sent \in Nat
  BY BillingAssumption DEF TypeInv, TypeOK
<1>0. \A id : (Standing(id)' = Standing(id)) /\ (Made(id)' <=> Made(id))
  BY DEF Standing, Made
<1>1. Recorded'
  <2>1. PICK id : id = row.sub
    OBVIOUS
  <2>2. row'.sub # NoSub => row'.sub = <<row'.customer, row'.plan>> /\ Made(id)'
    BY <2>1, <1>0 DEF SyncInv, Recorded
  <2>3. job'.pc = "record" => Made(Key)' /\ subs'[Key'].trial = job'.trial
    <3> SUFFICES ASSUME job'.pc = "record"
                 PROVE  Made(Key)' /\ subs'[Key'].trial = job'.trial
      OBVIOUS
    <3>1. job' = job /\ Key' = Key /\ Made(Key) /\ subs[Key].trial = job.trial
      BY DEF Key, SyncInv, Recorded
    <3> QED
      BY <3>1 DEF Made
  <2>4. sent' = 0 => /\ \A x \in SubIds : subs'[x].status \in
                            {"none", IF subs'[x].trial THEN "trialing" ELSE "active"}
                     /\ row'.sub # NoSub => row'.status = Standing(id)'
    BY <2>1, <1>0 DEF SyncInv, Recorded
  <2>5. (Made(id)' <=> Made(row.sub)') /\ Standing(id)' = Standing(row.sub)'
    BY <2>1 DEF Made, Standing
  <2> QED
    BY <2>2, <2>3, <2>4, <2>5 DEF Recorded
<1>2. Told'
  <2>1. \A n \in 1 .. sent' : Made(events[n].sub)'
    BY DEF SyncInv, Told, Made
  <2>2. Standing(events[sent].sub)' = Standing(events[sent].sub)
    BY DEF Standing
  <2>3. StatusOf(events[sent])' = StatusOf(events[sent])
    OBVIOUS
  <2> QED
    BY <2>1, <2>2, <2>3 DEF SyncInv, Told
<1>3. UpToDate'
  <2>1. sent > 0 => events[sent].sub # NoSub
    BY <1>t, SyncSubs, BillingAssumption
  <2>2. StatusOf(events[sent])' = StatusOf(events[sent])
    OBVIOUS
  <2> QED
    BY <2>1, <2>2 DEF SyncInv, UpToDate
<1> QED
  BY <1>1, <1>2, <1>3 DEF SyncInv

\* The steps of the job that write no subscription.
LEMMA SyncJobFrame ==
  ASSUME TypeInv, JobInv, SyncInv, Job, ~JobSubscribe, ~JobRecord
  PROVE  SyncInv'
<1>t. TypeOK /\ row \in RowType /\ job \in JobType
  BY DEF TypeInv, TypeOK
<1>1. /\ UNCHANGED <<subs, events, sent, pending, found, latest, astray>>
      /\ job'.pc # "record"
  BY <1>t DEF Job, JobLoad, JobCustomer, JobStoreCustomer, JobDone, JobFails,
              JobStalls, stripe, JobType
<1>2. CASE JobStoreCustomer
  <2>1. row'.sub = row.sub
    BY <1>2, <1>t DEF JobStoreCustomer, RowType
  <2>2. row.customer = 0
    BY <1>2 DEF JobStoreCustomer, JobInv
  <2>3. ASSUME row.sub # NoSub PROVE FALSE
    <3>1. row.sub = <<0, row.plan>> /\ row.sub \in SubIds
      BY <2>2, <2>3 DEF SyncInv, Recorded, Made
    <3>2. 0 \notin Customers
      BY BillingAssumption DEF Customers, Runs
    <3> QED
      BY <3>1, <3>2 DEF SubIds
  <2> QED
    BY <1>1, <2>1, <2>3, SyncFrame
<1>3. CASE ~JobStoreCustomer
  <2>1. row' = row
    BY <1>3 DEF Job, JobLoad, JobCustomer, JobDone, JobFails, JobStalls
  <2> QED
    BY <1>1, <2>1, SyncFrame
<1> QED
  BY <1>2, <1>3

\* The job subscribes: what Stripe already has it leaves as it is.
LEMMA SyncSubscribe ==
  ASSUME TypeInv, JobInv, SyncInv, JobSubscribe
  PROVE  SyncInv'
<1>t. /\ TypeOK /\ row \in RowType /\ job \in JobType
      /\ subs \in [SubIds -> SubType] /\ sent \in Nat
  BY BillingAssumption DEF TypeInv, TypeOK
<1>0. UNCHANGED <<row, events, sent, pending, found, latest, astray>>
  BY DEF JobSubscribe
<1> DEFINE b == today < job.trialEnds
           s == IF b THEN "trialing" ELSE "active"
<1>k. PICK key : key = Key
  OBVIOUS
<1>1. \/ /\ subs[key].status = "none"
         /\ subs' = [subs EXCEPT ![key].status = s, ![key].trial = b]
      \/ subs[key].status # "none" /\ subs[key].trial = b /\ subs' = subs
  BY <1>k DEF JobSubscribe, Key
<1>2. job' = [job EXCEPT !.pc = "record", !.trial = b]
  BY DEF JobSubscribe
<1>3. b \in BOOLEAN /\ s = (IF b THEN "trialing" ELSE "active") /\ s # "none"
  OBVIOUS
<1>4. key \in SubIds
  BY <1>t, <1>k DEF JobSubscribe, TypeInv, JobType, Key, SubIds
<1> HIDE DEF b, s
<1>5. Key' = key /\ job'.pc = "record" /\ job'.trial = b
  BY <1>2, <1>t, <1>k DEF Key, JobType
<1>6. /\ subs'[key].status # "none" /\ subs'[key].trial = b
      /\ \A id \in SubIds \ {key} : subs'[id] = subs[id]
      /\ subs[key].status = "none" => subs'[key].status = s
      /\ subs[key].status # "none" => subs'[key] = subs[key]
  <2>1. CASE subs' = subs /\ subs[key].status # "none" /\ subs[key].trial = b
    BY <2>1, <1>4
  <2>2. CASE /\ subs[key].status = "none"
             /\ subs' = [subs EXCEPT ![key].status = s, ![key].trial = b]
    <3>1. subs'[key].status = s /\ subs'[key].trial = b
      BY <2>2, <1>4, <1>t DEF SubType
    <3>2. \A id \in SubIds \ {key} : subs'[id] = subs[id]
      BY <2>2, <1>t
    <3> QED
      BY <3>1, <3>2, <2>2, <1>3
  <2> QED
    BY <1>1, <2>1, <2>2
<1>7. \A id : Made(id) => Made(id)' /\ Standing(id)' = Standing(id)
  <2> SUFFICES ASSUME NEW id, Made(id) PROVE Made(id)' /\ Standing(id)' = Standing(id)
    OBVIOUS
  <2>1. subs'[id] = subs[id] /\ id \in SubIds /\ subs[id].status # "none"
    BY <1>6 DEF Made
  <2> QED
    BY <2>1 DEF Made, Standing
<1>8. Recorded'
  <2>1. PICK id : id = row.sub
    OBVIOUS
  <2>2. row.sub # NoSub => row.sub = <<row.customer, row.plan>> /\ Made(id)
    BY <2>1 DEF SyncInv, Recorded
  <2>3. row'.sub # NoSub => row'.sub = <<row'.customer, row'.plan>> /\ Made(row.sub)'
    BY <1>0, <1>7, <2>1, <2>2 DEF Made
  <2>4. Made(Key)' /\ subs'[Key'].trial = job'.trial
    BY <1>4, <1>5, <1>6 DEF Made
  <2>5. sent' = 0 => \A x \in SubIds : subs'[x].status \in
            {"none", IF subs'[x].trial THEN "trialing" ELSE "active"}
    <3> SUFFICES ASSUME sent' = 0, NEW x \in SubIds
                 PROVE  subs'[x].status \in
                            {"none", IF subs'[x].trial THEN "trialing" ELSE "active"}
      OBVIOUS
    <3>1. subs[x].status \in {"none", IF subs[x].trial THEN "trialing" ELSE "active"}
      BY <1>0 DEF SyncInv, Recorded
    <3> QED
      BY <3>1, <1>3, <1>6
  <2>6. sent' = 0 /\ row'.sub # NoSub => row'.status = Standing(row.sub)'
    <3>1. Standing(row.sub)' = Standing(id)'
      BY <1>0, <2>1 DEF Standing
    <3> QED
      BY <3>1, <1>0, <1>7, <2>1, <2>2 DEF SyncInv, Recorded
  <2> QED
    BY <2>3, <2>4, <2>5, <2>6 DEF Recorded
<1>9. Told'
  <2>1. \A n \in 1 .. sent' : Made(events[n].sub)'
    <3> SUFFICES ASSUME NEW n \in 1 .. sent PROVE Made(events[n].sub)'
      BY <1>0
    <3>1. PICK id : id = events[n].sub
      OBVIOUS
    <3>2. Made(id)'
      BY <3>1, <1>7 DEF SyncInv, Told
    <3> QED
      BY <3>1, <3>2, <1>0 DEF Made
  <2>2. sent > 0 => Standing(events[sent].sub)' = Standing(events[sent].sub)
    <3>1. PICK id : id = events[sent].sub
      OBVIOUS
    <3>2. sent > 0 => Standing(id)' = Standing(id)
      BY <3>1, <1>7, <1>t DEF SyncInv, Told
    <3> QED
      BY <3>1, <3>2, <1>0 DEF Standing
  <2>3. StatusOf(events[sent])' = StatusOf(events[sent])
    BY <1>0
  <2> QED
    BY <2>1, <2>2, <2>3, <1>0 DEF SyncInv, Told
<1>10. UpToDate'
  <2>1. StatusOf(events[sent])' = StatusOf(events[sent])
    BY <1>0
  <2> QED
    BY <2>1, <1>0 DEF SyncInv, UpToDate
<1> QED
  BY <1>8, <1>9, <1>10 DEF SyncInv

\* The job records: the first time nothing has been applied, later the row goes
\* astray unless nothing has been sent.
LEMMA SyncRecord ==
  ASSUME TypeInv, JobInv, SyncInv, JobRecord
  PROVE  SyncInv'
<1>t. TypeOK /\ row \in RowType /\ job \in JobType /\ sent \in Nat
  BY BillingAssumption DEF TypeInv, TypeOK
<1>0. /\ UNCHANGED <<subs, events, sent, pending, found, latest>>
      /\ astray' = (astray \/ (row.sub # NoSub /\ sent > 0))
  BY DEF JobRecord, stripe
<1>k. PICK key : key = Key
  OBVIOUS
<1>1. /\ key = <<row.customer, row.plan>> /\ Made(key)
      /\ subs[key].trial = job.trial
      /\ row.sub \in {NoSub, key} /\ key # NoSub
  BY <1>k, BillingAssumption DEF JobRecord, JobInv, Key, SyncInv, Recorded, Made
<1>2. /\ row'.sub = key /\ row'.customer = row.customer /\ row'.plan = row.plan
      /\ row'.status = (IF job.trial THEN "TRIAL" ELSE "ACTIVE")
      /\ job'.pc = "ack"
  BY <1>t, <1>k DEF JobRecord, Key, RowType, JobType
<1>3. \A id : (Standing(id)' = Standing(id)) /\ (Made(id)' <=> Made(id))
  BY <1>0 DEF Standing, Made
<1>4. Recorded'
  <2>1. Made(row.sub)' /\ Standing(row.sub)' = Standing(key)
    BY <1>0, <1>1, <1>2 DEF Made, Standing
  <2>2. sent' = 0 => \A x \in SubIds : subs'[x].status \in
            {"none", IF subs'[x].trial THEN "trialing" ELSE "active"}
    BY <1>0 DEF SyncInv, Recorded
  <2>3. sent' = 0 => Standing(key) = (IF job.trial THEN "TRIAL" ELSE "ACTIVE")
    <3> SUFFICES ASSUME sent = 0
                 PROVE  Standing(key) = (IF job.trial THEN "TRIAL" ELSE "ACTIVE")
      BY <1>0
    <3>1. subs[key].status = (IF job.trial THEN "trialing" ELSE "active")
      BY <1>1 DEF SyncInv, Recorded, Made
    <3> QED
      BY <3>1 DEF Standing
  <2> QED
    BY <1>1, <1>2, <2>1, <2>2, <2>3 DEF Recorded
<1>5. Told'
  <2>1. \A n \in 1 .. sent' : Made(events[n].sub)'
    BY <1>0 DEF SyncInv, Told, Made
  <2>2. Standing(events[sent].sub)' = Standing(events[sent].sub)
    BY <1>0 DEF Standing
  <2>3. StatusOf(events[sent])' = StatusOf(events[sent])
    BY <1>0
  <2>4. \A n \in found' : events'[n].kind # "failed" => row'.sub = events'[n].sub
    <3> SUFFICES ASSUME NEW n \in found, events[n].kind # "failed"
                 PROVE  key = events[n].sub
      BY <1>0, <1>2
    <3>1. row.sub = events[n].sub /\ n \in 1 .. sent
      BY <1>t DEF SyncInv, Told, TypeOK
    <3>2. row.sub # NoSub
      BY <3>1, BillingAssumption DEF SyncInv, Told, Made
    <3> QED
      BY <3>1, <3>2, <1>1
  <2> QED
    BY <2>1, <2>2, <2>3, <2>4, <1>0 DEF SyncInv, Told
<1>6. UpToDate'
  <2> SUFFICES ASSUME ~astray, sent > 0, row.sub = NoSub PROVE UpToDate'
    BY <1>0 DEF UpToDate
  <2>1. latest # sent
    BY <1>t, SyncSubs, BillingAssumption DEF SyncInv, UpToDate
  <2>2. sent \in pending
    BY <2>1 DEF SyncInv, UpToDate
  <2> QED
    BY <1>0, <2>1, <2>2 DEF UpToDate
<1> QED
  BY <1>4, <1>5, <1>6 DEF SyncInv

\* Stripe sends what the subscription has come to.
LEMMA SyncSent ==
  ASSUME TypeInv, SyncInv,
         NEW id \in SubIds, NEW s \in StripeStatuses, NEW last \in {1, 2},
         subs[id].status # "none",
         subs' = [subs EXCEPT ![id].status = s],
         sent' = sent + last,
         pending' = pending \cup (sent + 1 .. sent + last),
         \A n \in 1 .. sent : events'[n] = events[n],
         \A n \in sent + 1 .. sent + last : events'[n].sub = id,
         StatusOf(events'[sent + last]) = PaymentStatus(s),
         events'[sent + last].kind # "failed",
         UNCHANGED <<row, job, found, latest, astray>>
  PROVE  SyncInv'
<1>t. /\ TypeOK /\ sent \in Nat /\ subs \in [SubIds -> SubType] /\ latest \in Nat
      /\ row \in RowType
  BY BillingAssumption DEF TypeInv, TypeOK
<1>1. /\ subs'[id].status = s /\ s # "none" /\ subs'[id].trial = subs[id].trial
      /\ \A x \in SubIds \ {id} : subs'[x] = subs[x]
  BY <1>t DEF SubType, StripeStatuses
<1>2. \A x : Made(x) => Made(x)' /\ subs'[x].trial = subs[x].trial
  BY <1>1 DEF Made
<1>3. sent' > 0 /\ sent' \in pending' /\ latest # sent'
  BY <1>t DEF SyncInv, Told
<1>4. Recorded'
  <2>1. row'.sub # NoSub => row'.sub = <<row'.customer, row'.plan>> /\ Made(row.sub)'
    <3>1. PICK x : x = row.sub
      OBVIOUS
    <3>2. row.sub # NoSub => row.sub = <<row.customer, row.plan>> /\ Made(x)
      BY <3>1 DEF SyncInv, Recorded
    <3> QED
      BY <3>1, <3>2, <1>2 DEF Made
  <2>2. job'.pc = "record" => Made(Key)' /\ subs'[Key'].trial = job'.trial
    <3>1. PICK x : x = Key
      OBVIOUS
    <3>2. Key' = x
      BY <3>1 DEF Key
    <3>3. job.pc = "record" => Made(x) /\ subs[x].trial = job.trial
      BY <3>1 DEF SyncInv, Recorded
    <3> QED
      BY <3>2, <3>3, <1>2 DEF Made
  <2> QED
    BY <2>1, <2>2, <1>3 DEF Recorded
<1>5. Standing(id)' = PaymentStatus(s)
  BY <1>1 DEF Standing, PaymentStatus, StripeStatuses
<1>6. Told'
  <2>1. pending' \subseteq 1 .. sent' /\ latest' <= sent'
    BY <1>t DEF SyncInv, Told
  <2>2. \A n \in 1 .. sent' : Made(events[n].sub)'
    <3> SUFFICES ASSUME NEW n \in 1 .. sent' PROVE Made(events[n].sub)'
      OBVIOUS
    <3>1. CASE n \in 1 .. sent
      <4>1. PICK x : x = events[n].sub
        OBVIOUS
      <4>2. Made(x)'
        BY <3>1, <4>1, <1>2 DEF SyncInv, Told
      <4> QED
        BY <3>1, <4>1, <4>2 DEF Made
    <3>2. CASE n \in sent + 1 .. sent + last
      BY <3>2, <1>1 DEF Made
    <3> QED
      BY <3>1, <3>2, <1>t
  <2>3. events'[sent'].sub = id /\ events'[sent'].kind # "failed"
        /\ StatusOf(events[sent])' = PaymentStatus(s)
    BY <1>t
  <2>4. Standing(events[sent].sub)' = PaymentStatus(s)
    <3>1. Standing(events[sent].sub)' = Standing(id)'
      BY <2>3 DEF Standing
    <3> QED
      BY <3>1, <1>5
  <2>5. \A n \in found' : events'[n].kind # "failed" => row'.sub = events'[n].sub
    <3>1. found \subseteq 1 .. sent
      BY <1>t DEF TypeOK, SyncInv, Told
    <3> QED
      BY <3>1 DEF SyncInv, Told
  <2> QED
    BY <2>1, <2>2, <2>3, <2>4, <2>5 DEF Told
<1>7. UpToDate'
  BY <1>3 DEF UpToDate
<1> QED
  BY <1>4, <1>6, <1>7 DEF SyncInv

\* Every change of a subscription at Stripe.
LEMMA SyncStripe ==
  ASSUME TypeInv, SyncInv, NEW id \in SubIds, StripeChanges(id) \/ PaymentFails(id)
  PROVE  SyncInv'
<1>t. TypeOK /\ sent \in Nat /\ events \in [1 .. MaxEvents -> EventType]
  BY BillingAssumption DEF TypeInv, TypeOK
<1>0. UNCHANGED <<row, job, found, latest, astray>>
  BY DEF StripeChanges, PaymentFails
<1>m. MaxEvents \in Nat
  BY BillingAssumption
<1>1. CASE StripeChanges(id)
  <2>1. PICK s \in Leads(subs[id].status), kind \in {"updated", "deleted"} :
            /\ sent < MaxEvents
            /\ kind = "deleted" => s = "canceled"
            /\ subs' = [subs EXCEPT ![id].status = s]
            /\ events' = [events EXCEPT ![sent + 1] = Event(kind, id, s)]
            /\ sent' = sent + 1
            /\ pending' = pending \cup {sent + 1}
    BY <1>1 DEF StripeChanges
  <2>2. s \in StripeStatuses /\ subs[id].status # "none"
    BY <2>1 DEF Leads, StripeStatuses
  <2>3. events'[sent + 1] = Event(kind, id, s)
        /\ \A n \in 1 .. sent : events'[n] = events[n]
    BY <2>1, <1>t, <1>m
  <2>4. StatusOf(Event(kind, id, s)) = PaymentStatus(s)
    <3>1. CASE kind = "updated"
      BY <3>1 DEF StatusOf, Event
    <3>2. CASE kind = "deleted"
      BY <3>2, <2>1 DEF StatusOf, Event, PaymentStatus
    <3> QED
      BY <3>1, <3>2
  <2>5. \A n \in sent + 1 .. sent + 1 : events'[n].sub = id
    <3>1. \A n \in sent + 1 .. sent + 1 : n = sent + 1
      BY <1>t
    <3> QED
      BY <3>1, <2>3 DEF Event
  <2>6. pending' = pending \cup (sent + 1 .. sent + 1)
    BY <2>1, <1>t
  <2>7. StatusOf(events'[sent + 1]) = PaymentStatus(s)
        /\ events'[sent + 1].kind # "failed"
    BY <2>3, <2>4 DEF Event
  <2> HIDE DEF SyncInv, TypeInv, StatusOf, PaymentStatus
  <2> DEFINE last == 1
  <2>8. last \in {1, 2}
    OBVIOUS
  <2> QED
    BY <1>0, <2>1, <2>2, <2>3, <2>5, <2>6, <2>7, <2>8, SyncSent
<1>2. CASE PaymentFails(id)
  <2>1. /\ subs[id].status # "none"
        /\ sent + 2 \in 1 .. MaxEvents
        /\ subs' = [subs EXCEPT ![id].status = "past_due"]
        /\ events' = [events EXCEPT ![sent + 1] = Event("failed", id, "past_due"),
                                    ![sent + 2] = Event("updated", id, "past_due")]
        /\ sent' = sent + 2
        /\ pending' = pending \cup {sent + 1, sent + 2}
    BY <1>2, <1>t, <1>m DEF PaymentFails
  <2>2. "past_due" \in StripeStatuses
    BY DEF StripeStatuses
  <2>3. /\ events'[sent + 1] = Event("failed", id, "past_due")
        /\ events'[sent + 2] = Event("updated", id, "past_due")
        /\ \A n \in 1 .. sent : events'[n] = events[n]
    BY <2>1, <1>t, <1>m
  <2>4. StatusOf(events'[sent + 2]) = PaymentStatus("past_due")
        /\ events'[sent + 2].kind # "failed"
    BY <2>3 DEF StatusOf, Event
  <2>5. \A n \in sent + 1 .. sent + 2 : events'[n].sub = id
    <3>1. \A n \in sent + 1 .. sent + 2 : n = sent + 1 \/ n = sent + 2
      BY <1>t
    <3> QED
      BY <3>1, <2>3 DEF Event
  <2>6. pending' = pending \cup (sent + 1 .. sent + 2)
    BY <2>1, <1>t
  <2> QED
    BY <1>0, <2>1, <2>2, <2>3, <2>4, <2>5, <2>6, SyncSent
<1> QED
  BY <1>1, <1>2

\* A handler: an event that is dropped, or applied after a newer one, is counted
\* as astray; the newest, applied, brings the row up to date.
LEMMA SyncHandler ==
  ASSUME TypeInv, SyncInv, NEW n \in 1 .. MaxEvents,
         Receive(n) \/ Apply(n) \/ HandlerFails(n)
  PROVE  SyncInv'
<1>t. /\ TypeOK /\ row \in RowType /\ found \subseteq pending /\ sent \in Nat
      /\ latest \in Nat /\ pending \subseteq 1 .. sent /\ n \in Nat
  BY BillingAssumption DEF TypeInv, TypeOK, SyncInv, Told
<1>0. /\ UNCHANGED <<job, subs, events, sent>>
      /\ row'.sub = row.sub /\ row'.customer = row.customer /\ row'.plan = row.plan
  BY <1>t DEF Receive, Apply, HandlerFails, stripe, RowType
<1>p. n \in pending /\ n <= sent /\ sent > 0 /\ pending' \subseteq pending
  BY <1>t DEF Receive, Apply, HandlerFails, stripe
<1>1. Recorded'
  <2>1. row'.sub # NoSub => row'.sub = <<row'.customer, row'.plan>> /\ Made(row.sub)'
    BY <1>0 DEF SyncInv, Recorded, Made
  <2>2. job'.pc = "record" => Made(Key)' /\ subs'[Key'].trial = job'.trial
    BY <1>0 DEF SyncInv, Recorded, Made, Key
  <2> QED
    BY <2>1, <2>2, <1>0, <1>p DEF Recorded
<1>2. ASSUME found' \subseteq found \/ (Receive(n) /\ Known(events[n])),
             latest' <= sent
      PROVE  Told'
  <2>1. \A m \in 1 .. sent' : Made(events[m].sub)'
    BY <1>0 DEF SyncInv, Told, Made
  <2>2. Standing(events[sent].sub)' = Standing(events[sent].sub)
    BY <1>0 DEF Standing
  <2>3. StatusOf(events[sent])' = StatusOf(events[sent])
    BY <1>0
  <2>4. \A m \in found' : events'[m].kind # "failed" => row'.sub = events'[m].sub
    <3>1. found' \subseteq found \cup {n}
      BY <1>2 DEF Receive
    <3>2. n \in found' /\ n \notin found => Known(events[n])
      BY <1>2
    <3>3. Known(events[n]) /\ events[n].kind # "failed" => row.sub = events[n].sub
      BY DEF Known
    <3> QED
      BY <1>0, <3>1, <3>2, <3>3 DEF SyncInv, Told
  <2> QED
    BY <2>1, <2>2, <2>3, <2>4, <1>0, <1>2, <1>p, <1>t DEF SyncInv, Told
<1>s. StatusOf(events[sent])' = StatusOf(events[sent])
  BY <1>0
<1>3. CASE Receive(n)
  <2>1. row' = row /\ latest' = latest
    BY <1>3 DEF Receive
  <2>2. CASE Known(events[n])
    <3>1. pending' = pending /\ astray' = astray
      BY <1>3, <2>2 DEF Receive
    <3>2. UpToDate'
      BY <1>0, <1>s, <2>1, <3>1 DEF SyncInv, UpToDate
    <3>3. Told'
      BY <1>2, <1>3, <2>1, <2>2 DEF SyncInv, Told
    <3> QED
      BY <1>1, <3>2, <3>3 DEF SyncInv
  <2>3. CASE ~Known(events[n])
    <3>1. astray' /\ found' = found
      BY <1>3, <2>3 DEF Receive
    <3>2. UpToDate'
      BY <3>1 DEF UpToDate
    <3>3. Told'
      BY <1>2, <2>1, <3>1 DEF SyncInv, Told
    <3> QED
      BY <1>1, <3>2, <3>3 DEF SyncInv
  <2> QED
    BY <2>2, <2>3
<1>4. CASE Apply(n)
  <2>1. /\ latest' = n /\ found' \subseteq found /\ n \in found
        /\ pending' = pending \/ pending' = pending \ {n}
        /\ astray' = (astray \/ n < latest)
    BY <1>4 DEF Apply
  <2>2. row'.status = StatusOf(events[n])
    <3> DEFINE x == StatusOf(events[n])
               b == row.active /\ x # "CANCELLED"
    <3>1. row' = [row EXCEPT !.status = x, !.active = b]
      BY <1>4 DEF Apply
    <3> HIDE DEF x, b
    <3>2. row'.status = x
      BY <3>1, <1>t DEF RowType
    <3> QED
      BY <3>2 DEF x
  <2>3. Told'
    BY <1>2, <1>p, <2>1
  <2>4. UpToDate'
    <3>1. CASE n = sent
      <4>1. events[n].kind # "failed"
        BY <3>1, <1>p DEF SyncInv, Told
      <4>2. row.sub = events[sent].sub
        BY <3>1, <4>1, <2>1 DEF SyncInv, Told
      <4> QED
        BY <3>1, <4>2, <1>0, <1>s, <2>1, <2>2 DEF UpToDate
    <3>2. CASE n # sent
      <4>1. latest' # sent'
        BY <3>2, <2>1, <1>0
      <4>2. sent' \notin pending' => sent \notin pending
        BY <3>2, <2>1, <1>0
      <4>3. ~astray' /\ sent \notin pending => n < latest
        <5>1. ~astray' => ~astray
          BY <2>1
        <5>2. ~astray /\ sent \notin pending => latest = sent
          BY <1>p DEF SyncInv, UpToDate
        <5>3. n < sent
          BY <3>2, <1>p, <1>t
        <5> QED
          BY <5>1, <5>2, <5>3
      <4>4. ~(~astray' /\ n < latest)
        BY <2>1
      <4> QED
        BY <4>1, <4>2, <4>3, <4>4 DEF UpToDate
    <3> QED
      BY <3>1, <3>2
  <2> QED
    BY <1>1, <2>3, <2>4 DEF SyncInv
<1>5. CASE HandlerFails(n)
  <2>1. /\ row' = row /\ found' \subseteq found
        /\ UNCHANGED <<job, subs, events, sent, pending, latest, astray>>
    BY <1>5 DEF HandlerFails, stripe
  <2> QED
    BY <2>1, SyncFrame
<1> QED
  BY <1>3, <1>4, <1>5

\* Every step, when nobody switches a plan or renames.
LEMMA SyncStep ==
  ASSUME Owners = {}, Renamers = {}, TypeInv, JobInv, SyncInv, [Next]_vars
  PROVE  SyncInv'
<1>t. row \in RowType
  BY DEF TypeInv, TypeOK
<1>1. ASSUME NEW i \in Instances, Cron(i) PROVE SyncInv'
  <2>1. /\ row'.sub = row.sub /\ row'.customer = row.customer
        /\ row'.plan = row.plan
        /\ row.sub # NoSub => row'.status = row.status
    BY <1>1, <1>t DEF Cron, CancelPhase, SuspendPhase, PhaseFails, ToCancel,
                      ToSuspend, RowType
  <2>2. UNCHANGED <<job, subs, events, sent, pending, found, latest, astray>>
    BY <1>1 DEF Cron, CancelPhase, SuspendPhase, PhaseFails, stripe
  <2> QED
    BY <2>1, <2>2, SyncFrame
<1>2. CASE Tick \/ UNCHANGED vars
  <2>1. /\ row' = row
        /\ UNCHANGED <<job, subs, events, sent, pending, found, latest, astray>>
    BY <1>2 DEF Tick, vars, stripe
  <2> QED
    BY <2>1, SyncFrame
<1> QED
  BY <1>1, <1>2, SyncJobFrame, SyncSubscribe, SyncRecord, SyncStripe, SyncHandler
  DEF Next

\* "Payment status is kept in sync by Stripe webhooks": when every event has been
\* answered, the status of a subscribed organization is the one Stripe has, in
\* whatever order its events came, unless one was dropped because the row did not
\* have its id yet, or applied after a newer one, or the job recorded again: for
\* any number of events, failed handlers, lost answers, attempts and stalls of
\* the job and instances with a cron, as long as nobody saves the whole row.
THEOREM InSyncCorrect ==
  ASSUME Owners = {}, Renamers = {}
  PROVE  Spec => []InSync
<1>1. Init => JobInv /\ SyncInv
  <2> SUFFICES ASSUME Init PROVE JobInv /\ SyncInv
    OBVIOUS
  <2>1. /\ job.pc \in {"none", "queued"} /\ \A id \in SubIds : subs[id].status = "none"
        /\ sent = 0 /\ pending = {} /\ found = {} /\ row.sub = NoSub /\ latest = 0
    BY DEF Init, NewRow
  <2>2. 1 .. 0 = {}
    OBVIOUS
  <2> QED
    BY <2>1, <2>2 DEF JobInv, SyncInv, Recorded, Told, UpToDate
<1>2. TypeInv /\ JobInv /\ SyncInv /\ [Next]_vars => JobInv' /\ SyncInv'
  BY JobStep, SyncStep
<1>3. TypeInv /\ SyncInv => InSync
  <2> SUFFICES ASSUME TypeInv, SyncInv, pending = {}, row.sub # NoSub, ~astray
               PROVE  row.status = Standing(row.sub)
    BY DEF InSync, AtRest
  <2>1. CASE sent = 0
    BY <2>1 DEF SyncInv, Recorded
  <2>2. CASE sent # 0
    <3>1. sent > 0
      BY <2>2, BillingAssumption DEF TypeInv, TypeOK
    <3>2. /\ row.sub = events[sent].sub /\ row.status = StatusOf(events[sent])
          /\ StatusOf(events[sent]) = Standing(events[sent].sub)
      BY <3>1 DEF SyncInv, Told, UpToDate
    <3> QED
      BY <3>2
  <2> QED
    BY <2>1, <2>2
<1> QED
  BY <1>1, <1>2, <1>3, TypeInvariant, PTL DEF Spec

-----------------------------------------------------------------------------
(***************************************************************************)
(* The grace.  With one cron, the cancel phase of a day comes before       *)
(* anything that day suspends, whatever nights and phases were missed.     *)
(***************************************************************************)
Earlier ==
    /\ suspendedOn <= today
    /\ \A i \in Instances : cron[i] = "cancel" => suspendedOn < today

LEMMA EarlierStep ==
  ASSUME \A i, j \in Instances : i = j, TypeInv, Earlier, [Next]_vars
  PROVE  Earlier'
<1>t. /\ today \in Nat /\ suspendedOn \in Nat
      /\ cron \in [Instances -> {"idle", "cancel", "suspend"}]
  BY DEF TypeInv, TypeOK
<1>1. CASE Tick
  BY <1>1, <1>t DEF Tick, Earlier
<1>2. ASSUME NEW i \in Instances, Cron(i) PROVE Earlier'
  <2>1. today' = today /\ suspendedOn' \in {suspendedOn, today}
    BY <1>2 DEF Cron, CancelPhase, SuspendPhase, PhaseFails
  <2>2. \E p \in {"cancel", "suspend"} : cron[i] = p /\ Passed(i, p)
    BY <1>2, <1>t DEF Cron, CancelPhase, SuspendPhase, PhaseFails
  <2>3. cron'[i] # "cancel"
    BY <2>2, <1>t DEF Passed, PhaseOrder
  <2>4. \A j \in Instances : cron'[j] # "cancel"
    BY <2>3
  <2> QED
    BY <2>1, <2>4, <1>t DEF Earlier
<1>3. CASE UNCHANGED <<today, cron, suspendedOn>>
  BY <1>3 DEF Earlier
<1>4. ASSUME ~Tick, \A i \in Instances : ~Cron(i)
      PROVE  UNCHANGED <<today, cron, suspendedOn>>
  BY <1>4 DEF Next, Job, JobLoad, JobCustomer, JobStoreCustomer, JobSubscribe,
      JobRecord, JobDone, JobFails, JobStalls, StripeChanges, PaymentFails,
      Receive, Apply, HandlerFails, SwitchPlan, updatePlan, Retrieve,
      SwitchPrice, SelectPlan, SavePlan, SwitchFails, Rename, updateName,
      SelectName, SaveName, RenameFails, vars
<1> QED
  BY <1>1, <1>2, <1>3, <1>4

\* What a cron suspends it does not cancel on the same day, however many nights
\* it missed, when only one instance runs it; all other writers are at work.
THEOREM FreshlyCorrect ==
  ASSUME \A i, j \in Instances : i = j
  PROVE  Spec => FreshlySuspendedKept
<1>1. Init => Earlier
  BY DEF Init, Earlier
<1>2. TypeInv /\ Earlier /\ [Next]_vars => Earlier'
  BY EarlierStep
<1>3. TypeInv /\ Earlier /\ [Next]_vars
        => [\A i \in Instances :
                CancelPhase(i) /\ row' # row => suspendedOn # today]_vars
  BY DEF TypeInv, TypeOK, Earlier, CancelPhase
<1> QED
  BY <1>1, <1>2, <1>3, TypeInvariant, PTL DEF Spec, FreshlySuspendedKept

-----------------------------------------------------------------------------
(***************************************************************************)
(* The end of a trial.  An organization that waits - no subscription, a    *)
(* trial, active - is suspended in the night after its trial and cancelled *)
(* in the one after the grace.  Until it has a subscription only a failed  *)
(* payment of its customer can reach its row, and no plan switch holds it. *)
(***************************************************************************)
Waits == row.sub = NoSub /\ row.trialEnds # 0 /\ row.active

\* Between two nights nobody waits whose grace is over.
TrialBounded ==
    Waits /\ (\A i \in Instances : cron[i] = "idle")
        => today <= TrialDays + Grace

Unreached ==
    /\ \A o \in Owners :
           owner[o].pc # "idle" => owner[o].read.sub # NoSub /\ row.sub # NoSub
    /\ pending \subseteq 1 .. sent
    /\ \A n \in found : row.sub = NoSub => events[n].kind = "failed"

InTime ==
    Waits =>
        /\ row.status \in {"TRIAL", "SUSPENDED"}
        /\ row.status = "TRIAL"
              => \/ today <= TrialDays
                 \/ /\ today = TrialDays + 1
                    /\ \A i \in Instances : cron[i] # "idle"
        /\ today > TrialDays + Grace => \A i \in Instances : cron[i] = "cancel"

\* The initial row is at its first day.
LEMMA ExpiryInit == Init => Unreached /\ InTime
<1> SUFFICES ASSUME Init PROVE Unreached /\ InTime
  OBVIOUS
<1>1. /\ pending = {} /\ found = {} /\ today = 0 /\ sent = 0
      /\ \A o \in Owners : owner[o].pc = "idle"
  BY DEF Init, IdleCall
<1>2. row.trialEnds # 0 => row.status = "TRIAL"
  BY DEF Init, NewRow
<1> QED
  BY <1>1, <1>2, BillingAssumption DEF Unreached, InTime, Waits

\* A subscription once stored is not lost, when nobody renames.
LEMMA SubStays ==
  ASSUME TypeInv, Unreached, Renamers = {}, Next, row'.sub = NoSub
  PROVE  row.sub = NoSub
<1>t. row \in RowType /\ NoSub \notin SubIds
  BY BillingAssumption DEF TypeInv, TypeOK
<1>1. CASE Job
  <2>1. CASE JobRecord
    <3>1. row'.sub = Key /\ Key \in SubIds
      BY <1>t, <2>1
      DEF JobRecord, RowType, Key, TypeInv, TypeOK, JobType, SubIds
    <3> QED
      BY <1>t, <3>1
  <2>2. CASE ~JobRecord
    BY <1>1, <1>t, <2>2 DEF Job, JobLoad, JobCustomer, JobStoreCustomer,
           JobSubscribe, JobDone, JobFails, JobStalls, RowType
  <2> QED
    BY <2>1, <2>2
<1>2. CASE Tick \/ \E id \in SubIds : StripeChanges(id) \/ PaymentFails(id)
  BY <1>2 DEF Tick, StripeChanges, PaymentFails
<1>3. ASSUME NEW n \in 1 .. MaxEvents, Receive(n) \/ Apply(n) \/ HandlerFails(n)
      PROVE  row.sub = NoSub
  BY <1>3, <1>t DEF Receive, Apply, HandlerFails, RowType
<1>4. ASSUME NEW o \in Owners, SwitchPlan(o)
      PROVE  row.sub = NoSub
  <2>1. CASE SavePlan(o)
    <3>1. /\ owner[o] \in CallType /\ owner[o].diff \subseteq Columns
          /\ owner[o].read.sub # NoSub /\ row.sub # NoSub
      BY <2>1 DEF SavePlan, Unreached, TypeInv, TypeOK, CallType
    <3>2. row'.sub # NoSub
      BY <1>t, <2>1, <3>1, SwitchedType, WrittenColumns DEF SavePlan
    <3> QED
      BY <3>2
  <2> QED
    BY <1>4, <2>1 DEF SwitchPlan, updatePlan, Retrieve, SwitchPrice, SelectPlan,
                      SwitchFails
<1>5. ASSUME NEW i \in Instances, Cron(i) PROVE row.sub = NoSub
  BY <1>5, <1>t DEF Cron, CancelPhase, SuspendPhase, PhaseFails, RowType
<1> QED
  BY <1>1, <1>2, <1>3, <1>4, <1>5 DEF Next

\* No step lets another event or a plan switch at a waiting row.
LEMMA UnreachedStep ==
  ASSUME TypeInv, Unreached, Renamers = {}, [Next]_vars
  PROVE  Unreached'
<1>t. /\ row \in RowType /\ sent \in Nat /\ found \subseteq pending
      /\ events \in [1 .. MaxEvents -> EventType] /\ MaxEvents \in Nat
      /\ owner \in [Owners -> CallType]
  BY BillingAssumption DEF TypeInv, TypeOK
<1>n. Next => (row'.sub = NoSub => row.sub = NoSub)
  BY SubStays
<1>1. ASSUME Next, UNCHANGED <<events, sent, owner>>, found' \subseteq found,
             pending' \subseteq pending
      PROVE  Unreached'
  BY <1>n, <1>1 DEF Unreached
<1>2. CASE Job \/ Tick \/ \E i \in Instances : Cron(i)
  <2>1. UNCHANGED <<events, sent, owner, found, pending>>
    BY <1>2 DEF Job, JobLoad, JobCustomer, JobStoreCustomer, JobSubscribe,
           JobRecord, JobDone, JobFails, JobStalls, Tick, Cron, CancelPhase, SuspendPhase,
           PhaseFails, stripe
  <2> QED
    BY <1>1, <1>2, <2>1 DEF Next
<1>3. ASSUME NEW id \in SubIds, StripeChanges(id) \/ PaymentFails(id)
      PROVE  Unreached'
  <2>1. /\ sent' \in Nat /\ sent' > sent /\ UNCHANGED <<row, owner, found>>
        /\ pending' \subseteq pending \cup sent + 1 .. sent'
        /\ \A n \in 1 .. sent : events'[n] = events[n]
    BY <1>3, <1>t DEF StripeChanges, PaymentFails
  <2> QED
    BY <1>t, <2>1 DEF Unreached
<1>4. ASSUME NEW n \in 1 .. MaxEvents, Receive(n) PROVE Unreached'
  <2>1. CASE Known(events[n])
    <3>1. /\ found' = found \cup {n}
          /\ UNCHANGED <<row, events, sent, pending, owner>>
      BY <1>4, <2>1 DEF Receive
    <3>2. row.sub = NoSub => events[n].kind = "failed"
      BY <1>t, <2>1, BillingAssumption DEF Known, EventType
    <3> QED
      BY <3>1, <3>2 DEF Unreached
  <2>2. CASE ~Known(events[n])
    BY <1>1, <1>4, <2>2 DEF Receive, Next
  <2> QED
    BY <2>1, <2>2
<1>5. ASSUME NEW n \in 1 .. MaxEvents, Apply(n) \/ HandlerFails(n)
      PROVE  Unreached'
  <2>1. /\ found' \subseteq found /\ pending' \subseteq pending
        /\ UNCHANGED <<events, sent, owner>>
    BY <1>5 DEF Apply, HandlerFails, stripe
  <2> QED
    BY <1>1, <1>5, <2>1 DEF Next
<1>6. ASSUME NEW o \in Owners, SwitchPlan(o), ~SwitchPrice(o) PROVE Unreached'
  <2>1. UNCHANGED <<events, sent, found, pending>>
    BY <1>6 DEF SwitchPlan, updatePlan, Retrieve, SelectPlan, SavePlan,
                SwitchFails, stripe
  <2>2. row'.sub = NoSub => row.sub = NoSub
    BY <1>n, <1>6 DEF Next
  <2>3. ASSUME NEW q \in Owners, owner'[q].pc # "idle"
        PROVE  owner'[q].read.sub # NoSub /\ row.sub # NoSub
    <3>1. owner[q].pc # "idle" => owner[q].read.sub # NoSub /\ row.sub # NoSub
      BY DEF Unreached
    <3>2. \/ owner'[q] = IdleCall
          \/ owner[q].pc # "idle" /\ owner'[q].read = owner[q].read
          \/ owner'[q] = owner[q]
          \/ row.sub # NoSub /\ owner'[q].read = row
      BY ReadStep
    <3> QED
      BY <2>3, <3>1, <3>2, IdleType
  <2> QED
    BY <2>1, <2>2, <2>3 DEF Unreached
<1>7. ASSUME NEW o \in Owners, SwitchPrice(o) PROVE Unreached'
  <2>1. /\ sent' = sent + 1 /\ pending' = pending \cup {sent + 1}
        /\ \A n \in 1 .. sent : events'[n] = events[n]
        /\ UNCHANGED <<row, found>>
    BY <1>7, <1>t DEF SwitchPrice
  <2>2. \A q \in Owners : owner'[q].read = owner[q].read
                          /\ (owner'[q].pc # "idle" => owner[q].pc # "idle")
    BY <1>7, <1>t DEF SwitchPrice, CallType
  <2>3. \A n \in found : n \in 1 .. sent /\ events'[n] = events[n]
    BY <1>t, <2>1 DEF Unreached
  <2>4. pending' \subseteq 1 .. sent'
    <3>1. 1 .. sent' = (1 .. sent) \cup {sent + 1}
      BY <1>t, <2>1
    <3> QED
      BY <2>1, <3>1 DEF Unreached
  <2>5. \A q \in Owners : owner'[q].pc # "idle"
                             => owner'[q].read.sub # NoSub /\ row'.sub # NoSub
    BY <2>1, <2>2 DEF Unreached
  <2>6. \A n \in found' : row'.sub = NoSub => events'[n].kind = "failed"
    BY <2>1, <2>3 DEF Unreached
  <2> QED
    BY <2>4, <2>5, <2>6 DEF Unreached
<1>8. CASE UNCHANGED vars
  BY <1>8 DEF Unreached, vars, stripe
<1> QED
  BY <1>2, <1>3, <1>4, <1>5, <1>6, <1>7, <1>8 DEF Next

\* Each night comes before the next day, and moves a row that is due.
LEMMA InTimeStep ==
  ASSUME TypeInv, Unreached, InTime, [Next]_vars,
         ~MayMiss, Renamers = {}, Instances # {}, Grace > 0
  PROVE  InTime'
<1>t. /\ row \in RowType /\ today \in Nat /\ TrialDays \in Nat /\ Grace \in Nat
      /\ cron \in [Instances -> {"idle", "cancel", "suspend"}]
      /\ events \in [1 .. MaxEvents -> EventType]
      /\ NoSub \notin SubIds
  BY BillingAssumption DEF TypeInv, TypeOK
<1>1. CASE Tick
  <2>1. /\ UNCHANGED row /\ today' = today + 1
        /\ \A i \in Instances : cron[i] = "idle" /\ cron'[i] = "cancel"
    BY <1>1, <1>t DEF Tick, PhaseOrder
  <2>2. Waits /\ row.status = "TRIAL" => today <= TrialDays
    BY <2>1 DEF InTime
  <2> QED
    BY <1>t, <2>1, <2>2 DEF InTime, Waits
<1>2. ASSUME NEW i \in Instances, CancelPhase(i) PROVE InTime'
  <2> SUFFICES ASSUME Waits'
               PROVE  InTime'
    BY DEF InTime
  <2>1. ~ToCancel /\ row' = row /\ today' = today
    BY <1>2, <1>t DEF CancelPhase, Waits, RowType
  <2>2. Waits /\ row.trialEnds = TrialDays
    BY <1>t, <2>1 DEF Waits, RowType
  <2>3. today <= TrialDays + Grace
    BY <1>t, <2>1, <2>2 DEF ToCancel, GraceOver, InTime, Waits
  <2>4. /\ cron[i] = "cancel" /\ cron'[i] = "suspend"
        /\ \A j \in Instances \ {i} : cron'[j] = cron[j]
    BY <1>2, <1>t DEF CancelPhase, Passed, PhaseOrder
  <2> QED
    BY <1>t, <2>1, <2>2, <2>3, <2>4 DEF InTime
<1>3. ASSUME NEW i \in Instances, SuspendPhase(i) PROVE InTime'
  <2> SUFFICES ASSUME Waits'
               PROVE  InTime'
    BY DEF InTime
  <2>1. /\ today' = today /\ cron[i] = "suspend" /\ row' \in RowType
        /\ row'.sub = row.sub /\ row'.trialEnds = row.trialEnds
        /\ row'.active = row.active
        /\ row'.status = IF ToSuspend THEN "SUSPENDED" ELSE row.status
    BY <1>3, <1>t DEF SuspendPhase, RowType, Statuses
  <2>2. Waits /\ row.trialEnds = TrialDays
    BY <1>t, <2>1 DEF Waits, RowType
  <2>3. today <= TrialDays + Grace
    BY <1>t, <2>1, <2>2 DEF InTime
  <2>4. today > TrialDays => row'.status = "SUSPENDED"
    BY <1>t, <2>1, <2>2 DEF ToSuspend, InTime, Waits
  <2>5. row'.status \in {"TRIAL", "SUSPENDED"}
    BY <2>1, <2>2 DEF InTime
  <2> QED
    BY <1>t, <2>1, <2>3, <2>4, <2>5 DEF InTime
<1>4. ASSUME UNCHANGED <<today, cron>>,
             Waits' => /\ Waits
                       /\ row'.status = row.status \/ row'.status = "SUSPENDED"
      PROVE  InTime'
  BY <1>4 DEF InTime
<1>5. ASSUME NEW n \in 1 .. MaxEvents, Apply(n) PROVE InTime'
  <2>1. /\ n \in found /\ UNCHANGED <<today, cron>>
        /\ row' = [row EXCEPT !.status = StatusOf(events[n]),
                     !.active = @ /\ StatusOf(events[n]) # "CANCELLED"]
    BY <1>5 DEF Apply
  <2>2. row'.sub = row.sub /\ row'.trialEnds = row.trialEnds
        /\ (row'.active => row.active) /\ row'.status = StatusOf(events[n])
    BY <1>t, <2>1 DEF RowType
  <2>3. row.sub = NoSub => StatusOf(events[n]) = "SUSPENDED"
    BY <2>1 DEF Unreached, StatusOf
  <2> QED
    BY <1>4, <2>1, <2>2, <2>3 DEF Waits
<1>6. ASSUME NEW o \in Owners, SavePlan(o) PROVE InTime'
  <2>1. /\ owner[o] \in CallType /\ owner[o].diff \subseteq Columns
        /\ owner[o].read.sub # NoSub /\ row.sub # NoSub
    BY <1>6 DEF SavePlan, Unreached, TypeInv, TypeOK, CallType
  <2>2. row'.sub # NoSub
    BY <1>6, <1>t, <2>1, SwitchedType, WrittenColumns DEF SavePlan
  <2> QED
    BY <2>2 DEF InTime, Waits
<1>7. CASE Job
  <2>1. UNCHANGED <<today, cron>>
    BY <1>7 DEF Job, JobLoad, JobCustomer, JobStoreCustomer, JobSubscribe,
           JobRecord, JobDone, JobFails, JobStalls
  <2>2. CASE JobRecord
    <3>1. row'.sub = Key
      BY <1>t, <2>2 DEF JobRecord, RowType, Key
    <3>2. Key \in SubIds
      BY <2>2 DEF TypeInv, TypeOK, JobType, JobRecord, Key, SubIds
    <3> QED
      BY <1>t, <3>1, <3>2 DEF InTime, Waits
  <2>3. CASE ~JobRecord
    <3>1. /\ row'.sub = row.sub /\ row'.trialEnds = row.trialEnds
          /\ row'.active = row.active /\ row'.status = row.status
      BY <1>7, <1>t, <2>3 DEF Job, JobLoad, JobCustomer, JobStoreCustomer,
             JobSubscribe, JobDone, JobFails, JobStalls, RowType
    <3> QED
      BY <1>4, <2>1, <3>1 DEF Waits
  <2> QED
    BY <2>2, <2>3
<1>8. CASE UNCHANGED <<today, cron, row>>
  BY <1>8 DEF InTime, Waits
<1>9. ASSUME ~Tick, ~Job,
             \A i \in Instances : ~CancelPhase(i) /\ ~SuspendPhase(i),
             \A n \in 1 .. MaxEvents : ~Apply(n), \A o \in Owners : ~SavePlan(o)
      PROVE  UNCHANGED <<today, cron, row>>
  BY <1>9 DEF Next, StripeChanges, PaymentFails, Receive, HandlerFails,
      SwitchPlan, updatePlan, Retrieve, SwitchPrice, SelectPlan, SwitchFails,
      Cron, PhaseFails, vars
<1> QED
  BY <1>1, <1>2, <1>3, <1>5, <1>6, <1>7, <1>8, <1>9

\* "Suspended, then cancelled and deactivated after a 5-day grace period": when
\* no night is missed, whoever switches plans, however the job fails, whenever
\* Stripe's events come and however many instances run the cron, no organization
\* with a trial is active without a subscription once the night after its grace
\* is over (trial-expiry.scheduler.ts).  A rename is excluded: it may write an
\* old row back.
THEOREM TrialBoundedCorrect ==
  ASSUME ~MayMiss, Renamers = {}, Instances # {}, Grace > 0
  PROVE  Spec => []TrialBounded
<1>1. TypeInv /\ Unreached /\ InTime /\ [Next]_vars => Unreached' /\ InTime'
  BY UnreachedStep, InTimeStep
<1>2. TypeInv /\ InTime => TrialBounded
  BY BillingAssumption DEF TypeInv, TypeOK, InTime, TrialBounded
<1> QED
  BY <1>1, <1>2, ExpiryInit, TypeInvariant, PTL DEF Spec

=============================================================================
