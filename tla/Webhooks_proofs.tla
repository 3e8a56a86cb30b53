-------------------------- MODULE Webhooks_proofs --------------------------
(***************************************************************************)
(* What Webhooks guarantees for every number of endpoints, events,         *)
(* attempts and stalls.                                                    *)
(***************************************************************************)
EXTENDS Webhooks, FiniteSetTheorems, SequenceTheorems, TLAPS

\* There are no jobs, rows or endpoints at first.
LEMMA TypeInit == Init => TypeOK
<1> SUFFICES ASSUME Init PROVE TypeOK
  OBVIOUS
<1>1. NewJob \in JobType
  BY DEF NewJob, JobType, JobPc, Codes
<1>2. job \in [Jobs -> JobType] /\ \A j \in Jobs : job[j] = NewJob
  BY <1>1 DEF Init
<1>3. <<>> \in Seq(Status) /\ Len(<<>>) = 0
  OBVIOUS
<1>4. rows \in [Jobs -> Seq(Status)] /\ \A j \in Jobs : Len(rows[j]) = 0
  BY <1>3 DEF Init
<1>5. \A j \in Jobs : job[j].deliveryId = 0 /\ job[j].created = 0
  BY <1>2 DEF NewJob
<1> QED
  BY <1>2, <1>4, <1>5, ConstantsAssumption DEF Init, TypeOK, AdminPc

\* Setting the status of a row keeps the number of rows.
LEMMA RowSet ==
  ASSUME NEW s \in Seq(Status), NEW i \in Nat, NEW st \in Status
  PROVE  /\ [s EXCEPT ![i] = st] \in Seq(Status)
         /\ Len([s EXCEPT ![i] = st]) = Len(s)
<1>1. CASE i \in 1..Len(s)
  BY <1>1, ExceptSeq
<1>2. CASE i \notin 1..Len(s)
  <2>1. s \in [1..Len(s) -> Status]
    BY LenProperties
  <2>2. [s EXCEPT ![i] = st] = s
    BY <1>2, <2>1
  <2> QED
    BY <2>2
<1> QED
  BY <1>1, <1>2

\* A job may become any other that keeps to the rows there are.
LEMMA JobSet ==
  ASSUME NEW j \in Jobs, NEW k \in JobType, Becomes(j, k),
         job \in [Jobs -> JobType]
  PROVE  /\ job' \in [Jobs -> JobType]
         /\ job'[j] = k
         /\ \A i \in Jobs \ {j} : job'[i] = job[i]
  BY DEF Becomes

\* No call of create or remove, and no dispatch, leaves the types.
LEMMA TypeOuterStep ==
  ASSUME TypeOK,
         \/ \E a \in Admins : AdminNext(a)
         \/ \E e \in Events : Dispatch(e)
         \/ \E w \in Endpoints, e \in Events : Enqueue(w, e) \/ EnqueueFails(w, e)
  PROVE  TypeOK'
<1> USE DEF TypeOK
<1>1. ASSUME NEW a \in Admins, AdminNext(a) PROVE TypeOK'
  <2>1. ASSUME NEW w \in Endpoints, Count(a, w) PROVE TypeOK'
    BY <2>1 DEF Count, jobVars, AdminPc
  <2>2. ASSUME NEW w \in Endpoints, Find(a, w) PROVE TypeOK'
    BY <2>2 DEF Find, jobVars, AdminPc
  <2>3. ASSUME NEW events \in SUBSET Events, Create(a, events) PROVE TypeOK'
    BY <2>3 DEF Create, jobVars, AdminPc
  <2>4. CASE Remove(a)
    BY <2>4 DEF Remove, jobVars, AdminPc
  <2>5. CASE AbandonCall(a)
    BY <2>5 DEF AbandonCall, jobVars, AdminPc
  <2> QED
    BY <1>1, <2>1, <2>2, <2>3, <2>4, <2>5 DEF AdminNext
<1>2. ASSUME NEW e \in Events, Dispatch(e) PROVE TypeOK'
  BY <1>2 DEF Dispatch, adminVars, Active
<1>3. ASSUME NEW w \in Endpoints, NEW e \in Events, Enqueue(w, e) PROVE TypeOK'
  <2>1. <<w, e>> \in Jobs
    BY DEF Jobs
  <2> DEFINE n == [job[<<w, e>>] EXCEPT !.state = "waiting"]
  <2>2. /\ n \in JobType /\ n.deliveryId = job[<<w, e>>].deliveryId
        /\ n.created = job[<<w, e>>].created
    <3>1. job[<<w, e>>] \in JobType
      BY <2>1 DEF TypeOK
    <3> QED
      BY <3>1 DEF JobType
  <2>3. /\ job' \in [Jobs -> JobType]
        /\ \A j \in Jobs : /\ job'[j].deliveryId = job[j].deliveryId
                           /\ job'[j].created = job[j].created
    <3>1. job' = [job EXCEPT ![<<w, e>>] = n] /\ job \in [Jobs -> JobType]
      BY <1>3 DEF Enqueue, Becomes, TypeOK
    <3> HIDE DEF n, TypeOK
    <3> QED
      BY <2>1, <2>2, <3>1
  <2> QED
    BY <1>3, <2>3 DEF Enqueue, adminVars
<1>4. ASSUME NEW w \in Endpoints, NEW e \in Events, EnqueueFails(w, e)
      PROVE  TypeOK'
  BY <1>4 DEF EnqueueFails, adminVars
<1> QED
  BY <1>1, <1>2, <1>3, <1>4

\* No step of the processor leaves the types.
LEMMA TypeJobStep ==
  ASSUME TypeOK, NEW j \in Jobs, Step(j) \/ DatabaseFails(j) \/ Crash(j)
  PROVE  TypeOK'
<1> USE DEF TypeOK, otherVars, adminVars
<1> DEFINE k == job[j]
<1>0. k \in JobType
  OBVIOUS
<1>a. ASSUME NEW n \in JobType, Becomes(j, n), UNCHANGED <<otherVars, rows>>,
             n.deliveryId \in {k.deliveryId, k.created}, n.created = k.created,
             posts' \in [Jobs -> Nat], answered' \subseteq Jobs
      PROVE  TypeOK'
  <2>1. \A i \in Jobs : /\ job'[i].deliveryId <= Len(rows[i])
                        /\ job'[i].created <= Len(rows[i])
    BY <1>a, JobSet
  <2> QED
    BY <1>a, <2>1, JobSet
<1>b. ASSUME NEW pc \in JobPc, Goto(j, pc), NEW st \in Status,
             rows' = [rows EXCEPT ![j][k.deliveryId] = st],
             UNCHANGED <<otherVars, posts, answered>>
      PROVE  TypeOK'
  <2>1. [k EXCEPT !.pc = pc] \in JobType
    BY <1>0 DEF JobType
  <2>2. /\ rows' \in [Jobs -> Seq(Status)]
        /\ \A i \in Jobs : Len(rows'[i]) = Len(rows[i])
    BY <1>0, <1>b, RowSet DEF JobType
  <2>3. /\ job' \in [Jobs -> JobType]
        /\ job'[j] = [k EXCEPT !.pc = pc]
        /\ \A i \in Jobs \ {j} : job'[i] = job[i]
    BY <1>b, <2>1, JobSet DEF Goto
  <2>4. \A i \in Jobs : /\ job'[i].deliveryId = job[i].deliveryId
                        /\ job'[i].created = job[i].created
    BY <1>0, <2>3 DEF JobType
  <2> QED
    BY <1>b, <2>2, <2>3, <2>4
<1>c. ASSUME NEW pc \in JobPc, Goto(j, pc), UNCHANGED <<otherVars, rows, posts, answered>>
      PROVE  TypeOK'
  <2>1. /\ [k EXCEPT !.pc = pc] \in JobType
        /\ [k EXCEPT !.pc = pc].deliveryId = k.deliveryId
        /\ [k EXCEPT !.pc = pc].created = k.created
    BY <1>0 DEF JobType
  <2> QED
    BY <1>a, <1>c, <2>1 DEF Goto
<1> USE DEF JobType, JobPc, Codes
<1>1. CASE Take(j)
  <2> DEFINE n == [k EXCEPT !.state = "active",
                      !.pc = IF k.deliveryId = 0 THEN "create" ELSE "post"]
  <2>1. n \in JobType /\ n.deliveryId = k.deliveryId /\ n.created = k.created
    BY <1>0
  <2> QED
    BY <1>1, <1>a, <2>1 DEF Take
<1>2. CASE CreatePending(j)
  <2> DEFINE n == [k EXCEPT !.pc = "store", !.created = Len(rows[j]) + 1]
  <2>0. Len(rows[j]) \in Nat /\ k.deliveryId \in Nat
    BY <1>0, LenProperties
  <2>1. /\ n \in JobType /\ n.deliveryId = k.deliveryId
        /\ n.created = Len(rows[j]) + 1
    <3> DEFINE l == Len(rows[j]) + 1
    <3>1. l \in Nat
      BY <2>0
    <3> HIDE DEF l, TypeOK
    <3>2. /\ [k EXCEPT !.pc = "store", !.created = l] \in JobType
          /\ [k EXCEPT !.pc = "store", !.created = l].deliveryId = k.deliveryId
          /\ [k EXCEPT !.pc = "store", !.created = l].created = l
      BY <1>0, <3>1
    <3> QED
      BY <3>2 DEF l
  <2>2. /\ rows' \in [Jobs -> Seq(Status)]
        /\ Len(rows'[j]) = Len(rows[j]) + 1
        /\ \A i \in Jobs \ {j} : rows'[i] = rows[i]
    BY <1>2, AppendProperties DEF CreatePending, Status
  <2>3. /\ job' \in [Jobs -> JobType]
        /\ job'[j] = n
        /\ \A i \in Jobs \ {j} : job'[i] = job[i]
    BY <1>2, <2>1, JobSet DEF CreatePending
  <2>4. \A i \in Jobs : /\ job'[i].deliveryId <= Len(rows'[i])
                        /\ job'[i].created <= Len(rows'[i])
    <3>1. k.deliveryId <= Len(rows[j])
      OBVIOUS
    <3>2. k.deliveryId <= Len(rows[j]) + 1
      BY <2>0, <3>1
    <3>3. /\ job'[j].deliveryId <= Len(rows'[j])
          /\ job'[j].created <= Len(rows'[j])
      <4> HIDE DEF n, k, JobType, TypeOK
      <4> QED
        BY <2>0, <2>1, <2>2, <2>3, <3>2
    <3>4. ASSUME NEW i \in Jobs \ {j}
          PROVE  /\ job'[i].deliveryId <= Len(rows'[i])
                 /\ job'[i].created <= Len(rows'[i])
      BY <2>2, <2>3
    <3> QED
      BY <3>3, <3>4
  <2> QED
    BY <1>2, <2>2, <2>3, <2>4 DEF CreatePending
<1>3. CASE Store(j)
  <2> DEFINE n == [k EXCEPT !.pc = "post", !.deliveryId = k.created]
  <2>1. n \in JobType /\ n.deliveryId = k.created /\ n.created = k.created
    BY <1>0
  <2> QED
    BY <1>3, <1>a, <2>1 DEF Store, StoredId
<1>4. ASSUME NEW code \in Codes, Post(j, code) PROVE TypeOK'
  <2> DEFINE n == [k EXCEPT !.pc = AfterPost(code), !.code = code]
  <2>1. n \in JobType /\ n.deliveryId = k.deliveryId /\ n.created = k.created
    BY <1>0 DEF AfterPost
  <2>2. posts' \in [Jobs -> Nat] /\ answered' \subseteq Jobs
    BY <1>4 DEF Post
  <2>3. Becomes(j, n) /\ UNCHANGED <<otherVars, rows>>
    BY <1>4 DEF Post
  <2> HIDE DEF n, TypeOK, JobType
  <2> QED
    BY <1>a, <2>1, <2>2, <2>3
<1>5. CASE RecordSuccess(j)
  BY <1>5, <1>b DEF RecordSuccess, Status
<1>6. CASE ReadBack(j)
  BY <1>6, <1>c DEF ReadBack
<1>7. CASE RecordFailure(j)
  BY <1>7, <1>b DEF RecordFailure, Status, FailureStatus
<1>8. CASE Complete(j)
  <2> DEFINE n == [k EXCEPT !.state = "completed"]
  <2>1. n \in JobType /\ n.deliveryId = k.deliveryId /\ n.created = k.created
    BY <1>0
  <2> QED
    BY <1>8, <1>a, <2>1 DEF Complete
<1>9. CASE Retry(j)
  <2> DEFINE n == [k EXCEPT !.made = @ + 1, !.state = AfterThrow(j)]
  <2>1. n \in JobType /\ n.deliveryId = k.deliveryId /\ n.created = k.created
    <3>1. k.made + 1 \in Nat
      BY <1>0
    <3>2. AfterThrow(j) \in {"failed", "waiting"}
      BY DEF AfterThrow
    <3> QED
      BY <1>0, <3>1, <3>2
  <2> QED
    BY <1>9, <1>a, <2>1 DEF Retry
<1>10. CASE DatabaseFails(j)
  <2> DEFINE n == [k EXCEPT !.pc = "fail", !.code = "other"]
  <2>1. n \in JobType /\ n.deliveryId = k.deliveryId /\ n.created = k.created
    BY <1>0
  <2> QED
    BY <1>10, <1>a, <1>c, <2>1 DEF DatabaseFails
<1>11. CASE Crash(j)
  <2> DEFINE n == [k EXCEPT !.stalled = @ + 1,
                      !.state = IF k.stalled < MaxStalled THEN "waiting" ELSE "failed"]
  <2>1. n \in JobType /\ n.deliveryId = k.deliveryId /\ n.created = k.created
    <3>1. k.stalled + 1 \in Nat
      BY <1>0
    <3> QED
      BY <1>0, <3>1
  <2> QED
    BY <1>11, <1>a, <2>1 DEF Crash
<1> QED
  BY <1>1, <1>2, <1>3, <1>4, <1>5, <1>6, <1>7, <1>8, <1>9, <1>10, <1>11
  DEF Step

\* No step leaves the types.
LEMMA TypeStep == TypeOK /\ [Next]_vars => TypeOK'
<1> SUFFICES ASSUME TypeOK, [Next]_vars PROVE TypeOK'
  OBVIOUS
<1>1. CASE UNCHANGED vars
  BY <1>1 DEF vars, TypeOK
<1> QED
  BY <1>1, TypeOuterStep, TypeJobStep DEF Next

\* The types of Webhooks hold in every reachable state.
THEOREM TypeCorrect == Spec => []TypeOK
  BY TypeInit, TypeStep, PTL DEF Spec

-----------------------------------------------------------------------------
(***************************************************************************)
(* The inductive invariant of the counters.  A job enters the queue once.  *)
(* While it can still be run it has attempts and stalls left, and it has   *)
(* sent one POST per attempt and stall, plus one in the current run.       *)
(***************************************************************************)
QueuedOnce ==
  \A w \in Endpoints, e \in Events :
    /\ w \in targets[e] => e \in dispatched
    /\ e \notin dispatched \/ w \in targets[e] => job[<<w, e>>].state = "none"

Sent(j) ==
  IF \/ job[j].state = "completed"
     \/ job[j].state = "active" /\ job[j].pc \notin {"create", "store", "post"}
  THEN 1 ELSE 0

Counted(j) ==
  /\ posts[j] <= job[j].made + job[j].stalled + Sent(j)
  /\ job[j].state # "failed" => job[j].made < Attempts /\ job[j].stalled <= MaxStalled
  /\ job[j].state = "failed" => job[j].made + job[j].stalled <= Attempts + MaxStalled

\* A row is about to say SUCCESS, or says so, only after a 2xx.
Truthful(j) ==
  /\ At(j, "succeed") => j \in answered
  /\ \A i \in DOMAIN rows[j] : rows[j][i] = "SUCCESS" => j \in answered

IInv ==
  TypeOK /\ QueuedOnce /\ (\A j \in Jobs : Counted(j) /\ Truthful(j))

\* IInv holds initially: nothing was dispatched.
LEMMA IInvInit == Init => IInv
<1> SUFFICES ASSUME Init PROVE IInv
  OBVIOUS
<1>1. TypeOK
  BY TypeInit
<1>2. QueuedOnce
  BY DEF Init, QueuedOnce, Jobs, NewJob
<1>3. ASSUME NEW j \in Jobs PROVE Counted(j) /\ Truthful(j)
  BY ConstantsAssumption DEF Init, Counted, Truthful, Sent, NewJob, At
<1> QED
  BY <1>1, <1>2, <1>3 DEF IInv

\* A job that nothing touches keeps its part of IInv.
LEMMA Frame ==
  ASSUME NEW j \in Jobs, Counted(j), Truthful(j),
         job'[j] = job[j], rows'[j] = rows[j], posts'[j] = posts[j],
         j \in answered => j \in answered'
  PROVE  Counted(j)' /\ Truthful(j)'
  BY DEF Counted, Truthful, Sent, At

\* IInv survives what happens around the jobs.
LEMMA IInvOuterStep ==
  ASSUME IInv,
         \/ \E a \in Admins : AdminNext(a)
         \/ \E e \in Events : Dispatch(e)
         \/ \E w \in Endpoints, e \in Events : Enqueue(w, e) \/ EnqueueFails(w, e)
  PROVE  IInv'
<1>0. TypeOK /\ TypeOK'
  BY TypeOuterStep DEF IInv
<1>1. ASSUME NEW a \in Admins, AdminNext(a) PROVE UNCHANGED jobVars
  BY <1>1 DEF AdminNext, Count, Find, Create, Remove, AbandonCall
<1>2. ASSUME UNCHANGED jobVars PROVE IInv'
  <2>1. QueuedOnce'
    BY <1>2 DEF IInv, QueuedOnce, jobVars
  <2>2. \A j \in Jobs : Counted(j)' /\ Truthful(j)'
    BY <1>2, Frame DEF IInv, jobVars
  <2> QED
    BY <1>0, <2>1, <2>2 DEF IInv
<1>3. ASSUME NEW e \in Events, Dispatch(e) PROVE IInv'
  <2>1. QueuedOnce'
    BY <1>0, <1>3 DEF IInv, QueuedOnce, Dispatch, TypeOK
  <2>2. \A j \in Jobs : Counted(j)' /\ Truthful(j)'
    BY <1>3, Frame DEF IInv, Dispatch
  <2> QED
    BY <1>0, <2>1, <2>2 DEF IInv
<1>4. ASSUME NEW w \in Endpoints, NEW e \in Events, EnqueueFails(w, e)
      PROVE  IInv'
  <2>1. QueuedOnce'
    <3>1. QueuedOnce /\ job' = job /\ dispatched' = dispatched
      BY <1>4 DEF IInv, EnqueueFails
    <3>2. \A f \in Events : targets'[f] \subseteq targets[f]
      BY <1>0, <1>4 DEF EnqueueFails, TypeOK
    <3> QED
      BY <3>1, <3>2 DEF QueuedOnce
  <2>2. \A j \in Jobs : Counted(j)' /\ Truthful(j)'
    BY <1>4, Frame DEF IInv, EnqueueFails
  <2> QED
    BY <1>0, <2>1, <2>2 DEF IInv
<1>5. ASSUME NEW w \in Endpoints, NEW e \in Events, Enqueue(w, e) PROVE IInv'
  <2> DEFINE j == <<w, e>>
             k == [job[j] EXCEPT !.state = "waiting"]
  <2>1. j \in Jobs /\ job[j].state = "none" /\ e \in dispatched
    <3>1. j \in Jobs /\ w \in targets[e]
      BY <1>5 DEF Jobs, Enqueue
    <3>2. QueuedOnce
      BY DEF IInv
    <3> QED
      BY <3>1, <3>2 DEF QueuedOnce
  <2>2. /\ k \in JobType /\ k.state = "waiting" /\ k.pc = job[j].pc
        /\ k.made = job[j].made /\ k.stalled = job[j].stalled
    <3>1. job[j] \in JobType
      BY <1>0, <2>1 DEF TypeOK
    <3> HIDE DEF j
    <3> QED
      BY <3>1 DEF JobType
  <2>3. job'[j] = k /\ \A i \in Jobs \ {j} : job'[i] = job[i]
    BY <1>0, <1>5, <2>1, <2>2, JobSet DEF Enqueue, TypeOK
  <2>4. QueuedOnce'
    <3> SUFFICES ASSUME NEW v \in Endpoints, NEW f \in Events
                 PROVE  /\ v \in targets'[f] => f \in dispatched'
                        /\ f \notin dispatched' \/ v \in targets'[f]
                             => job'[<<v, f>>].state = "none"
      BY DEF QueuedOnce
    <3>1. targets' = [targets EXCEPT ![e] = targets[e] \ {w}]
          /\ dispatched' = dispatched
      BY <1>5 DEF Enqueue
    <3>2. /\ v \in targets[f] => f \in dispatched
          /\ f \notin dispatched \/ v \in targets[f]
               => job[<<v, f>>].state = "none"
      BY DEF IInv, QueuedOnce
    <3>3. CASE v = w /\ f = e
      BY <1>0, <2>1, <3>1, <3>3 DEF TypeOK
    <3>4. CASE ~(v = w /\ f = e)
      <4>1. <<v, f>> \in Jobs \ {j}
        BY <3>4 DEF Jobs
      <4>2. job'[<<v, f>>] = job[<<v, f>>]
        BY <2>3, <4>1
      <4>3. v \in targets'[f] => v \in targets[f]
        BY <1>0, <3>1 DEF TypeOK
      <4> QED
        BY <3>1, <3>2, <4>2, <4>3
    <3> QED
      BY <3>3, <3>4
  <2>5. Counted(j)' /\ Truthful(j)'
    BY <1>5, <2>1, <2>2, <2>3 DEF IInv, Counted, Truthful, Sent, At, Enqueue
  <2>6. \A i \in Jobs \ {j} : Counted(i)' /\ Truthful(i)'
    BY <1>5, <2>3, Frame DEF IInv, Enqueue
  <2> QED
    BY <1>0, <2>4, <2>5, <2>6 DEF IInv
<1> QED
  BY <1>1, <1>2, <1>3, <1>4, <1>5

\* IInv survives every step of the processor, and every failure.
LEMMA IInvJobStep ==
  ASSUME IInv, NEW j \in Jobs, Step(j) \/ DatabaseFails(j) \/ Crash(j)
  PROVE  IInv'
<1> DEFINE k == job[j]
<1>0. TypeOK /\ TypeOK' /\ k \in JobType
  BY TypeJobStep DEF IInv, TypeOK
<1>1. /\ UNCHANGED otherVars
      /\ k.state \in {"waiting", "active"}
      /\ \E n : Becomes(j, n)
  BY DEF Step, Take, CreatePending, Store, Post, RecordSuccess, ReadBack,
     RecordFailure, Complete, Retry, DatabaseFails, Crash, At, Goto
<1>2. \A i \in Jobs \ {j} : job'[i] = job[i]
  BY <1>0, <1>1 DEF TypeOK, Becomes
<1>3. QueuedOnce'
  <2> SUFFICES ASSUME NEW v \in Endpoints, NEW f \in Events
               PROVE  /\ v \in targets[f] => f \in dispatched
                      /\ f \notin dispatched \/ v \in targets[f]
                           => job'[<<v, f>>].state = "none"
    BY <1>1 DEF QueuedOnce, otherVars
  <2>1. <<v, f>> \in Jobs
    BY DEF Jobs
  <2>2. CASE <<v, f>> = j
    BY <1>1, <2>2 DEF IInv, QueuedOnce
  <2>3. CASE <<v, f>> # j
    BY <1>2, <2>1, <2>3 DEF IInv, QueuedOnce
  <2> QED
    BY <2>2, <2>3
<1>4. \A i \in Jobs \ {j} : Counted(i)' /\ Truthful(i)'
  <2>1. ASSUME NEW i \in Jobs \ {j}
        PROVE  /\ rows'[i] = rows[i] /\ posts'[i] = posts[i]
               /\ i \in answered => i \in answered'
    BY <1>0 DEF Step, Take, CreatePending, Store, Post, RecordSuccess, ReadBack,
       RecordFailure, Complete, Retry, DatabaseFails, Crash, TypeOK
  <2> QED
    BY <1>2, <2>1, Frame DEF IInv
<1>5. Counted(j) /\ Truthful(j)
  BY DEF IInv
<1>6. /\ k.made \in Nat /\ k.stalled \in Nat /\ posts[j] \in Nat
      /\ Attempts \in Nat \ {0} /\ MaxStalled \in Nat
      /\ k.deliveryId \in Nat /\ rows[j] \in Seq(Status)
  BY <1>0, ConstantsAssumption DEF JobType, TypeOK
<1>7. ASSUME NEW n, Becomes(j, n) PROVE job'[j] = n
  BY <1>0, <1>7 DEF TypeOK, Becomes
<1>c. Counted(j)
  BY <1>5
<1>n. /\ k.made \in Nat /\ k.stalled \in Nat /\ posts[j] \in Nat
      /\ Attempts \in Nat \ {0} /\ MaxStalled \in Nat
  BY <1>6
<1>8. Counted(j)'
  <2> USE <1>c, <1>n DEF Counted, Sent
  <2>1. CASE Take(j)
    BY <1>0, <1>7, <2>1 DEF Take, JobType
  <2>2. CASE CreatePending(j)
    BY <1>0, <1>7, <2>2 DEF CreatePending, At, JobType
  <2>3. CASE Store(j)
    BY <1>0, <1>7, <2>3 DEF Store, At, JobType
  <2>4. ASSUME NEW code \in Codes, Post(j, code) PROVE Counted(j)'
    <3>1. posts'[j] = posts[j] + 1
      BY <1>0, <2>4 DEF Post, TypeOK
    <3>2. /\ job'[j].state = "active" /\ job'[j].pc \in {"succeed", "fail"}
          /\ job'[j].made = k.made /\ job'[j].stalled = k.stalled
      BY <1>0, <1>7, <2>4 DEF Post, At, AfterPost, JobType
    <3> QED
      BY <2>4, <3>1, <3>2 DEF Post, At
  <2>5. CASE RecordSuccess(j)
    BY <1>0, <1>7, <2>5 DEF RecordSuccess, Goto, At, JobType
  <2>6. CASE ReadBack(j)
    BY <1>0, <1>7, <2>6 DEF ReadBack, Goto, At, JobType
  <2>7. CASE RecordFailure(j)
    BY <1>0, <1>7, <2>7 DEF RecordFailure, Goto, At, JobType
  <2>8. CASE Complete(j)
    BY <1>0, <1>7, <2>8 DEF Complete, At, JobType
  <2>9. CASE Retry(j)
    <3>1. /\ job'[j].made = k.made + 1 /\ job'[j].stalled = k.stalled
          /\ job'[j].state = AfterThrow(j) /\ posts' = posts
      BY <1>0, <1>7, <2>9 DEF Retry, JobType
    <3>2. k.state = "active"
      BY <2>9 DEF Retry, At
    <3>3. CASE k.made + 1 >= Attempts
      BY <3>1, <3>2, <3>3 DEF AfterThrow, Exhausted
    <3>4. CASE ~(k.made + 1 >= Attempts)
      BY <3>1, <3>2, <3>4 DEF AfterThrow, Exhausted
    <3> QED
      BY <3>3, <3>4
  <2>10. CASE DatabaseFails(j)
    <3>1. /\ job'[j].made = k.made /\ job'[j].stalled = k.stalled
          /\ job'[j].state = "active" /\ job'[j].pc \in {"throw", "fail"}
          /\ posts' = posts /\ k.state = "active"
      <4>1. CASE \E pc \in {"create", "store", "fail"} : At(j, pc) /\ Goto(j, "throw")
        BY <1>0, <1>7, <2>10, <4>1 DEF DatabaseFails, Goto, At, JobType
      <4>2. CASE /\ At(j, "succeed") \/ At(j, "readBack")
                 /\ Becomes(j, [job[j] EXCEPT !.pc = "fail", !.code = "other"])
        BY <1>0, <1>7, <2>10, <4>2 DEF DatabaseFails, At, JobType
      <4> QED
        BY <2>10, <4>1, <4>2 DEF DatabaseFails
    <3> QED
      BY <3>1
  <2>11. CASE Crash(j)
    <3>1. /\ job'[j].made = k.made /\ job'[j].stalled = k.stalled + 1
          /\ job'[j].state = IF k.stalled < MaxStalled THEN "waiting" ELSE "failed"
          /\ posts' = posts /\ k.state = "active"
      BY <1>0, <1>7, <2>11 DEF Crash, JobType
    <3>2. k.made < Attempts /\ k.stalled <= MaxStalled
      BY <3>1
    <3>3. posts[j] <= k.made + (k.stalled + 1)
      BY <3>1
    <3>4. k.made + (k.stalled + 1) <= Attempts + MaxStalled
      BY <3>2
    <3> QED
      BY <3>1, <3>2, <3>3, <3>4
  <2> QED
    BY <2>1, <2>2, <2>3, <2>4, <2>5, <2>6, <2>7, <2>8, <2>9, <2>10, <2>11
    DEF Step
<1>9. Truthful(j)'
  <2> USE <1>5 DEF Truthful, At
  <2>1. ASSUME rows'[j] = rows[j], answered' = answered,
               job'[j].pc = "succeed" => k.pc = "succeed",
               job'[j].state = "active" => k.state = "active" \/ job'[j].pc # "succeed"
        PROVE  Truthful(j)'
    BY <2>1
  <2>2. CASE Take(j) \/ Store(j) \/ ReadBack(j) \/ Complete(j) \/ Retry(j)
             \/ DatabaseFails(j) \/ Crash(j)
    BY <1>0, <1>7, <2>1, <2>2
    DEF Take, Store, ReadBack, Complete, Retry, DatabaseFails, Crash, Goto,
        AfterThrow, JobType
  <2>3. CASE CreatePending(j)
    <3>1. rows'[j] = Append(rows[j], "PENDING") /\ answered' = answered
      BY <1>0, <2>3 DEF CreatePending, TypeOK
    <3>2. job'[j].pc = "store"
      BY <1>0, <1>7, <2>3 DEF CreatePending, JobType
    <3>3. ASSUME NEW i \in DOMAIN rows'[j], rows'[j][i] = "SUCCESS"
          PROVE  j \in answered
      <4>1. i \in 1..Len(rows[j]) /\ rows[j][i] = "SUCCESS"
        BY <1>6, <3>1, <3>3, AppendProperties, LenProperties DEF Status
      <4> QED
        BY <1>6, <4>1, LenProperties
    <3> QED
      BY <3>1, <3>2, <3>3
  <2>4. ASSUME NEW code \in Codes, Post(j, code) PROVE Truthful(j)'
    BY <1>0, <1>7, <2>4 DEF Post, AfterPost, JobType
  <2>5. ASSUME NEW st \in Status, rows' = [rows EXCEPT ![j][k.deliveryId] = st],
               st = "SUCCESS" => j \in answered, answered' = answered,
               job'[j].pc # "succeed"
        PROVE  Truthful(j)'
    <3>1. rows'[j] = [rows[j] EXCEPT ![k.deliveryId] = st]
      BY <1>0, <2>5 DEF TypeOK
    <3>2. rows[j] \in [1..Len(rows[j]) -> Status]
      BY <1>6, LenProperties
    <3>3. ASSUME NEW i \in DOMAIN rows'[j], rows'[j][i] = "SUCCESS"
          PROVE  j \in answered
      BY <2>5, <3>1, <3>2, <3>3
    <3> QED
      BY <2>5, <3>3
  <2>6. CASE RecordSuccess(j)
    BY <1>0, <1>7, <2>5, <2>6 DEF RecordSuccess, Goto, Status, JobType
  <2>7. CASE RecordFailure(j)
    BY <1>0, <1>7, <2>5, <2>7 DEF RecordFailure, Goto, Status, JobType,
       FailureStatus
  <2> QED
    BY <2>2, <2>3, <2>4, <2>6, <2>7 DEF Step
<1> QED
  BY <1>0, <1>3, <1>4, <1>8, <1>9 DEF IInv

\* IInv is preserved by every step.
LEMMA IInvStep == IInv /\ [Next]_vars => IInv'
<1> SUFFICES ASSUME IInv, [Next]_vars PROVE IInv'
  OBVIOUS
<1>1. CASE UNCHANGED vars
  <2>1. TypeOK' /\ QueuedOnce'
    BY <1>1 DEF IInv, TypeOK, QueuedOnce, vars
  <2>2. \A j \in Jobs : Counted(j)' /\ Truthful(j)'
    BY <1>1, Frame DEF IInv, vars
  <2> QED
    BY <2>1, <2>2 DEF IInv
<1> QED
  BY <1>1, IInvOuterStep, IInvJobStep DEF Next

\* The counters bound the POSTs of a job.
LEMMA CountedBounds == IInv => PostsBounded
<1> SUFFICES ASSUME IInv, NEW j \in Jobs
             PROVE  posts[j] <= Attempts + MaxStalled
  BY DEF PostsBounded
<1>1. /\ job[j].made \in Nat /\ job[j].stalled \in Nat /\ posts[j] \in Nat
      /\ Attempts \in Nat /\ MaxStalled \in Nat
  BY ConstantsAssumption DEF IInv, TypeOK, JobType
<1> QED
  BY <1>1 DEF IInv, Counted, Sent

\* No combination of retries, crashes and failed writes sends an endpoint one
\* event more often than Attempts + MaxStalled times (webhook.processor.ts,
\* process; webhook.queue.ts).
THEOREM PostsCorrect == Spec => []PostsBounded
  BY IInvInit, IInvStep, CountedBounds, PTL DEF Spec

\* No row claims a delivery that did not happen (webhook.processor.ts).
THEOREM SuccessCorrect == Spec => []SuccessIsTrue
<1>1. IInv => SuccessIsTrue
  BY DEF IInv, Truthful, SuccessIsTrue
<1> QED
  BY IInvInit, IInvStep, <1>1, PTL DEF Spec

-----------------------------------------------------------------------------
(***************************************************************************)
(* The jobs end.  A job that is queued or in hand has a rank that every    *)
(* step of it lowers, whatever fails: by eight with each attempt and each  *)
(* stall, and within an attempt by the awaited calls that are left.  What  *)
(* is done is left alone.  With workers that keep taking jobs this is      *)
(* JobsEnd.                                                                *)
(***************************************************************************)
UnderWay(j) == job[j].state \in {"waiting", "active"}

Ahead(k) ==
  IF k.state = "waiting" THEN 8
  ELSE CASE k.pc = "create" -> 7
         [] k.pc = "store" -> 6
         [] k.pc = "post" -> 5
         [] k.pc = "succeed" -> 4
         [] k.pc = "readBack" -> 3
         [] k.pc = "fail" -> 2
         [] k.pc \in {"return", "throw"} -> 1

Rank(k) ==
  IF k.state \in {"waiting", "active"}
  THEN 8 * (Attempts - k.made + MaxStalled - k.stalled) + Ahead(k) ELSE 0

Settles(j) ==
  /\ Rank(job[j]) \in Nat
  /\ UnderWay(j) => job'[j] = job[j] \/ Rank(job'[j]) < Rank(job[j])
  /\ Done(j) => UNCHANGED <<job[j], rows[j], posts[j]>>

\* What a step may leave of a job, in the order of the ranks.
Nearer(k, n) ==
  \/ n.state \in {"completed", "failed"}
  \/ /\ n.state = "active" /\ k.state \in {"waiting", "active"}
     /\ n.made = k.made /\ n.stalled = k.stalled /\ Ahead(n) < Ahead(k)
  \/ /\ n.state = "waiting" /\ k.state = "active"
     /\ \/ n.made = k.made + 1 /\ n.stalled = k.stalled
        \/ n.made = k.made /\ n.stalled = k.stalled + 1

\* Each of these lowers the rank.
LEMMA NearerFalls ==
  ASSUME NEW k \in JobType, NEW n \in JobType, Nearer(k, n),
         k.state \in {"waiting", "active"},
         k.made < Attempts, k.stalled <= MaxStalled
  PROVE  Rank(k) \in Nat /\ Rank(n) < Rank(k)
<1>1. /\ Attempts \in Nat /\ MaxStalled \in Nat
      /\ k.made \in Nat /\ k.stalled \in Nat
  BY ConstantsAssumption DEF JobType
<1>2. /\ Ahead(k) \in 1..8 /\ Ahead(n) \in 1..8
      /\ n.state = "waiting" => Ahead(n) = 8
  BY DEF Ahead, JobType, JobPc
<1>3. Rank(k) = 8 * (Attempts - k.made + MaxStalled - k.stalled) + Ahead(k)
  BY DEF Rank
<1>4. Rank(k) \in Nat /\ Rank(k) > 0
  BY <1>1, <1>2, <1>3
<1>5. CASE n.state \in {"completed", "failed"}
  BY <1>4, <1>5 DEF Rank
<1>6. CASE n.state \in {"waiting", "active"}
  <2>1. Rank(n) = 8 * (Attempts - n.made + MaxStalled - n.stalled) + Ahead(n)
    BY <1>6 DEF Rank
  <2>2. CASE n.made = k.made /\ n.stalled = k.stalled /\ Ahead(n) < Ahead(k)
    BY <1>1, <1>2, <1>3, <1>4, <2>1, <2>2
  <2>3. CASE /\ k.state = "active"
             /\ \/ n.made = k.made + 1 /\ n.stalled = k.stalled
                \/ n.made = k.made /\ n.stalled = k.stalled + 1
    BY <1>1, <1>2, <1>3, <1>4, <2>1, <2>3
  <2> QED
    BY <1>6, <2>2, <2>3 DEF Nearer
<1> QED
  BY <1>5, <1>6 DEF Nearer

\* A step of the processor, a failing write and a crash are such steps, and
\* touch one job that is under way.
LEMMA JobNearer ==
  ASSUME TypeOK, NEW j \in Jobs, Step(j) \/ DatabaseFails(j) \/ Crash(j)
  PROVE  /\ UnderWay(j) /\ Nearer(job[j], job'[j])
         /\ \A i \in Jobs \ {j} : UNCHANGED <<job[i], rows[i], posts[i]>>
<1> DEFINE k == job[j]
           n == job'[j]
<1>t. /\ job \in [Jobs -> JobType] /\ k \in JobType
      /\ rows \in [Jobs -> Seq(Status)] /\ posts \in [Jobs -> Nat]
  BY DEF TypeOK
<1>r. \A i \in Jobs \ {j} : UNCHANGED <<job[i], rows[i], posts[i]>>
  <2>1. CASE Step(j)
    BY <1>t, <2>1
    DEF Step, Take, CreatePending, Store, Post, RecordSuccess, ReadBack,
        RecordFailure, Complete, Retry, Becomes, Goto
  <2>2. CASE DatabaseFails(j) \/ Crash(j)
    BY <1>t, <2>2 DEF DatabaseFails, Crash, Becomes, Goto
  <2> QED
    BY <2>1, <2>2
<1>u. UnderWay(j)
  BY DEF Step, Take, CreatePending, Store, Post, RecordSuccess, ReadBack,
         RecordFailure, Complete, Retry, DatabaseFails, Crash, At, UnderWay
<1>2. ASSUME NEW pc \in JobPc, k.state \in {"waiting", "active"},
             n.state = "active", n.pc = pc, n.made = k.made,
             n.stalled = k.stalled,
             \/ k.state = "waiting"
             \/ k.pc = "create" /\ pc \in {"store", "throw"}
             \/ k.pc = "store" /\ pc \in {"post", "throw"}
             \/ k.pc = "post" /\ pc \in {"succeed", "fail"}
             \/ k.pc = "succeed" /\ pc \in {"readBack", "fail"}
             \/ k.pc = "readBack" /\ pc \in {"return", "fail"}
             \/ k.pc = "fail" /\ pc \in {"return", "throw"}
      PROVE  Nearer(k, n)
  <2>1. Ahead(n) < Ahead(k)
    BY <1>2 DEF Ahead, JobPc
  <2> QED
    BY <1>2, <2>1 DEF Nearer
<1> HIDE DEF k, n
<1> USE DEF JobPc
<1>3. CASE Take(j)
  <2>1. /\ k.state = "waiting" /\ n.state = "active" /\ n.pc \in JobPc
        /\ n.made = k.made /\ n.stalled = k.stalled
    BY <1>t, <1>3 DEF Take, JobType, Becomes, k, n
  <2>2. Nearer(k, n)
    BY <1>2, <2>1
  <2> QED
    BY <1>r, <1>u, <2>2 DEF k, n
<1>4. CASE CreatePending(j)
  <2>1. /\ k.state = "active" /\ k.pc = "create" /\ n.state = "active"
        /\ n.pc = "store" /\ n.made = k.made /\ n.stalled = k.stalled
    BY <1>t, <1>4 DEF CreatePending, At, JobType, Becomes, k, n
  <2>2. Nearer(k, n)
    BY <1>2, <2>1
  <2> QED
    BY <1>r, <1>u, <2>2 DEF k, n
<1>5. CASE Store(j)
  <2>1. /\ k.state = "active" /\ k.pc = "store" /\ n.state = "active"
        /\ n.pc = "post" /\ n.made = k.made /\ n.stalled = k.stalled
    BY <1>t, <1>5 DEF Store, At, JobType, Becomes, k, n
  <2>2. Nearer(k, n)
    BY <1>2, <2>1
  <2> QED
    BY <1>r, <1>u, <2>2 DEF k, n
<1>6. ASSUME NEW code \in Codes, Post(j, code) PROVE Nearer(job[j], job'[j])
  <2>1. /\ k.state = "active" /\ k.pc = "post" /\ n.state = "active"
        /\ n.pc \in {"succeed", "fail"} /\ n.made = k.made
        /\ n.stalled = k.stalled
    BY <1>t, <1>6 DEF Post, AfterPost, At, JobType, Becomes, k, n
  <2> QED
    BY <1>2, <2>1 DEF k, n
<1>7. CASE RecordSuccess(j) \/ ReadBack(j)
  <2>1. /\ k.state = "active" /\ n.state = "active"
        /\ \/ k.pc = "succeed" /\ n.pc = "readBack"
           \/ k.pc = "readBack" /\ n.pc = "return"
        /\ n.made = k.made /\ n.stalled = k.stalled
    BY <1>t, <1>7 DEF RecordSuccess, ReadBack, Goto, At, JobType, Becomes, k, n
  <2>2. Nearer(k, n)
    BY <1>2, <2>1
  <2> QED
    BY <1>r, <1>u, <2>2 DEF k, n
<1>8. CASE RecordFailure(j)
  <2>1. /\ k.state = "active" /\ k.pc = "fail" /\ n.state = "active"
        /\ n.pc \in {"return", "throw"} /\ n.made = k.made
        /\ n.stalled = k.stalled
    BY <1>t, <1>8 DEF RecordFailure, Goto, At, JobType, Becomes, k, n
  <2>2. Nearer(k, n)
    BY <1>2, <2>1
  <2> QED
    BY <1>r, <1>u, <2>2 DEF k, n
<1>9. CASE Complete(j)
  <2>1. n.state = "completed"
    BY <1>t, <1>9 DEF Complete, JobType, Becomes, k, n
  <2> QED
    BY <1>r, <1>u, <2>1 DEF Nearer, k, n
<1>10. CASE Retry(j)
  <2>1. /\ k.state = "active" /\ n.state \in {"waiting", "failed"}
        /\ n.made = k.made + 1 /\ n.stalled = k.stalled
    BY <1>t, <1>10 DEF Retry, AfterThrow, At, JobType, Becomes, k, n
  <2> QED
    BY <1>r, <1>u, <2>1 DEF Nearer, k, n
<1>11. CASE DatabaseFails(j)
  <2>1. /\ k.state = "active" /\ n.state = "active"
        /\ \/ k.pc \in {"create", "store", "fail"} /\ n.pc = "throw"
           \/ k.pc \in {"succeed", "readBack"} /\ n.pc = "fail"
        /\ n.made = k.made /\ n.stalled = k.stalled
    <3>1. ASSUME NEW pc \in {"create", "store", "fail"},
                 At(j, pc), Goto(j, "throw")
          PROVE  /\ k.state = "active" /\ k.pc = pc
                 /\ n = [k EXCEPT !.pc = "throw"]
      BY <1>t, <3>1 DEF Goto, At, Becomes, k, n
    <3>2. ASSUME At(j, "succeed") \/ At(j, "readBack"),
                 Becomes(j, [job[j] EXCEPT !.pc = "fail", !.code = "other"])
          PROVE  /\ k.state = "active" /\ k.pc \in {"succeed", "readBack"}
                 /\ n = [k EXCEPT !.pc = "fail", !.code = "other"]
      BY <1>t, <3>2 DEF At, Becomes, k, n
    <3> QED
      BY <1>t, <1>11, <3>1, <3>2 DEF DatabaseFails, JobType, k
  <2>2. Nearer(k, n)
    BY <1>2, <2>1
  <2> QED
    BY <1>r, <1>u, <2>2 DEF k, n
<1>12. CASE Crash(j)
  <2>1. /\ k.state = "active" /\ n.state \in {"waiting", "failed"}
        /\ n.made = k.made /\ n.stalled = k.stalled + 1
    BY <1>t, <1>12 DEF Crash, JobType, Becomes, k, n
  <2> QED
    BY <1>r, <1>u, <2>1 DEF Nearer, k, n
<1> QED
  BY <1>r, <1>u, <1>3, <1>4, <1>5, <1>6, <1>7, <1>8, <1>9, <1>10, <1>11, <1>12
  DEF Step

\* Only dispatch queues a job, and one that is not queued yet.
LEMMA OtherSteps ==
  ASSUME IInv, [Next]_vars, NEW i \in Jobs,
         ~(\E j \in Jobs : Step(j) \/ DatabaseFails(j) \/ Crash(j))
  PROVE  \/ UNCHANGED <<job[i], rows[i], posts[i]>>
         \/ job[i].state = "none"
<1>t. TypeOK
  BY DEF IInv
<1>1. ASSUME NEW a \in Admins, AdminNext(a) PROVE UNCHANGED <<job, rows, posts>>
  BY <1>1 DEF AdminNext, Count, Find, Create, Remove, AbandonCall, jobVars
<1>2. CASE UNCHANGED vars
  BY <1>2 DEF vars
<1>3. ASSUME NEW e \in Events, Dispatch(e) PROVE UNCHANGED <<job, rows, posts>>
  BY <1>3 DEF Dispatch
<1>4. ASSUME NEW w \in Endpoints, NEW e \in Events, EnqueueFails(w, e)
      PROVE  UNCHANGED <<job, rows, posts>>
  BY <1>4 DEF EnqueueFails
<1>5. ASSUME NEW w \in Endpoints, NEW e \in Events, Enqueue(w, e)
      PROVE  \/ UNCHANGED <<job[i], rows[i], posts[i]>>
             \/ job[i].state = "none"
  <2>1. <<w, e>> \in Jobs /\ job[<<w, e>>].state = "none"
    BY <1>5 DEF Jobs, IInv, QueuedOnce, Enqueue
  <2>2. i # <<w, e>> => job'[i] = job[i]
    BY <1>5, <1>t DEF Enqueue, Becomes, TypeOK
  <2>3. rows' = rows /\ posts' = posts
    BY <1>5 DEF Enqueue
  <2> QED
    BY <2>1, <2>2, <2>3
<1> QED
  BY <1>1, <1>2, <1>3, <1>4, <1>5 DEF Next

\* Whatever crashes and fails, every step of a job (webhook.processor.ts,
\* webhook.queue.ts) lowers a natural number, so it takes finitely many; and
\* once a job has completed or failed, neither its row nor its endpoint hears
\* of it again.
THEOREM JobsSettle == Spec => [][\A j \in Jobs : Settles(j)]_vars
<1>1. Spec => []IInv
  BY IInvInit, IInvStep, PTL DEF Spec
<1>2. IInv /\ IInv' /\ [Next]_vars => [\A j \in Jobs : Settles(j)]_vars
  <2> SUFFICES ASSUME IInv, IInv', Next, NEW i \in Jobs PROVE Settles(i)
    OBVIOUS
  <2>t. TypeOK /\ job[i] \in JobType /\ job'[i] \in JobType
    BY DEF IInv, TypeOK
  <2>1. /\ UnderWay(i) => job[i].made < Attempts /\ job[i].stalled <= MaxStalled
        /\ Done(i) => job[i].state # "none" /\ ~UnderWay(i)
    BY DEF IInv, Counted, UnderWay, Done
  <2>2. Rank(job[i]) \in Nat
    <3>1. CASE UnderWay(i)
      <4>1. /\ Attempts \in Nat /\ MaxStalled \in Nat
            /\ job[i].made \in Nat /\ job[i].stalled \in Nat
        BY <2>t, ConstantsAssumption DEF JobType
      <4>2. Ahead(job[i]) \in 1..8
        BY <2>t DEF Ahead, JobType, JobPc
      <4>3. Rank(job[i]) = 8 * (Attempts - job[i].made + MaxStalled
                                - job[i].stalled) + Ahead(job[i])
        BY <3>1 DEF Rank, UnderWay
      <4> QED
        BY <2>1, <3>1, <4>1, <4>2, <4>3
    <3>2. CASE ~UnderWay(i)
      BY <3>2 DEF Rank, UnderWay
    <3> QED
      BY <3>1, <3>2
  <2>3. ASSUME NEW j \in Jobs, Step(j) \/ DatabaseFails(j) \/ Crash(j)
        PROVE  Settles(i)
    <3>1. CASE i = j
      <4>1. UnderWay(i) /\ Nearer(job[i], job'[i])
        BY <2>3, <2>t, <3>1, JobNearer
      <4>2. Rank(job'[i]) < Rank(job[i])
        BY <2>t, <2>1, <4>1, NearerFalls DEF UnderWay
      <4> QED
        BY <2>1, <2>2, <4>1, <4>2 DEF Settles
    <3>2. CASE i # j
      BY <2>2, <2>3, <2>t, <3>2, JobNearer DEF Settles
    <3> QED
      BY <3>1, <3>2
  <2>4. CASE ~(\E j \in Jobs : Step(j) \/ DatabaseFails(j) \/ Crash(j))
    BY <2>1, <2>2, <2>4, OtherSteps DEF Settles, UnderWay
  <2> QED
    BY <2>3, <2>4
<1> QED
  BY <1>1, <1>2, PTL DEF Spec

-----------------------------------------------------------------------------
(***************************************************************************)
(* Without crashes and failed writes the processor implements              *)
(* DeliveryRecord.  The invariant names the one row of a job at each step. *)
(***************************************************************************)
Row(j, st) == job[j].deliveryId = 1 /\ rows[j] = <<st>>

RowInStep(j) ==
  LET k == job[j] IN
  /\ k.state = "none" \/ At(j, "create") => k.deliveryId = 0 /\ rows[j] = <<>>
  /\ k.state = "waiting" =>
       Row(j, "PENDING") \/ (k.deliveryId = 0 /\ rows[j] = <<>>)
  /\ At(j, "store") => k.created = 1 /\ rows[j] = <<"PENDING">>
  /\ At(j, "post") \/ At(j, "succeed") \/ At(j, "fail") => Row(j, "PENDING")
  /\ At(j, "readBack") => Row(j, "SUCCESS")
  /\ At(j, "return") => \E st \in Status : Row(j, st)
  /\ At(j, "throw") => Row(j, IF Exhausted(j) THEN "FAILED" ELSE "PENDING")

OneRow == IInv /\ \A j \in Jobs : RowInStep(j)

\* There are no rows initially.
LEMMA OneRowInit == Init => OneRow
<1> SUFFICES ASSUME Init PROVE OneRow
  OBVIOUS
<1>1. ASSUME NEW j \in Jobs PROVE RowInStep(j)
  <2>1. job[j].state = "none" /\ job[j].deliveryId = 0 /\ rows[j] = <<>>
    BY DEF Init, NewJob
  <2> QED
    BY <2>1 DEF RowInStep, At
<1> QED
  BY <1>1, IInvInit DEF OneRow

\* A job that nothing touches keeps its row.
LEMMA RowFrame ==
  ASSUME NEW j \in Jobs, RowInStep(j), job'[j] = job[j], rows'[j] = rows[j]
  PROVE  RowInStep(j)' /\ RecordOf(j)' = RecordOf(j)
  BY DEF RowInStep, Row, At, Exhausted, RecordOf

\* The one row of a sequence of length one.
LEMMA OneRowSeq ==
  ASSUME NEW a \in Status, NEW b \in Status
  PROVE  /\ Append(<<>>, a) = <<a>>
         /\ [<<b>> EXCEPT ![1] = a] = <<a>>
         /\ Len(<<a>>) = 1 /\ <<a>>[1] = a /\ <<a>> # <<>>
  OBVIOUS

\* One step of the processor is a step of the record, or none.
RecordStep(j) ==
  \/ RecordOf(j)' = RecordOf(j)
  \/ RecordOf(j) = "none" /\ RecordOf(j)' = "PENDING"
  \/ RecordOf(j) = "PENDING" /\ RecordOf(j)' \in {"SUCCESS", "FAILED"}

\* Every step of the processor keeps the one row, and moves it as promised.
LEMMA RowJobStep ==
  ASSUME OneRow, NEW j \in Jobs, Step(j)
  PROVE  RowInStep(j)' /\ RecordStep(j)
<1> DEFINE k == job[j]
<1>0. k \in JobType /\ RowInStep(j) /\ TypeOK
  BY DEF OneRow, IInv, TypeOK
<1>1. ASSUME NEW n, Becomes(j, n) PROVE job'[j] = n
  BY <1>0, <1>1 DEF TypeOK, Becomes
<1>2. ASSUME NEW st \in Status, rows' = [rows EXCEPT ![j][k.deliveryId] = st],
             NEW b \in Status, Row(j, b)
      PROVE  rows'[j] = <<st>> /\ RecordOf(j)' = st /\ RecordOf(j) = b
  <2>1. rows'[j] = [rows[j] EXCEPT ![k.deliveryId] = st]
    BY <1>0, <1>2 DEF TypeOK
  <2>2. rows'[j] = <<st>>
    BY <1>2, <2>1, OneRowSeq DEF Row
  <2> QED
    BY <1>2, <2>2, OneRowSeq DEF RecordOf, Row
<1>3. ASSUME rows' = rows PROVE RecordStep(j)
  BY <1>3 DEF RecordStep, RecordOf
<1> USE DEF RowInStep, Row, At, Exhausted
<1>4. CASE Take(j)
  <2>1. /\ job'[j].state = "active" /\ job'[j].deliveryId = k.deliveryId
        /\ job'[j].pc = IF k.deliveryId = 0 THEN "create" ELSE "post"
        /\ rows' = rows
    BY <1>0, <1>1, <1>4 DEF Take, JobType
  <2>2. CASE Row(j, "PENDING")
    BY <1>3, <2>1, <2>2
  <2>3. CASE k.deliveryId = 0 /\ rows[j] = <<>>
    BY <1>3, <2>1, <2>3
  <2> QED
    BY <1>0, <1>4, <2>2, <2>3 DEF Take
<1>5. CASE CreatePending(j)
  <2>1. rows'[j] = <<"PENDING">> /\ rows[j] = <<>>
    BY <1>0, <1>5, OneRowSeq DEF CreatePending, TypeOK, Status
  <2>2. job'[j].state = "active" /\ job'[j].pc = "store" /\ job'[j].created = 1
    <3>1. Len(rows[j]) + 1 = 1
      BY <2>1
    <3>2. job'[j] = [k EXCEPT !.pc = "store", !.created = 1]
      BY <1>1, <1>5, <3>1 DEF CreatePending
    <3> QED
      BY <1>0, <1>5, <3>2 DEF CreatePending, JobType
  <2>3. RecordOf(j) = "none" /\ RecordOf(j)' = "PENDING"
    BY <2>1, OneRowSeq DEF RecordOf, Status
  <2> QED
    BY <2>1, <2>2, <2>3 DEF RecordStep
<1>6. CASE Store(j)
  BY <1>0, <1>1, <1>3, <1>6 DEF Store, StoredId, JobType
<1>7. ASSUME NEW code \in Codes, Post(j, code) PROVE RowInStep(j)' /\ RecordStep(j)
  BY <1>0, <1>1, <1>3, <1>7 DEF Post, AfterPost, JobType
<1>8. CASE RecordSuccess(j)
  <2>1. rows'[j] = <<"SUCCESS">> /\ RecordStep(j)
    BY <1>0, <1>2, <1>8 DEF RecordSuccess, RecordStep, Status
  <2> QED
    BY <1>0, <1>1, <1>8, <2>1 DEF RecordSuccess, Goto, JobType
<1>9. CASE ReadBack(j)
  BY <1>0, <1>1, <1>3, <1>9 DEF ReadBack, Goto, Status, JobType
<1>10. CASE RecordFailure(j)
  <2>1. FailureStatus(j) \in {"PENDING", "FAILED"}
    BY DEF FailureStatus
  <2>2. rows'[j] = <<FailureStatus(j)>> /\ RecordStep(j)
    BY <1>0, <1>2, <1>10, <2>1 DEF RecordFailure, RecordStep, Status
  <2>3. /\ job'[j].state = "active" /\ job'[j].deliveryId = 1
        /\ job'[j].made = k.made
        /\ job'[j].pc = IF k.code = "404" THEN "return" ELSE "throw"
    BY <1>0, <1>1, <1>10 DEF RecordFailure, Goto, JobType
  <2>4. CASE k.code = "404"
    BY <2>1, <2>2, <2>3, <2>4 DEF Status
  <2>5. CASE k.code # "404"
    BY <2>2, <2>3, <2>5 DEF FailureStatus, IsLastAttempt
  <2> QED
    BY <2>2, <2>4, <2>5
<1>11. CASE Complete(j)
  BY <1>0, <1>1, <1>3, <1>11 DEF Complete, JobType
<1>12. CASE Retry(j)
  BY <1>0, <1>1, <1>3, <1>12 DEF Retry, AfterThrow, JobType
<1> QED
  BY <1>4, <1>5, <1>6, <1>7, <1>8, <1>9, <1>10, <1>11, <1>12 DEF Step

\* Every step keeps the rows single and is a step of DeliveryRecord or none.
LEMMA RowStep ==
  ASSUME Faults \subseteq {"queue"}, OneRow, [Next]_vars
  PROVE  OneRow' /\ [Record!Next]_[j \in Jobs |-> RecordOf(j)]
<1> DEFINE rec == [j \in Jobs |-> RecordOf(j)]
<1>0. IInv' /\ IInv /\ TypeOK
  BY IInvStep DEF OneRow, IInv
<1>1. ASSUME \A j \in Jobs : RowInStep(j)' /\ RecordOf(j)' = RecordOf(j)
      PROVE  OneRow' /\ [Record!Next]_rec
  BY <1>0, <1>1 DEF OneRow
<1>2. CASE UNCHANGED <<job, rows>>
  BY <1>1, <1>2, RowFrame DEF OneRow
<1>3. ASSUME NEW w \in Endpoints, NEW e \in Events, Enqueue(w, e)
      PROVE  OneRow' /\ [Record!Next]_rec
  <2> DEFINE j == <<w, e>>
  <2>1. j \in Jobs /\ job[j].state = "none"
    BY <1>0, <1>3 DEF Jobs, IInv, QueuedOnce, Enqueue
  <2>2. /\ job'[j] = [job[j] EXCEPT !.state = "waiting"]
        /\ \A i \in Jobs \ {j} : job'[i] = job[i]
        /\ rows' = rows
    BY <1>0, <1>3, <2>1 DEF Enqueue, Becomes, TypeOK
  <2>3. /\ job'[j].state = "waiting" /\ job'[j].deliveryId = job[j].deliveryId
    BY <1>0, <2>1, <2>2 DEF TypeOK, JobType
  <2>4. RowInStep(j)' /\ RecordOf(j)' = RecordOf(j)
    BY <2>1, <2>2, <2>3 DEF OneRow, RowInStep, Row, At, RecordOf
  <2> QED
    BY <1>1, <2>2, <2>4, RowFrame DEF OneRow
<1>4. ASSUME NEW j \in Jobs, Step(j)
      PROVE  OneRow' /\ [Record!Next]_rec
  <2>1. RowInStep(j)' /\ RecordStep(j)
    BY <1>4, RowJobStep
  <2>2. \A i \in Jobs \ {j} : job'[i] = job[i] /\ rows'[i] = rows[i]
    BY <1>0, <1>4 DEF Step, Take, CreatePending, Store, Post, RecordSuccess,
       ReadBack, RecordFailure, Complete, Retry, Becomes, Goto, TypeOK
  <2>3. \A i \in Jobs \ {j} : RowInStep(i)' /\ RecordOf(i)' = RecordOf(i)
    BY <2>2, RowFrame DEF OneRow
  <2>4. OneRow'
    BY <1>0, <2>1, <2>3 DEF OneRow
  <2>5. rec' = [rec EXCEPT ![j] = RecordOf(j)']
    BY <2>3
  <2>6. rec[j] = RecordOf(j) /\ rec \in [Jobs -> {RecordOf(i) : i \in Jobs}]
    OBVIOUS
  <2>7. CASE RecordOf(j)' = RecordOf(j)
    BY <2>3, <2>4, <2>7
  <2>8. CASE RecordOf(j) = "none" /\ RecordOf(j)' = "PENDING"
    BY <2>4, <2>5, <2>6, <2>8 DEF Record!Next, Record!Create
  <2>9. CASE RecordOf(j) = "PENDING" /\ RecordOf(j)' \in {"SUCCESS", "FAILED"}
    BY <2>4, <2>5, <2>6, <2>9 DEF Record!Next, Record!End
  <2> QED
    BY <2>1, <2>7, <2>8, <2>9 DEF RecordStep
<1>5. ASSUME NEW j \in Jobs PROVE ~DatabaseFails(j) /\ ~Crash(j)
  BY DEF DatabaseFails, Crash
<1>6. ASSUME NEW a \in Admins, AdminNext(a) PROVE UNCHANGED <<job, rows>>
  BY <1>6 DEF AdminNext, Count, Find, Create, Remove, AbandonCall, jobVars
<1>7. ASSUME NEW e \in Events, Dispatch(e) PROVE UNCHANGED <<job, rows>>
  BY <1>7 DEF Dispatch
<1>8. ASSUME NEW w \in Endpoints, NEW e \in Events, EnqueueFails(w, e)
      PROVE  UNCHANGED <<job, rows>>
  BY <1>8 DEF EnqueueFails
<1>9. ASSUME UNCHANGED vars PROVE UNCHANGED <<job, rows>>
  BY <1>9 DEF vars
<1> QED
  BY <1>2, <1>3, <1>4, <1>5, <1>6, <1>7, <1>8, <1>9 DEF Next

\* While no worker dies and no write fails, every event has one delivery record
\* per endpoint, created PENDING and ended once (README, Webhooks): the
\* processor's steps are steps of DeliveryRecord or leave the record alone.
THEOREM RecordCorrect ==
  ASSUME Faults \subseteq {"queue"}
  PROVE  Spec => Record!Safety
<1>1. Init => Record!Init
  <2> SUFFICES ASSUME Init PROVE Record!Init
    OBVIOUS
  <2>1. \A j \in Jobs : RecordOf(j) = "none"
    BY DEF Init, RecordOf
  <2> QED
    BY <2>1 DEF Record!Init
<1>2. OneRow /\ [Next]_vars => OneRow' /\ [Record!Next]_[j \in Jobs |-> RecordOf(j)]
  BY RowStep
<1> QED
  BY <1>1, <1>2, OneRowInit, PTL DEF Spec, Record!Safety

\* Rows are added by CreatePending alone, and only to a job that has none.
LEMMA SingleStep ==
  ASSUME OneRow, OneRecord, [Next]_vars
  PROVE  OneRecord'
<1> USE DEF OneRecord
<1>0. TypeOK
  BY DEF OneRow, IInv
<1>1. CASE UNCHANGED rows
  BY <1>1
<1>2. ASSUME NEW j \in Jobs, CreatePending(j) PROVE OneRecord'
  <2>1. rows[j] = <<>>
    BY <1>2 DEF OneRow, RowInStep, CreatePending
  <2>2. rows' = [rows EXCEPT ![j] = Append(rows[j], "PENDING")]
    BY <1>2 DEF CreatePending
  <2>3. Len(Append(<<>>, "PENDING")) = 1
    OBVIOUS
  <2>4. rows'[j] = Append(<<>>, "PENDING") /\ \A i \in Jobs \ {j} : rows'[i] = rows[i]
    BY <1>0, <2>1, <2>2 DEF TypeOK
  <2>5. Len(rows'[j]) <= 1
    BY <2>3, <2>4
  <2>6. \A i \in Jobs \ {j} : Len(rows'[i]) <= 1
    BY <2>4
  <2> QED
    BY <2>5, <2>6
<1>3. ASSUME NEW j \in Jobs, NEW st \in Status,
             rows' = [rows EXCEPT ![j][job[j].deliveryId] = st]
      PROVE  OneRecord'
  <2>1. rows[j] \in Seq(Status) /\ job[j].deliveryId \in Nat
    BY <1>0 DEF TypeOK, JobType
  <2>2. Len([rows[j] EXCEPT ![job[j].deliveryId] = st]) = Len(rows[j])
    BY <2>1, RowSet
  <2>3. /\ rows'[j] = [rows[j] EXCEPT ![job[j].deliveryId] = st]
        /\ \A i \in Jobs \ {j} : rows'[i] = rows[i]
    BY <1>0, <1>3 DEF TypeOK
  <2> QED
    BY <2>2, <2>3
<1>4. ASSUME NEW j \in Jobs, RecordSuccess(j) PROVE OneRecord'
  BY <1>3, <1>4 DEF RecordSuccess, Status
<1>5. ASSUME NEW j \in Jobs, RecordFailure(j) PROVE OneRecord'
  <2>1. FailureStatus(j) \in Status
    BY DEF FailureStatus, Status
  <2> QED
    BY <1>3, <1>5, <2>1 DEF RecordFailure
<1>6. ASSUME NEW a \in Admins, AdminNext(a) PROVE UNCHANGED rows
  BY <1>6 DEF AdminNext, Count, Create, Find, Remove, AbandonCall, jobVars
<1>7. ASSUME NEW w \in Endpoints, NEW e \in Events,
             Dispatch(e) \/ Enqueue(w, e) \/ EnqueueFails(w, e)
      PROVE  UNCHANGED rows
  BY <1>7 DEF Dispatch, Enqueue, EnqueueFails
<1>8. ASSUME NEW e \in Events, Dispatch(e) PROVE UNCHANGED rows
  BY <1>8 DEF Dispatch
<1>9. ASSUME NEW j \in Jobs,
             \/ Take(j) \/ Store(j) \/ ReadBack(j) \/ Complete(j) \/ Retry(j)
             \/ \E code \in Codes : Post(j, code)
      PROVE  UNCHANGED rows
  <2>1. ASSUME NEW code \in Codes, Post(j, code) PROVE UNCHANGED rows
    BY <2>1 DEF Post
  <2>2. CASE Take(j) \/ Store(j) \/ ReadBack(j)
    BY <2>2 DEF Take, Store, ReadBack
  <2>3. CASE Complete(j) \/ Retry(j)
    BY <2>3 DEF Complete, Retry
  <2> QED
    BY <1>9, <2>1, <2>2, <2>3
<1>10. ASSUME NEW j \in Jobs, DatabaseFails(j) \/ Crash(j)
       PROVE  UNCHANGED rows
  BY <1>10 DEF DatabaseFails, Crash
<1>11. CASE UNCHANGED vars
  BY <1>11, <1>1 DEF vars
<1> QED
  BY <1>1, <1>2, <1>4, <1>5, <1>6, <1>7, <1>8, <1>9, <1>10, <1>11 DEF Next, Step

\* Without crashes and failed writes an event has at most one delivery row for
\* an endpoint, however often the job is retried.
THEOREM OneRecordCorrect ==
  ASSUME Faults \subseteq {"queue"}
  PROVE  Spec => []OneRecord
<1>1. Init => OneRecord
  <2>1. Len(<<>>) = 0
    OBVIOUS
  <2> QED
    BY <2>1 DEF Init, OneRecord
<1>2. OneRow /\ [Next]_vars => OneRow'
  BY RowStep
<1> QED
  BY <1>1, <1>2, OneRowInit, SingleStep, PTL DEF Spec

\* A record of DeliveryRecord that has ended does not change any more.
Final(j) == RecordOf(j) \in {"SUCCESS", "FAILED"} => RecordOf(j)' = RecordOf(j)

\* DeliveryRecord promises it, whoever implements it.
LEMMA RecordFinal ==
  Record!Safety
    => [][\A j \in Jobs : Final(j)]_[j \in Jobs |-> RecordOf(j)]
<1> DEFINE rec == [j \in Jobs |-> RecordOf(j)]
<1>1. Record!Next => \A j \in Jobs : Final(j)
  <2> SUFFICES ASSUME Record!Next, NEW j \in Jobs,
                      RecordOf(j) \in {"SUCCESS", "FAILED"}
               PROVE  RecordOf(j)' = RecordOf(j)
    BY DEF Final
  <2>1. PICK d \in Jobs, st \in {"PENDING", "SUCCESS", "FAILED"} :
            rec[d] \in {"none", "PENDING"} /\ rec' = [rec EXCEPT ![d] = st]
    BY DEF Record!Next, Record!Create, Record!End
  <2>2. rec[j] = RecordOf(j) /\ rec'[j] = RecordOf(j)' /\ j # d
    BY <2>1
  <2> QED
    BY <2>1, <2>2
<1> QED
  BY <1>1, PTL DEF Record!Safety

\* So while no worker dies and no write fails, the SUCCESS or FAILED of a
\* delivery is the last word on it (webhook.processor.ts, process).
THEOREM RecordFinalCorrect ==
  ASSUME Faults \subseteq {"queue"}
  PROVE  Spec => [][\A j \in Jobs : Final(j)]_[j \in Jobs |-> RecordOf(j)]
  BY RecordCorrect, RecordFinal, PTL

-----------------------------------------------------------------------------
(***************************************************************************)
(* The overshoot of maxWebhooks.  A create that has counted holds a place  *)
(* it has not taken yet; each place is that of another endpoint.           *)
(***************************************************************************)
Creating == {a \in Admins : admin[a].pc = "counted"}
Found == {a \in Admins : admin[a].pc = "found"}

Places ==
  /\ \A a \in Creating : endpoint[admin[a].endpoint] = "absent"
  /\ \A a, b \in Creating : admin[a].endpoint = admin[b].endpoint => a = b
  /\ \A a \in Found : endpoint[admin[a].endpoint] # "absent"
  /\ Cardinality(Active) + Cardinality(Creating)
       <= MaxWebhooks + Cardinality(Admins) - 1

\* The sets that are counted are finite.
LEMMA PlacesFinite ==
  /\ IsFiniteSet(Active) /\ IsFiniteSet(Creating)
  /\ Cardinality(Active) \in Nat /\ Cardinality(Creating) \in Nat
  /\ Cardinality(Creating) <= Cardinality(Admins)
  /\ Cardinality(Admins) \in Nat \ {0}
<1>1. Active \in SUBSET Endpoints /\ Creating \in SUBSET Admins
  BY DEF Active, Creating
<1>2. IsFiniteSet(Active) /\ IsFiniteSet(Creating)
  BY <1>1, FS_Subset, ConstantsAssumption
<1>3. Cardinality(Creating) <= Cardinality(Admins)
  BY <1>1, FS_Subset, ConstantsAssumption
<1>4. Cardinality(Admins) \in Nat \ {0}
  BY FS_CardinalityType, FS_EmptySet, ConstantsAssumption
<1> QED
  BY <1>2, <1>3, <1>4, FS_CardinalityType

\* Nobody has counted at first.
LEMMA PlacesInit == Init => Places
<1> SUFFICES ASSUME Init PROVE Places
  OBVIOUS
<1>1. Active = {} /\ Creating = {} /\ Found = {}
  BY DEF Init, Active, Creating, Found
<1> QED
  BY <1>1, PlacesFinite, FS_EmptySet, ConstantsAssumption DEF Places

\* Count adds a place, below the limit; Create turns a place into an endpoint.
LEMMA PlacesStep == TypeOK /\ Places /\ [Next]_vars => Places'
<1> SUFFICES ASSUME TypeOK, Places, [Next]_vars PROVE Places'
  OBVIOUS
<1> USE DEF TypeOK
<1>0. /\ IsFiniteSet(Active') /\ IsFiniteSet(Creating')
      /\ Cardinality(Active') \in Nat /\ Cardinality(Creating') \in Nat
      /\ Cardinality(Creating') <= Cardinality(Admins)
  <2>1. Active' \in SUBSET Endpoints /\ Creating' \in SUBSET Admins
    BY DEF Active, Creating
  <2> QED
    BY <2>1, FS_Subset, FS_CardinalityType, ConstantsAssumption
<1>a. Cardinality(Active) + Cardinality(Creating)
        <= MaxWebhooks + Cardinality(Admins) - 1
  BY DEF Places
<1>m. MaxWebhooks \in Nat
  BY ConstantsAssumption
<1>1. ASSUME NEW a \in Admins, NEW w \in Endpoints, Count(a, w) PROVE Places'
  <2>1. Active' = Active /\ Cardinality(Active) < MaxWebhooks
    BY <1>1 DEF Count, Active, BelowLimit
  <2>2. /\ endpoint' = endpoint /\ endpoint[w] = "absent"
        /\ \A b \in Admins : admin[b].endpoint # w
        /\ admin' = [admin EXCEPT ![a] = [pc |-> "counted", endpoint |-> w]]
    BY <1>1 DEF Count
  <2>3. /\ admin'[a].endpoint = w
        /\ \A b \in Admins \ {a} : admin'[b] = admin[b]
    BY <2>2
  <2>4. \A b \in Creating' : b # a => b \in Creating
    BY <2>3 DEF Creating
  <2>5. \A b \in Creating' : endpoint'[admin'[b].endpoint] = "absent"
    BY <2>2, <2>3, <2>4 DEF Places
  <2>6. \A b, c \in Creating' : admin'[b].endpoint = admin'[c].endpoint => b = c
    BY <2>2, <2>3, <2>4 DEF Places, Creating
  <2>7. Cardinality(Active') + Cardinality(Creating')
          <= MaxWebhooks + Cardinality(Admins) - 1
    BY <2>1, <1>0, <1>m, PlacesFinite
  <2>8. \A b \in Found' : b # a /\ b \in Found /\ admin'[b] = admin[b]
    BY <2>2, <2>3 DEF Found
  <2>9. \A b \in Found' : endpoint'[admin'[b].endpoint] # "absent"
    BY <2>2, <2>8 DEF Places
  <2> QED
    BY <2>5, <2>6, <2>7, <2>9 DEF Places
<1>2. ASSUME NEW a \in Admins, NEW events \in SUBSET Events, Create(a, events)
      PROVE  Places'
  <2>0. a \in Creating /\ admin[a].endpoint \in Endpoints
    BY <1>2 DEF Create, Creating
  <2>1. Creating' = Creating \ {a}
    BY <1>2 DEF Create, Creating
  <2>2. Active' = Active \cup {admin[a].endpoint} /\ admin[a].endpoint \notin Active
    BY <1>2, <2>0 DEF Create, Active, Places
  <2>3. Cardinality(Creating') = Cardinality(Creating) - 1
    BY <2>0, <2>1, PlacesFinite, FS_RemoveElement
  <2>4. Cardinality(Active') = Cardinality(Active) + 1
    BY <2>2, PlacesFinite, FS_AddElement
  <2>5. /\ \A b \in Creating' : admin'[b] = admin[b] /\ b # a /\ b \in Creating
        /\ \A w \in Endpoints \ {admin[a].endpoint} : endpoint'[w] = endpoint[w]
    BY <1>2, <2>1 DEF Create, Creating
  <2>6. \A b \in Creating' :
          admin[b].endpoint \in Endpoints \ {admin[a].endpoint}
    BY <2>0, <2>5 DEF Places, Creating
  <2>7. \A b \in Creating' : endpoint'[admin'[b].endpoint] = "absent"
    BY <2>5, <2>6 DEF Places
  <2>9. \A b, c \in Creating' : admin'[b].endpoint = admin'[c].endpoint => b = c
    BY <2>5 DEF Places
  <2>10. endpoint'[admin[a].endpoint] = "active"
    BY <1>2, <2>0 DEF Create
  <2>11. \A b \in Found' : b \in Found /\ admin'[b] = admin[b]
    BY <1>2 DEF Create, Found
  <2>12. \A b \in Found : admin[b].endpoint \in Endpoints
    BY DEF Found
  <2>13. \A b \in Found' : endpoint'[admin'[b].endpoint] # "absent"
    BY <2>5, <2>10, <2>11, <2>12 DEF Places
  <2>8. Cardinality(Active') + Cardinality(Creating')
          <= MaxWebhooks + Cardinality(Admins) - 1
    BY <2>3, <2>4, <1>a, <1>m, PlacesFinite
  <2> QED
    BY <2>7, <2>8, <2>9, <2>13 DEF Places
<1>3. ASSUME Active' \subseteq Active, Creating' \subseteq Creating,
             \A b \in Creating' : admin'[b] = admin[b],
             \A w \in Endpoints : endpoint[w] = "absent" <=> endpoint'[w] = "absent",
             \A a \in Found' : endpoint'[admin'[a].endpoint] # "absent"
      PROVE  Places'
  <2>1. Cardinality(Active') <= Cardinality(Active)
    BY <1>3, PlacesFinite, FS_Subset
  <2>2. Cardinality(Creating') <= Cardinality(Creating)
    BY <1>3, PlacesFinite, FS_Subset
  <2>3. Cardinality(Active') + Cardinality(Creating')
          <= MaxWebhooks + Cardinality(Admins) - 1
    BY <2>1, <2>2, <1>a, <1>0, <1>m, PlacesFinite
  <2>4. \A b \in Creating : admin[b].endpoint \in Endpoints
    BY DEF Creating
  <2>5. \A b \in Creating' : b \in Creating /\ admin'[b] = admin[b]
    BY <1>3
  <2>6. \A b \in Creating' : endpoint'[admin'[b].endpoint] = "absent"
    BY <1>3, <2>4, <2>5 DEF Places
  <2>7. \A b, c \in Creating' : admin'[b].endpoint = admin'[c].endpoint => b = c
    BY <2>5 DEF Places
  <2> QED
    BY <1>3, <2>3, <2>6, <2>7 DEF Places
<1>b. \A a \in Found : endpoint[admin[a].endpoint] # "absent"
  BY DEF Places
<1>4. ASSUME NEW a \in Admins, NEW w \in Endpoints, Find(a, w) PROVE Places'
  <2>1. /\ endpoint' = endpoint /\ endpoint[w] = "active"
        /\ admin'[a] = [pc |-> "found", endpoint |-> w]
        /\ \A b \in Admins \ {a} : admin'[b] = admin[b]
    BY <1>4 DEF Find
  <2>2. \A b \in Creating' : b \in Creating /\ admin'[b] = admin[b]
    BY <2>1 DEF Creating
  <2>3. \A b \in Found' : endpoint'[admin'[b].endpoint] # "absent"
    <3>1. endpoint'[admin'[a].endpoint] # "absent"
      BY <2>1
    <3>2. \A b \in Found' : b # a => b \in Found /\ admin'[b] = admin[b]
      BY <2>1 DEF Found
    <3> QED
      BY <1>b, <2>1, <3>1, <3>2
  <2>4. Active' = Active
    BY <2>1 DEF Active
  <2>5. \A v \in Endpoints : endpoint[v] = "absent" <=> endpoint'[v] = "absent"
    BY <2>1
  <2>6. Creating' \subseteq Creating /\ \A b \in Creating' : admin'[b] = admin[b]
    BY <2>2
  <2>7. Active' \subseteq Active
    BY <2>4
  <2> QED
    BY <1>3, <2>3, <2>5, <2>6, <2>7
<1>5. ASSUME NEW a \in Admins, Remove(a) PROVE Places'
  <2>0. a \in Found
    BY <1>5 DEF Remove, Found
  <2>1. admin[a].endpoint \in Endpoints /\ endpoint[admin[a].endpoint] # "absent"
    BY <1>b, <1>5, <2>0 DEF Remove
  <2>2. /\ endpoint'[admin[a].endpoint] = "removed"
        /\ \A w \in Endpoints \ {admin[a].endpoint} : endpoint'[w] = endpoint[w]
    BY <1>5, <2>1 DEF Remove
  <2>3. \A b \in Creating' : b \in Creating /\ admin'[b] = admin[b]
    BY <1>5 DEF Remove, Creating
  <2>4. \A b \in Found' : b \in Found /\ admin'[b] = admin[b]
    BY <1>5 DEF Remove, Found
  <2>5. \A b \in Found : admin[b].endpoint \in Endpoints
    BY DEF Found
  <2>6. \A w \in Endpoints : endpoint[w] = "absent" <=> endpoint'[w] = "absent"
    BY <2>1, <2>2
  <2>7. Active' \subseteq Active
    BY <2>2 DEF Active
  <2>8. \A b \in Found' : endpoint'[admin'[b].endpoint] # "absent"
    BY <1>b, <2>4, <2>5, <2>6
  <2>9. \A b \in Creating' : admin'[b] = admin[b]
    BY <2>3
  <2>10. Creating' \subseteq Creating
    BY <2>3
  <2> QED
    BY <1>3, <2>6, <2>7, <2>8, <2>9, <2>10
<1>6. ASSUME NEW a \in Admins, AbandonCall(a) PROVE Places'
  <2>1. endpoint' = endpoint
    BY <1>6 DEF AbandonCall
  <2>2. \A b \in Creating' : b \in Creating /\ admin'[b] = admin[b]
    BY <1>6 DEF AbandonCall, Creating
  <2>3. \A b \in Found' : b \in Found /\ admin'[b] = admin[b]
    BY <1>6 DEF AbandonCall, Found
  <2>4. Active' = Active
    BY <2>1 DEF Active
  <2>5. \A b \in Found' : endpoint'[admin'[b].endpoint] # "absent"
    BY <1>b, <2>1, <2>3
  <2> QED
    BY <1>3, <2>1, <2>2, <2>4, <2>5
<1>7. CASE UNCHANGED adminVars
  BY <1>3, <1>b, <1>7 DEF adminVars, Active, Creating, Found
<1>8. ASSUME NEW w \in Endpoints, NEW e \in Events,
             Enqueue(w, e) \/ EnqueueFails(w, e)
      PROVE  UNCHANGED adminVars
  BY <1>8 DEF Enqueue, EnqueueFails
<1>9. ASSUME NEW e \in Events, Dispatch(e) PROVE UNCHANGED adminVars
  BY <1>9 DEF Dispatch
<1>10. ASSUME NEW j \in Jobs, Step(j) \/ DatabaseFails(j) \/ Crash(j)
       PROVE  UNCHANGED adminVars
  <2>1. ASSUME NEW code \in Codes, Post(j, code) PROVE UNCHANGED adminVars
    BY <2>1 DEF Post, otherVars
  <2>2. CASE Take(j) \/ CreatePending(j) \/ Store(j)
    BY <2>2 DEF Take, CreatePending, Store, otherVars
  <2>3. CASE RecordSuccess(j) \/ ReadBack(j) \/ RecordFailure(j)
    BY <2>3 DEF RecordSuccess, ReadBack, RecordFailure, otherVars
  <2>4. CASE Complete(j) \/ Retry(j) \/ Crash(j)
    BY <2>4 DEF Complete, Retry, Crash, otherVars
  <2>5. CASE DatabaseFails(j)
    BY <2>5 DEF DatabaseFails, otherVars
  <2> QED
    BY <1>10, <2>1, <2>2, <2>3, <2>4, <2>5 DEF Step
<1>11. CASE UNCHANGED vars
  BY <1>7, <1>11 DEF vars, adminVars
<1> QED
  BY <1>1, <1>2, <1>4, <1>5, <1>6, <1>7, <1>8, <1>9, <1>10, <1>11
     DEF Next, AdminNext

\* However the calls of create interleave, n of them exceed maxWebhooks by at
\* most n - 1.
THEOREM OvershootCorrect == Spec => []OvershootBounded
<1>1. Places => OvershootBounded
  BY PlacesFinite, ConstantsAssumption DEF Places, OvershootBounded
<1> QED
  BY <1>1, PlacesInit, PlacesStep, TypeCorrect, PTL DEF Spec
=============================================================================
