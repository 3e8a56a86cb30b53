--------------------------- MODULE ApiKeys_proofs ---------------------------
(***************************************************************************)
(* What ApiKeys guarantees for every number of keys, requests and calls.   *)
(***************************************************************************)
EXTENDS ApiKeys, FiniteSetTheorems, TLAPS

\* The initial state has the types of the variables (the columns' defaults).
LEMMA TypeInit == Init => TypeOK
  BY ConstantsAssumption DEF Init, TypeOK, Time, Expiry, RequestPc, AdminPc

\* No step of validate, create or remove leaves the types.
LEMMA TypeStep == TypeOK /\ [Next]_vars => TypeOK'
<1> SUFFICES ASSUME TypeOK, [Next]_vars PROVE TypeOK'
  OBVIOUS
<1> USE ConstantsAssumption DEF TypeOK
<1>1. ASSUME NEW r \in Requests, NEW k \in Keys, Lookup(r, k) PROVE TypeOK'
  BY <1>1 DEF Lookup, RequestPc
<1>2. ASSUME NEW r \in Requests, ReadRow(r) PROVE TypeOK'
  BY <1>2 DEF ReadRow, RequestPc
<1>3. ASSUME NEW r \in Requests, Refill(r) PROVE TypeOK'
  <2>1. request[r].key \in Keys
    BY <1>3 DEF Refill
  <2>2. cache' \in [Keys -> Expiry \cup {NoEntry}]
    BY <1>3, <2>1 DEF Refill, EntryOf
  <2> QED
    BY <1>3, <2>2 DEF Refill, RequestPc
<1>4. ASSUME NEW r \in Requests, AbandonRequest(r) PROVE TypeOK'
  BY <1>4 DEF AbandonRequest, RequestPc
<1>5. ASSUME NEW a \in Admins, NEW k \in Keys, NEW e \in Expiry, Count(a, k, e)
      PROVE TypeOK'
  BY <1>5 DEF Count, AdminPc
<1>6. ASSUME NEW a \in Admins, SaveRow(a) PROVE TypeOK'
  BY <1>6 DEF SaveRow, AdminPc
<1>7. ASSUME NEW a \in Admins, CacheNew(a) PROVE TypeOK'
  BY <1>7 DEF CacheNew, AdminPc, EntryOf
<1>8. ASSUME NEW a \in Admins, NEW k \in Keys, Find(a, k) PROVE TypeOK'
  BY <1>8 DEF Find, AdminPc
<1>9. ASSUME NEW a \in Admins, Revoke(a) PROVE TypeOK'
  BY <1>9 DEF Revoke, AdminPc
<1>10. ASSUME NEW a \in Admins, DropEntry(a) PROVE TypeOK'
  BY <1>10 DEF DropEntry, AdminPc
<1>11. ASSUME NEW a \in Admins, Abandon(a) PROVE TypeOK'
  BY <1>11 DEF Abandon, AdminPc
<1>12. ASSUME NEW k \in Keys, Evict(k) PROVE TypeOK'
  BY <1>12 DEF Evict
<1>13. CASE Tick
  BY <1>13 DEF Tick, Time, Expiry
<1>14. CASE UNCHANGED vars
  BY <1>14 DEF vars
<1> QED
  BY <1>1, <1>2, <1>3, <1>4, <1>5, <1>6, <1>7, <1>8, <1>9, <1>10, <1>11,
     <1>12, <1>13, <1>14 DEF Next, RequestNext, AdminNext

\* The types of ApiKeys hold in every reachable state.
THEOREM TypeCorrect == Spec => []TypeOK
  BY TypeInit, TypeStep, PTL DEF Spec

-----------------------------------------------------------------------------
(***************************************************************************)
(* The inductive invariant.  A key that has no row yet is unknown to Redis,*)
(* to the clients and to remove; a create owns the key it generated until  *)
(* it has inserted the row.                                                *)
(***************************************************************************)
FreshKeys ==
  /\ \A k \in Keys : row[k] = "absent" =>
       /\ cache[k] = NoEntry
       /\ k \notin held
       /\ \A r \in Requests : request[r].key # k
  /\ \A a \in Admins : admin[a].pc = "counted" =>
       /\ row[admin[a].key] = "absent"
       /\ \A b \in Admins \ {a} : admin[b].key # admin[a].key
  /\ \A a \in Admins : admin[a].pc \in {"saved", "found"} =>
       row[admin[a].key] # "absent"
  /\ \A a \in Admins : admin[a].pc = "revoked" => row[admin[a].key] = "revoked"

\* An entry carries the expiry of its row.
EntriesMatch == \A k \in Keys : cache[k] \in {NoEntry, expiresAt[k]}

\* A request past its expiry check arrived no later than the expiry.
ExpiryChecked ==
  \A r \in Requests :
    /\ request[r].at <= now
    /\ request[r].pc \in {"checked", "accepted"} =>
         LET e == expiresAt[request[r].key] IN e = Never \/ request[r].at <= e

\* A settled revocation has left no entry and nobody who could write one, and
\* the requests that came after it were not accepted.
SettledClean ==
  /\ \A k \in acked : row[k] = "revoked"
  /\ \A k \in Settled :
       cache[k] = NoEntry /\ Fillers(k) = {} /\ Creators(k) = {}
  /\ \A r \in Requests : request[r].settled =>
       request[r].key \in Settled /\ request[r].pc \in {"missed", "refused"}

IInv == TypeOK /\ FreshKeys /\ EntriesMatch /\ ExpiryChecked /\ SettledClean

\* IInv holds initially: there is no key yet.
LEMMA IInvInit == Init => IInv
  BY TypeInit, ConstantsAssumption
  DEF Init, IInv, FreshKeys, EntriesMatch, ExpiryChecked, SettledClean,
      Settled, Fillers, Creators

\* IInv is preserved by every step.
LEMMA IInvStep == IInv /\ [Next]_vars => IInv'
<1> SUFFICES ASSUME IInv, [Next]_vars PROVE IInv'
  OBVIOUS
<1>0. TypeOK'
  BY TypeStep DEF IInv
<1> USE <1>0, ConstantsAssumption
    DEF IInv, TypeOK
<1>1. ASSUME NEW r \in Requests, NEW k \in Keys, Lookup(r, k)
      PROVE  IInv'
  <2>1. FreshKeys'
    BY <1>1 DEF Lookup, FreshKeys
  <2>2. EntriesMatch'
    BY <1>1 DEF Lookup, EntriesMatch, FreshKeys
  <2>3. ExpiryChecked'
    BY <1>1 DEF Lookup, ExpiryChecked, FreshKeys, EntriesMatch, IsExpired, Time, Expiry
  <2>4. SettledClean'
    <3>1. Settled' = Settled /\ Creators(k)' = Creators(k)
      BY <1>1 DEF Lookup, Settled, Creators
    <3>2. \A l \in Keys : Fillers(l)' \subseteq Fillers(l)
      BY <1>1 DEF Lookup, Fillers
    <3>3. k \in Settled => request'[r].pc = "missed"
      BY <1>1 DEF Lookup, SettledClean
    <3>4. /\ request'[r].key = k
          /\ request'[r].settled = (k \in Settled)
          /\ \A q \in Requests \ {r} : request'[q] = request[q]
      BY <1>1 DEF Lookup
    <3>5. \A q \in Requests : request'[q].settled =>
            request'[q].key \in Settled /\ request'[q].pc \in {"missed", "refused"}
      BY <3>3, <3>4 DEF SettledClean
    <3>6. \A l \in Settled : cache[l] = NoEntry /\ Fillers(l)' = {} /\ Creators(l)' = {}
      BY <1>1, <3>2 DEF Lookup, SettledClean, Creators, Settled
    <3> QED
      BY <1>1, <3>1, <3>5, <3>6 DEF Lookup, SettledClean
  <2> QED
    BY <2>1, <2>2, <2>3, <2>4
<1>2. ASSUME NEW r \in Requests, ReadRow(r)
      PROVE  IInv'
  <2>1. FreshKeys'
    BY <1>2 DEF ReadRow, RowValid, FreshKeys
  <2>2. EntriesMatch'
    BY <1>2 DEF ReadRow, RowValid, EntriesMatch, FreshKeys
  <2>3. ExpiryChecked'
    BY <1>2 DEF ReadRow, RowValid, ExpiryChecked, FreshKeys, EntriesMatch, IsExpired, Time, Expiry
  <2>4. SettledClean'
    BY <1>2 DEF ReadRow, RowValid, SettledClean, FreshKeys, Settled, Fillers, Creators
  <2> QED
    BY <2>1, <2>2, <2>3, <2>4
<1>3. ASSUME NEW r \in Requests, Refill(r)
      PROVE  IInv'
  <2>1. FreshKeys'
    BY <1>3 DEF Refill, EntryOf, FreshKeys
  <2>2. EntriesMatch'
    BY <1>3 DEF Refill, EntryOf, EntriesMatch, FreshKeys
  <2>3. ExpiryChecked'
    BY <1>3 DEF Refill, EntryOf, ExpiryChecked, FreshKeys, EntriesMatch, IsExpired, Time, Expiry
  <2>4. SettledClean'
    BY <1>3 DEF Refill, EntryOf, SettledClean, FreshKeys, Settled, Fillers, Creators
  <2> QED
    BY <2>1, <2>2, <2>3, <2>4
<1>4. ASSUME NEW r \in Requests, AbandonRequest(r)
      PROVE  IInv'
  <2>1. FreshKeys'
    BY <1>4 DEF AbandonRequest, FreshKeys
  <2>2. EntriesMatch'
    BY <1>4 DEF AbandonRequest, EntriesMatch, FreshKeys
  <2>3. ExpiryChecked'
    BY <1>4 DEF AbandonRequest, ExpiryChecked, FreshKeys, EntriesMatch, IsExpired, Time, Expiry
  <2>4. SettledClean'
    BY <1>4 DEF AbandonRequest, SettledClean, FreshKeys, Settled, Fillers, Creators
  <2> QED
    BY <2>1, <2>2, <2>3, <2>4
<1>5. ASSUME NEW a \in Admins, NEW k \in Keys, NEW e \in Expiry, Count(a, k, e)
      PROVE  IInv'
  <2>1. FreshKeys'
    BY <1>5 DEF Count, FreshKeys
  <2>2. EntriesMatch'
    BY <1>5 DEF Count, EntriesMatch, FreshKeys
  <2>3. ExpiryChecked'
    BY <1>5 DEF Count, ExpiryChecked, FreshKeys, EntriesMatch, IsExpired, Time, Expiry
  <2>4. SettledClean'
    BY <1>5 DEF Count, SettledClean, FreshKeys, Settled, Fillers, Creators
  <2> QED
    BY <2>1, <2>2, <2>3, <2>4
<1>6. ASSUME NEW a \in Admins, SaveRow(a)
      PROVE  IInv'
  <2>1. FreshKeys'
    BY <1>6 DEF SaveRow, FreshKeys
  <2>2. EntriesMatch'
    BY <1>6 DEF SaveRow, EntriesMatch, FreshKeys
  <2>3. ExpiryChecked'
    BY <1>6 DEF SaveRow, ExpiryChecked, FreshKeys, EntriesMatch, IsExpired, Time, Expiry
  <2>4. SettledClean'
    BY <1>6 DEF SaveRow, SettledClean, FreshKeys, Settled, Fillers, Creators
  <2> QED
    BY <2>1, <2>2, <2>3, <2>4
<1>7. ASSUME NEW a \in Admins, CacheNew(a)
      PROVE  IInv'
  <2>1. FreshKeys'
    BY <1>7 DEF CacheNew, EntryOf, FreshKeys
  <2>2. EntriesMatch'
    BY <1>7 DEF CacheNew, EntryOf, EntriesMatch, FreshKeys
  <2>3. ExpiryChecked'
    BY <1>7 DEF CacheNew, EntryOf, ExpiryChecked, FreshKeys, EntriesMatch, IsExpired, Time, Expiry
  <2>4. SettledClean'
    BY <1>7 DEF CacheNew, EntryOf, SettledClean, FreshKeys, Settled, Fillers, Creators
  <2> QED
    BY <2>1, <2>2, <2>3, <2>4
<1>8. ASSUME NEW a \in Admins, NEW k \in Keys, Find(a, k)
      PROVE  IInv'
  <2>1. FreshKeys'
    BY <1>8 DEF Find, FreshKeys
  <2>2. EntriesMatch'
    BY <1>8 DEF Find, EntriesMatch, FreshKeys
  <2>3. ExpiryChecked'
    BY <1>8 DEF Find, ExpiryChecked, FreshKeys, EntriesMatch, IsExpired, Time, Expiry
  <2>4. SettledClean'
    BY <1>8 DEF Find, SettledClean, FreshKeys, Settled, Fillers, Creators
  <2> QED
    BY <2>1, <2>2, <2>3, <2>4
<1>9. ASSUME NEW a \in Admins, Revoke(a)
      PROVE  IInv'
  <2>1. FreshKeys'
    BY <1>9 DEF Revoke, FreshKeys
  <2>2. EntriesMatch'
    BY <1>9 DEF Revoke, EntriesMatch, FreshKeys
  <2>3. ExpiryChecked'
    BY <1>9 DEF Revoke, ExpiryChecked, FreshKeys, EntriesMatch, IsExpired, Time, Expiry
  <2>4. SettledClean'
    BY <1>9 DEF Revoke, SettledClean, FreshKeys, Settled, Fillers, Creators
  <2> QED
    BY <2>1, <2>2, <2>3, <2>4
<1>10. ASSUME NEW a \in Admins, DropEntry(a)
      PROVE  IInv'
  <2>1. FreshKeys'
    BY <1>10 DEF DropEntry, FreshKeys
  <2>2. EntriesMatch'
    BY <1>10 DEF DropEntry, EntriesMatch, FreshKeys
  <2>3. ExpiryChecked'
    BY <1>10 DEF DropEntry, ExpiryChecked, FreshKeys, EntriesMatch, IsExpired, Time, Expiry
  <2>4. SettledClean'
    BY <1>10 DEF DropEntry, SettledClean, FreshKeys, Settled, Fillers, Creators
  <2> QED
    BY <2>1, <2>2, <2>3, <2>4
<1>11. ASSUME NEW a \in Admins, Abandon(a)
      PROVE  IInv'
  <2>1. FreshKeys'
    BY <1>11 DEF Abandon, FreshKeys
  <2>2. EntriesMatch'
    BY <1>11 DEF Abandon, EntriesMatch, FreshKeys
  <2>3. ExpiryChecked'
    BY <1>11 DEF Abandon, ExpiryChecked, FreshKeys, EntriesMatch, IsExpired, Time, Expiry
  <2>4. SettledClean'
    BY <1>11 DEF Abandon, SettledClean, FreshKeys, Settled, Fillers, Creators
  <2> QED
    BY <2>1, <2>2, <2>3, <2>4
<1>12. ASSUME NEW k \in Keys, Evict(k)
      PROVE  IInv'
  <2>1. FreshKeys'
    BY <1>12 DEF Evict, FreshKeys
  <2>2. EntriesMatch'
    BY <1>12 DEF Evict, EntriesMatch, FreshKeys
  <2>3. ExpiryChecked'
    BY <1>12 DEF Evict, ExpiryChecked, FreshKeys, EntriesMatch, IsExpired, Time, Expiry
  <2>4. SettledClean'
    BY <1>12 DEF Evict, SettledClean, FreshKeys, Settled, Fillers, Creators
  <2> QED
    BY <2>1, <2>2, <2>3, <2>4
<1>13. CASE Tick
  BY <1>13 DEF Tick, FreshKeys, EntriesMatch, ExpiryChecked, SettledClean,
               Settled, Fillers, Creators, Time
<1>14. CASE UNCHANGED vars
  BY <1>14 DEF vars, FreshKeys, EntriesMatch, ExpiryChecked, SettledClean,
               Settled, Fillers, Creators
<1> QED
  BY <1>1, <1>2, <1>3, <1>4, <1>5, <1>6, <1>7, <1>8, <1>9, <1>10, <1>11,
     <1>12, <1>13, <1>14 DEF Next, RequestNext, AdminNext


LEMMA IInvInvariant == Spec => []IInv
  BY IInvInit, IInvStep, PTL DEF Spec

\* An expired key is refused on the cached and on the database path alike
\* (assertNotExpired is called on both).
THEOREM ExpiryCorrect == Spec => []ExpiryHonoured
<1>1. IInv => ExpiryHonoured
  BY DEF IInv, ExpiryChecked, ExpiryHonoured
<1> QED
  BY <1>1, IInvInvariant, PTL

\* A request that arrives after an undisturbed revocation is refused: the
\* entry is gone, and the row no longer lets validate write it again.
THEOREM RevocationCorrect == Spec => []RevokedKeyRefused
<1>1. IInv => RevokedKeyRefused
  BY DEF IInv, SettledClean, RevokedKeyRefused
<1> QED
  BY <1>1, IInvInvariant, PTL

-----------------------------------------------------------------------------
(***************************************************************************)
(* The overshoot of the plan limit.  A create that has counted holds a     *)
(* place it has not taken yet; places held and taken stay below the limit  *)
(* plus the number of concurrent calls.                                    *)
(***************************************************************************)
Counted == {a \in Admins : admin[a].pc = "counted"}

PlacesBounded ==
  MaxApiKeys # -1 =>
    Cardinality(Active) + Cardinality(Counted)
      <= MaxApiKeys + Cardinality(Admins) - 1

\* The sets that are counted are finite.
LEMMA PlacesFinite ==
  /\ IsFiniteSet(Active) /\ IsFiniteSet(Counted)
  /\ Cardinality(Active) \in Nat /\ Cardinality(Counted) \in Nat
  /\ Cardinality(Counted) <= Cardinality(Admins)
  /\ Cardinality(Admins) \in Nat \ {0}
<1>1. Active \in SUBSET Keys /\ Counted \in SUBSET Admins
  BY DEF Active, Counted
<1>2. IsFiniteSet(Active) /\ IsFiniteSet(Counted)
  BY <1>1, FS_Subset, ConstantsAssumption
<1>3. Cardinality(Counted) <= Cardinality(Admins)
  BY <1>1, FS_Subset, ConstantsAssumption
<1>4. Cardinality(Admins) \in Nat \ {0}
  BY FS_CardinalityType, FS_EmptySet, ConstantsAssumption
<1> QED
  BY <1>2, <1>3, <1>4, FS_CardinalityType

LEMMA PlacesInit == Init => PlacesBounded
<1> SUFFICES ASSUME Init, MaxApiKeys # -1
             PROVE  Cardinality(Active) + Cardinality(Counted)
                      <= MaxApiKeys + Cardinality(Admins) - 1
  BY DEF PlacesBounded
<1>1. Active = {} /\ Counted = {}
  BY DEF Init, Active, Counted
<1> QED
  BY <1>1, PlacesFinite, FS_EmptySet, ConstantsAssumption

\* Only Count adds a place, and it does so below the limit; SaveRow turns a
\* held place into a taken one.
LEMMA PlacesStep == IInv /\ PlacesBounded /\ [Next]_vars => PlacesBounded'
<1> SUFFICES ASSUME IInv, PlacesBounded, [Next]_vars, MaxApiKeys # -1
             PROVE  Cardinality(Active') + Cardinality(Counted')
                      <= MaxApiKeys + Cardinality(Admins) - 1
  BY DEF PlacesBounded
<1>0. /\ IsFiniteSet(Active') /\ IsFiniteSet(Counted')
      /\ Cardinality(Active') \in Nat /\ Cardinality(Counted') \in Nat
      /\ Cardinality(Counted') <= Cardinality(Admins)
  <2>1. Active' \in SUBSET Keys /\ Counted' \in SUBSET Admins
    BY DEF Active, Counted
  <2> QED
    BY <2>1, FS_Subset, FS_CardinalityType, ConstantsAssumption
<1>a. Cardinality(Active) + Cardinality(Counted)
        <= MaxApiKeys + Cardinality(Admins) - 1
  BY DEF PlacesBounded
<1>m. MaxApiKeys \in Nat
  BY ConstantsAssumption
<1> USE DEF IInv, TypeOK
<1>1. ASSUME NEW a \in Admins, NEW k \in Keys, NEW e \in Expiry, Count(a, k, e)
      PROVE  Cardinality(Active') + Cardinality(Counted')
               <= MaxApiKeys + Cardinality(Admins) - 1
  <2>1. Active' = Active /\ Cardinality(Active) < MaxApiKeys
    BY <1>1 DEF Count, Active, BelowLimit
  <2> QED
    BY <2>1, <1>0, <1>m, PlacesFinite
<1>2. ASSUME NEW a \in Admins, SaveRow(a)
      PROVE  Cardinality(Active') + Cardinality(Counted')
               <= MaxApiKeys + Cardinality(Admins) - 1
  <2>1. Counted' = Counted \ {a} /\ a \in Counted
    BY <1>2 DEF SaveRow, Counted
  <2>2. Active' = Active \cup {admin[a].key} /\ admin[a].key \notin Active
    BY <1>2 DEF SaveRow, Active, FreshKeys
  <2>3. Cardinality(Counted') = Cardinality(Counted) - 1
    BY <2>1, PlacesFinite, FS_RemoveElement
  <2>4. Cardinality(Active') = Cardinality(Active) + 1
    BY <2>2, PlacesFinite, FS_AddElement
  <2> QED
    BY <2>3, <2>4, <1>a, <1>m, PlacesFinite
<1>3. ASSUME Active' \subseteq Active, Counted' \subseteq Counted
      PROVE  Cardinality(Active') + Cardinality(Counted')
               <= MaxApiKeys + Cardinality(Admins) - 1
  <2>1. Cardinality(Active') <= Cardinality(Active)
    BY <1>3, PlacesFinite, FS_Subset
  <2>2. Cardinality(Counted') <= Cardinality(Counted)
    BY <1>3, PlacesFinite, FS_Subset
  <2> QED
    BY <2>1, <2>2, <1>a, <1>0, <1>m, PlacesFinite
<1>4. ASSUME NEW a \in Admins,
             \/ CacheNew(a) \/ Revoke(a) \/ DropEntry(a) \/ Abandon(a)
             \/ \E k \in Keys : Find(a, k)
      PROVE  Active' \subseteq Active /\ Counted' \subseteq Counted
  BY <1>4 DEF CacheNew, Revoke, DropEntry, Abandon, Find, Active, Counted
<1>5. ASSUME UNCHANGED <<row, admin>>
      PROVE  Active' \subseteq Active /\ Counted' \subseteq Counted
  BY <1>5 DEF Active, Counted
<1>6. ASSUME NEW r \in Requests, RequestNext(r)
      PROVE  UNCHANGED <<row, admin>>
  BY <1>6 DEF RequestNext, Lookup, ReadRow, Refill, AbandonRequest
<1>7. ASSUME Tick \/ (\E k \in Keys : Evict(k)) \/ UNCHANGED vars
      PROVE  UNCHANGED <<row, admin>>
  BY <1>7 DEF Tick, Evict, vars
<1> QED
  BY <1>1, <1>2, <1>3, <1>4, <1>5, <1>6, <1>7 DEF Next, AdminNext

\* However the calls of create interleave, n of them exceed maxApiKeys by at
\* most n - 1.
THEOREM OvershootCorrect == Spec => []OvershootBounded
<1>1. PlacesBounded => OvershootBounded
  BY PlacesFinite, ConstantsAssumption DEF PlacesBounded, OvershootBounded
<1>2. Spec => []PlacesBounded
  BY PlacesInit, PlacesStep, IInvInvariant, PTL DEF Spec
<1> QED
  BY <1>1, <1>2, PTL
=============================================================================
