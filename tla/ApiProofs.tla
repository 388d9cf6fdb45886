------------------------------ MODULE ApiProofs ------------------------------
(***************************************************************************)
(* Proofs about ApiService, for any number of identities, requests and     *)
(* slots, any limits, window, clock grain and storage size, and any        *)
(* uploads and datasets: what the limiter promises its clients, what a     *)
(* handler stages, and what an answer says.                                *)
(*                                                                         *)
(* The invariant has a part per promise: HeadersInv ties the headers to    *)
(* the windows, StoreInv bounds the storage, BurstInv dates admissions by  *)
(* the windows that counted them, and HandlersInv remembers of every slot  *)
(* at work the upload it has accepted.                                     *)
(***************************************************************************)
EXTENDS ApiService, FiniteSetTheorems, SequenceTheorems, WellFoundedInduction, TLAPS

-----------------------------------------------------------------------------
(* Types *)

Entries == [start : Nat, count : Nat]

LimiterTypeOK ==
    /\ windows \in [Keys -> Entries]
    /\ now \in Nat
    /\ told \in [Keys -> Nat]
    /\ comeBack \in [Keys -> Nat \cup {Never}]
    /\ admitted \in [Keys -> Seq(Nat)]

\* A stored window has counted a request, and did not open in the future.
WindowsInv == \A k \in Keys : windows[k] # Absent => windows[k].count >= 1 /\ windows[k].start <= now

LEMMA LimitsPositive ==
  /\ Window \in Nat \ {0} /\ TicksPerSecond \in Nat \ {0} /\ MaxEntries \in Nat \ {0}
  /\ \A k \in Keys : Limit[k[2]] \in Nat \ {0}
<1>1. \A a, b \in Nat \ {0} : a * b \in Nat \ {0}
  OBVIOUS
<1>2. Window \in Nat \ {0}
  BY <1>1, WindowAssumption DEF Window
<1>. QED
  BY <1>2, WindowAssumption, LimitAssumption DEF Keys

\* Rounding up to whole seconds gives at least the ticks that are left.
LEMMA CeilCovers ==
  ASSUME NEW a \in Nat, NEW T \in Nat \ {0}
  PROVE  ((a + T - 1) \div T) * T >= a /\ (a + T - 1) \div T \in Nat
<1>. DEFINE b == a + T - 1
            q == b \div T
            r == b % T
<1>1. b \in Nat
  OBVIOUS
<1>2. b = q * T + r /\ r < T /\ q \in Nat /\ r \in Nat
  BY <1>1
<1>3. q * T \in Int
  BY <1>2
<1>4. q * T >= a
  BY <1>2, <1>3
<1>. QED
  BY <1>2, <1>4

-----------------------------------------------------------------------------
(* One call of increment *)

Alive(k) == windows[k] # Absent /\ now - windows[k].start < Window

\* What increment does to the window of its key and to the others.
Incremented(k) ==
    /\ windows' \in [Keys -> Entries]
    /\ windows'[k] = IF Alive(k) THEN [windows[k] EXCEPT !.count = @ + 1]
                                 ELSE [start |-> now, count |-> 1]
    /\ \A l \in Keys \ {k} : \/ windows'[l] = windows[l] /\ (windows[l] # Absent => Alive(l))
                             \/ windows'[l] = Absent
    /\ Alive(k) => \A l \in Keys \ {k} : Alive(l) => windows'[l] = windows[l]

LEMMA CleanupKeepsLive ==
  ASSUME LimiterTypeOK
  PROVE  \A k \in Keys : Cleanup(windows, now)[k] = IF Alive(k) THEN windows[k] ELSE Absent
<1>. SUFFICES ASSUME NEW k \in Keys
              PROVE  Cleanup(windows, now)[k] = IF Alive(k) THEN windows[k] ELSE Absent
  OBVIOUS
<1>1. windows[k].start \in Nat /\ now \in Nat /\ Window \in Nat
  BY LimitsPositive DEF LimiterTypeOK, Entries
<1>. QED
  BY <1>1 DEF Cleanup, Alive

LEMMA IncrementSteps ==
  ASSUME LimiterTypeOK, NEW k \in Keys, windows' \in Increment(k)
  PROVE  Incremented(k)
<1>. DEFINE C == Cleanup(windows, now)
<1>1. PICK w \in MakeRoom(C, k) :
        windows' = [w EXCEPT ![k] = Bump(IF w[k] = Absent THEN [start |-> now, count |-> 0] ELSE w[k], now)]
  BY DEF Increment
<1>2. C \in [Keys -> Entries]
  BY DEF Cleanup, LimiterTypeOK, Entries, Absent
<1>3. \A l \in Keys : C[l] = IF Alive(l) THEN windows[l] ELSE Absent
  BY CleanupKeepsLive
<1>4. \/ w = C
      \/ C[k] = Absent /\ \E o \in Oldest(C) : w = [C EXCEPT ![o] = Absent]
  BY <1>1 DEF MakeRoom
<1>. HIDE DEF C
<1>5. w \in [Keys -> Entries] /\ w[k] = C[k]
  <2>1. CASE w = C
    BY <2>1, <1>2
  <2>2. ASSUME C[k] = Absent, NEW o \in Oldest(C), w = [C EXCEPT ![o] = Absent]
        PROVE  w \in [Keys -> Entries] /\ w[k] = C[k]
    BY <2>2, <1>2 DEF Absent, Entries, Oldest, Stored
  <2>. QED
    BY <2>1, <2>2, <1>4
<1>6. \A l \in Keys : w[l] = C[l] \/ w[l] = Absent
  <2>1. CASE w = C
    BY <2>1
  <2>2. ASSUME NEW o \in Oldest(C), w = [C EXCEPT ![o] = Absent], NEW l \in Keys
        PROVE  w[l] = C[l] \/ w[l] = Absent
    BY <2>2, <1>2
  <2>. QED
    BY <2>1, <2>2, <1>4
<1>7. Alive(k) => w = C
  BY <1>3, <1>4 DEF Alive
<1>8. Window \in Nat \ {0} /\ now \in Nat /\ windows \in [Keys -> Entries]
  BY LimitsPositive DEF LimiterTypeOK
<1>9. Bump(IF w[k] = Absent THEN [start |-> now, count |-> 0] ELSE w[k], now)
        = IF Alive(k) THEN [windows[k] EXCEPT !.count = @ + 1] ELSE [start |-> now, count |-> 1]
  <2>1. CASE Alive(k)
    <3>1. w[k] = windows[k] /\ w[k] # Absent
      BY <2>1, <1>3, <1>5 DEF Alive
    <3>2. windows[k].start \in Nat /\ now - windows[k].start < Window
      BY <2>1, <1>8 DEF Alive, Entries
    <3>. QED
      BY <2>1, <3>1, <3>2, <1>8 DEF Bump
  <2>2. CASE ~Alive(k)
    <3>1. w[k] = Absent
      BY <2>2, <1>3, <1>5
    <3>2. ~(now - now >= Window)
      BY <1>8
    <3>. QED
      BY <2>2, <3>1, <3>2 DEF Bump
  <2>. QED
    BY <2>1, <2>2
<1>10. /\ windows' \in [Keys -> Entries]
       /\ windows'[k] = IF Alive(k) THEN [windows[k] EXCEPT !.count = @ + 1]
                                    ELSE [start |-> now, count |-> 1]
       /\ \A l \in Keys \ {k} : windows'[l] = w[l]
  <2>1. (IF Alive(k) THEN [windows[k] EXCEPT !.count = @ + 1]
                    ELSE [start |-> now, count |-> 1]) \in Entries
    BY <1>8 DEF Entries
  <2>. QED
    BY <1>1, <1>5, <1>9, <2>1
<1>11. ASSUME NEW l \in Keys \ {k}
       PROVE  \/ windows'[l] = windows[l] /\ (windows[l] # Absent => Alive(l))
              \/ windows'[l] = Absent
  BY <1>3, <1>6, <1>10
<1>12. ASSUME Alive(k), NEW l \in Keys \ {k}, Alive(l) PROVE windows'[l] = windows[l]
  BY <1>3, <1>7, <1>10, <1>12
<1>. QED
  BY <1>10, <1>11, <1>12 DEF Incremented

-----------------------------------------------------------------------------
(* What a step of the API does to the limiter *)

LimiterStep ==
    \/ \E k \in Keys : Admit(k) \/ Refuse(k)
    \/ Tick
    \/ UNCHANGED <<windows, now, told, comeBack, admitted>>

\* A request is charged to a key.
LEMMA IdentityIsKey ==
  ASSUME NEW c \in Calls, settings \in Deployments
  PROVE  <<Identity(c), Bucket(c)>> \in Keys
<1>1. Credential(c) # None => Credential(c) \in Identities
  BY ApiAssumption DEF Credential
<1>2. ClientIdentity(c) \in Identities
  BY ApiAssumption DEF ClientIdentity
<1>. QED
  BY <1>1, <1>2 DEF Identity, Keys, Bucket, Buckets

LEMMA StepsOfLimiter ==
  ASSUME settings \in Deployments, [Next]_vars
  PROVE  LimiterStep /\ settings' = settings
<1>1. CASE RefuseCall
  BY <1>1 DEF RefuseCall, LimiterStep, apiVars
<1>2. CASE RefuseCharged
  BY <1>2, IdentityIsKey DEF RefuseCharged, LimiterStep, apiVars
<1>3. CASE ClockTicks
  BY <1>3 DEF ClockTicks, LimiterStep, apiVars
<1>4. ASSUME NEW s \in Slots, Dispatch(s) PROVE LimiterStep /\ settings' = settings
  BY <1>4, IdentityIsKey DEF Dispatch, LimiterStep
<1>5. ASSUME NEW s \in Slots,
             \/ BodyFails(s) \/ Serve(s) \/ UploadFails(s) \/ HandOver(s) \/ Stage(s)
             \/ HandlerRaises(s) \/ RefuseDataset(s) \/ Validate(s) \/ Repair(s) \/ Answer(s)
      PROVE  LimiterStep /\ settings' = settings
  BY <1>5 DEF BodyFails, Serve, UploadFails, HandOver, Stage, HandlerRaises, RefuseDataset,
              Validate, Repair, Answer, LimiterStep, limiterVars
<1>6. CASE UNCHANGED vars
  BY <1>6 DEF vars, limiterVars, apiVars, LimiterStep
<1>. QED
  BY <1>1, <1>2, <1>3, <1>4, <1>5, <1>6 DEF Next

LEMMA LimiterTypeInit == LimiterInit => LimiterTypeOK /\ WindowsInv
BY DEF LimiterInit, LimiterTypeOK, WindowsInv, Absent, Entries, Never

LEMMA TimesTyped ==
  ASSUME NEW times \in Seq(Nat), NEW t \in Nat
  PROVE  Append(times, t) \in Seq(Nat) /\ Tail(Append(times, t)) \in Seq(Nat)
<1>1. Append(times, t) \in Seq(Nat) /\ Append(times, t) # <<>>
  BY AppendProperties
<1>. QED
  BY <1>1, HeadTailProperties

LEMMA LimiterTypeNext ==
  ASSUME LimiterTypeOK, WindowsInv, LimiterStep
  PROVE  LimiterTypeOK' /\ WindowsInv'
<1>. USE DEF LimiterTypeOK
<1>1. ASSUME NEW k \in Keys, windows' \in Increment(k), now' = now
      PROVE  windows' \in [Keys -> Entries] /\ WindowsInv'
  <2>1. Incremented(k)
    BY <1>1, IncrementSteps
  <2>2. windows'[k].count >= 1 /\ windows'[k].start <= now
    BY <2>1 DEF Incremented, Alive, WindowsInv, Entries
  <2>3. \A l \in Keys \ {k} : windows'[l] # Absent => windows'[l] = windows[l]
    BY <2>1 DEF Incremented
  <2>. QED
    BY <1>1, <2>1, <2>2, <2>3 DEF Incremented, WindowsInv
<1>2. ASSUME NEW k \in Keys, Admit(k) PROVE LimiterTypeOK' /\ WindowsInv'
  <2>1. windows' \in [Keys -> Entries] /\ WindowsInv' /\ now' = now
    BY <1>1, <1>2 DEF Admit
  <2>2. Remaining(windows'[k], Limit[k[2]]) \in Nat
    BY <2>1, LimitsPositive DEF Remaining, Larger, Entries
  <2>3. told' \in [Keys -> Nat] /\ comeBack' \in [Keys -> Nat \cup {Never}]
    BY <1>2, <2>2 DEF Admit
  <2>4. Remember(k) \in Seq(Nat)
    BY TimesTyped DEF Remember
  <2>5. admitted' \in [Keys -> Seq(Nat)]
    BY <1>2, <2>4 DEF Admit
  <2>. QED
    BY <2>1, <2>3, <2>5
<1>3. ASSUME NEW k \in Keys, Refuse(k) PROVE LimiterTypeOK' /\ WindowsInv'
  <2>1. windows' \in [Keys -> Entries] /\ WindowsInv' /\ now' = now
    BY <1>1, <1>3 DEF Refuse
  <2>2. now + RetryAfter(windows'[k]) * TicksPerSecond \in Nat
    <3>1. CASE RetryAfter(windows'[k]) = 1
      BY <3>1, LimitsPositive
    <3>2. CASE RetryAfter(windows'[k]) # 1
      <4>. DEFINE a == Window - (now - windows'[k].start)
      <4>1. windows'[k].start \in Nat
        BY <2>1 DEF Entries
      <4>2. a \in Int
        BY <4>1, LimitsPositive
      <4>3. CeilSeconds(a) \in Int
        BY <4>2, LimitsPositive DEF CeilSeconds
      <4>4. RetryAfter(windows'[k]) \in Nat
        BY <3>2, <4>3 DEF RetryAfter, Larger
      <4>5. \A r \in Nat, t \in Nat : r * t \in Nat
        OBVIOUS
      <4>6. RetryAfter(windows'[k]) * TicksPerSecond \in Nat
        BY <4>4, <4>5, LimitsPositive
      <4>. HIDE DEF a
      <4>. QED
        BY <4>6
    <3>. QED
      BY <3>1, <3>2
  <2>3. comeBack' \in [Keys -> Nat \cup {Never}]
    BY <1>3, <2>2 DEF Refuse
  <2>. QED
    BY <1>3, <2>1, <2>3 DEF Refuse
<1>4. CASE Tick
  <2>1. WindowsInv'
    BY <1>4 DEF Tick, WindowsInv, Entries
  <2>. QED
    BY <1>4, <2>1 DEF Tick
<1>5. CASE UNCHANGED <<windows, now, told, comeBack, admitted>>
  BY <1>5 DEF WindowsInv
<1>. QED
  BY <1>2, <1>3, <1>4, <1>5 DEF LimiterStep

-----------------------------------------------------------------------------
(***************************************************************************)
(* The headers.  A key that was refused cannot have a window that outlasts *)
(* the moment it was told to come back at: only its own requests open or   *)
(* extend its window, and they renew the promise.  What it was last told   *)
(* it has left is still there.                                             *)
(***************************************************************************)
HeadersInv ==
    \A k \in Keys :
        /\ comeBack[k] # Never /\ windows[k] # Absent => windows[k].start + Window <= comeBack[k]
        /\ told[k] > 0 /\ windows[k] # Absent => windows[k].count + told[k] <= Limit[k[2]]

LEMMA HeadersNext ==
  ASSUME LimiterTypeOK, WindowsInv, HeadersInv, LimiterStep
  PROVE  HeadersInv'
<1>. USE DEF LimiterTypeOK
<1>1. ASSUME NEW k \in Keys, windows' \in Increment(k), NEW l \in Keys \ {k}
      PROVE  windows'[l] = windows[l] \/ windows'[l] = Absent
  BY <1>1, IncrementSteps DEF Incremented
<1>2. ASSUME NEW k \in Keys, Admit(k), NEW l \in Keys
      PROVE  /\ comeBack'[l] # Never /\ windows'[l] # Absent => windows'[l].start + Window <= comeBack'[l]
             /\ told'[l] > 0 /\ windows'[l] # Absent => windows'[l].count + told'[l] <= Limit[l[2]]
  <2>1. CASE l # k
    <3>1. comeBack'[l] = comeBack[l] /\ told'[l] = told[l]
      BY <1>2, <2>1 DEF Admit
    <3>. QED
      BY <1>1, <1>2, <2>1, <3>1 DEF Admit, HeadersInv
  <2>2. CASE l = k
    <3>1. comeBack'[k] = Never /\ told'[k] = Remaining(windows'[k], Limit[k[2]])
      BY <1>2 DEF Admit
    <3>2. windows'[k].count \in Nat /\ Limit[k[2]] \in Nat /\ windows'[k].count <= Limit[k[2]]
      BY <1>2, IncrementSteps, LimitsPositive DEF Admit, Incremented, Entries
    <3>. QED
      BY <2>2, <3>1, <3>2 DEF Remaining, Larger
  <2>. QED
    BY <2>1, <2>2
<1>3. ASSUME NEW k \in Keys, Refuse(k), NEW l \in Keys
      PROVE  /\ comeBack'[l] # Never /\ windows'[l] # Absent => windows'[l].start + Window <= comeBack'[l]
             /\ told'[l] > 0 /\ windows'[l] # Absent => windows'[l].count + told'[l] <= Limit[l[2]]
  <2>1. CASE l # k
    <3>1. comeBack'[l] = comeBack[l] /\ told'[l] = told[l]
      BY <1>3, <2>1 DEF Refuse
    <3>. QED
      BY <1>1, <1>3, <2>1, <3>1 DEF Refuse, HeadersInv
  <2>2. CASE l = k
    <3>1. /\ comeBack'[k] = now + RetryAfter(windows'[k]) * TicksPerSecond
          /\ told'[k] = told[k]
          /\ windows'[k].count > Limit[k[2]]
          /\ Incremented(k)
      BY <1>3, IncrementSteps DEF Refuse
    <3>2. Limit[k[2]] \in Nat \ {0} /\ Window \in Nat \ {0} /\ TicksPerSecond \in Nat \ {0}
      BY LimitsPositive
    <3>3. Alive(k) /\ windows'[k] = [windows[k] EXCEPT !.count = @ + 1]
      BY <3>1, <3>2 DEF Incremented
    <3>4. windows[k] \in Entries
      OBVIOUS
    <3>5. ~(told[k] > 0)
      <4>1. windows'[k].count = windows[k].count + 1
        BY <3>3, <3>4 DEF Entries
      <4>. QED
        BY <3>1, <3>2, <3>3, <3>4, <4>1 DEF HeadersInv, Alive, Entries
    <3>6. windows'[k].start + Window <= comeBack'[k]
      <4>. DEFINE a == Window - (now - windows'[k].start)
                  q == CeilSeconds(a)
                  r == RetryAfter(windows'[k])
      <4>1. windows'[k].start = windows[k].start /\ windows[k].start \in Nat
        BY <3>3, <3>4 DEF Entries
      <4>2. now - windows[k].start < Window /\ windows[k].start <= now
        BY <3>3 DEF Alive, WindowsInv
      <4>3. a \in Nat
        BY <3>2, <4>1, <4>2
      <4>4. q * TicksPerSecond >= a /\ q \in Nat
        <5>. HIDE DEF a
        <5>. QED
          BY <3>2, <4>3, CeilCovers DEF CeilSeconds
      <4>5. r \in Nat /\ r >= q
        BY <4>4 DEF RetryAfter, Larger
      <4>6. r * TicksPerSecond >= q * TicksPerSecond
        <5>. HIDE DEF q, r
        <5>. QED
          BY <3>2, <4>4, <4>5
      <4>7. r * TicksPerSecond \in Int /\ q * TicksPerSecond \in Int
        <5>. HIDE DEF q, r
        <5>. QED
          BY <3>2, <4>4, <4>5
      <4>8. comeBack'[k] = now + r * TicksPerSecond
        BY <3>1
      <4>. HIDE DEF q, r
      <4>. QED
        BY <3>2, <4>1, <4>4, <4>6, <4>7, <4>8
    <3>. QED
      BY <2>2, <3>1, <3>5, <3>6
  <2>. QED
    BY <2>1, <2>2
<1>4. CASE Tick
  BY <1>4 DEF Tick, HeadersInv
<1>5. CASE UNCHANGED <<windows, now, told, comeBack, admitted>>
  BY <1>5 DEF HeadersInv
<1>. QED
  BY <1>2, <1>3, <1>4, <1>5 DEF LimiterStep, HeadersInv

LEMMA HeadersFollow ==
  ASSUME LimiterTypeOK, HeadersInv
  PROVE  HeadersHonest
<1>1. ASSUME NEW k \in Keys, comeBack[k] # Never, now >= comeBack[k]
      PROVE  k \notin Live(windows, now)
  <2>1. windows[k].start \in Nat /\ now \in Nat /\ comeBack[k] \in Nat /\ Window \in Nat
    BY <1>1, LimitsPositive DEF LimiterTypeOK, Entries
  <2>. QED
    BY <1>1, <2>1 DEF HeadersInv, Live, Stored
<1>2. ASSUME NEW k \in Live(windows, now), told[k] > 0
      PROVE  windows[k].count + told[k] <= Limit[k[2]]
  BY <1>2 DEF HeadersInv, Live, Stored
<1>. QED
  BY <1>1, <1>2 DEF HeadersHonest

-----------------------------------------------------------------------------
(***************************************************************************)
(* Eviction.  A key that finds no window of its own drops the expired ones *)
(* first; an oldest window goes only when the live ones fill the storage.  *)
(***************************************************************************)
StoreInv == Cardinality(Stored(windows)) <= MaxEntries

\* What a step may do to the live windows.
KeepsLive ==
    \A k \in Live(windows, now) :
        windows'[k] = Absent =>
            /\ Cardinality(Live(windows, now)) = MaxEntries
            /\ \A l \in Stored(windows') : windows[k].start <= windows'[l].start

LEMMA StoredFinite ==
  ASSUME NEW w
  PROVE  IsFiniteSet(Keys) /\ IsFiniteSet(Stored(w)) /\ Cardinality(Stored(w)) \in Nat
<1>1. IsFiniteSet({"standard", "expensive"})
  <2>1. IsFiniteSet({"standard"}) /\ {"standard", "expensive"} = {"standard"} \cup {"expensive"}
    BY FS_Singleton
  <2>2. IsFiniteSet({"standard"} \cup {"expensive"})
    BY <2>1, FS_AddElement
  <2>. QED
    BY <2>1, <2>2
<1>2. IsFiniteSet(Keys)
  BY <1>1, FS_Product, RequestsAssumption DEF Keys, Buckets
<1>3. Stored(w) \subseteq Keys
  BY DEF Stored
<1>4. IsFiniteSet(Stored(w))
  BY <1>2, <1>3, FS_Subset
<1>. QED
  BY <1>2, <1>4, FS_CardinalityType

LEMMA LiveAreStored ==
  ASSUME LimiterTypeOK
  PROVE  /\ Live(windows, now) = {k \in Keys : Alive(k)}
         /\ Live(windows, now) = Stored(Cleanup(windows, now))
         /\ IsFiniteSet(Live(windows, now)) /\ Cardinality(Live(windows, now)) \in Nat
         /\ Cardinality(Live(windows, now)) <= Cardinality(Stored(windows))
<1>1. Live(windows, now) = {k \in Keys : Alive(k)}
  BY DEF Live, Stored, Alive
<1>2. Live(windows, now) = Stored(Cleanup(windows, now))
  BY <1>1, CleanupKeepsLive DEF Stored, Alive
<1>3. Live(windows, now) \subseteq Stored(windows)
  BY DEF Live
<1>. QED
  BY <1>1, <1>2, <1>3, StoredFinite, FS_Subset, FS_CardinalityType

LEMMA EvictionKeepsLive ==
  ASSUME LimiterTypeOK, WindowsInv, StoreInv, NEW k \in Keys, windows' \in Increment(k), now' = now
  PROVE  StoreInv' /\ KeepsLive
<1>. DEFINE C == Cleanup(windows, now)
            L == Live(windows, now)
<1>1. PICK w \in MakeRoom(C, k) :
        windows' = [w EXCEPT ![k] = Bump(IF w[k] = Absent THEN [start |-> now, count |-> 0] ELSE w[k], now)]
  BY DEF Increment
<1>2. C \in [Keys -> Entries] /\ now \in Nat /\ windows \in [Keys -> Entries]
  BY DEF Cleanup, LimiterTypeOK, Entries, Absent
<1>3. L = Stored(C) /\ L = {l \in Keys : Alive(l)} /\ \A l \in Keys : C[l] = IF Alive(l) THEN windows[l] ELSE Absent
  BY LiveAreStored, CleanupKeepsLive
<1>4. IsFiniteSet(L) /\ Cardinality(L) \in Nat /\ Cardinality(L) <= MaxEntries /\ MaxEntries \in Nat \ {0}
  BY LiveAreStored, StoredFinite, LimitsPositive DEF StoreInv
<1>5. /\ windows' \in [Keys -> Entries] /\ windows'[k] # Absent
      /\ ~Alive(k) => windows'[k].start = now
  <2>1. Incremented(k)
    BY IncrementSteps
  <2>2. windows'[k].count >= 1
    BY <1>2, <2>1 DEF Incremented, Alive, WindowsInv, Entries
  <2>. QED
    BY <1>2, <2>1, <2>2 DEF Incremented, Entries, Absent
<1>6. \A l \in Keys \ {k} : windows'[l] = w[l]
  <2>1. w \in [Keys -> Entries]
    BY <1>2 DEF MakeRoom, Absent, Entries
  <2>. QED
    BY <1>1, <2>1
<1>. HIDE DEF C, L
<1>7. CASE C[k] # Absent
  <2>1. w = C
    BY <1>1, <1>7 DEF MakeRoom
  <2>2. Stored(windows') = L
    BY <1>3, <1>5, <1>6, <1>7, <2>1 DEF Stored
  <2>. QED
    BY <1>4, <2>2 DEF StoreInv, KeepsLive, L, Stored
<1>8. CASE C[k] = Absent /\ ~(Cardinality(Stored(C)) >= MaxEntries)
  <2>1. w = C
    BY <1>1, <1>8 DEF MakeRoom
  <2>2. Stored(windows') = L \cup {k}
    <3>1. \A l \in Keys : windows'[l] # Absent <=> (C[l] # Absent \/ l = k)
      BY <1>5, <1>6, <2>1
    <3>. QED
      BY <1>3, <3>1 DEF Stored
  <2>3. Cardinality(L \cup {k}) <= MaxEntries
    <3>1. Cardinality(L) < MaxEntries
      BY <1>3, <1>4, <1>8
    <3>2. Cardinality(L \cup {k}) <= Cardinality(L) + 1
      BY <1>4, FS_AddElement
    <3>3. Cardinality(L \cup {k}) \in Nat
      BY <1>4, FS_AddElement, FS_CardinalityType
    <3>. QED
      BY <1>4, <3>1, <3>2, <3>3
  <2>. QED
    BY <2>2, <2>3 DEF StoreInv, KeepsLive, L, Stored
<1>9. CASE C[k] = Absent /\ Cardinality(Stored(C)) >= MaxEntries
  <2>1. PICK o \in Oldest(C) : w = [C EXCEPT ![o] = Absent]
    BY <1>1, <1>9 DEF MakeRoom
  <2>2. o \in L /\ o # k /\ o \in Keys
    BY <1>3, <1>9 DEF Oldest, Stored
  <2>3. \A l \in Keys : w[l] = IF l = o THEN Absent ELSE C[l]
    BY <1>2, <2>1
  <2>4. Stored(windows') = (L \ {o}) \cup {k}
    BY <1>3, <1>5, <1>6, <1>9, <2>2, <2>3 DEF Stored
  <2>5. k \notin L
    BY <1>3, <1>9 DEF Stored
  <2>6. Cardinality((L \ {o}) \cup {k}) = Cardinality(L)
    <3>1. IsFiniteSet(L \ {o}) /\ Cardinality(L \ {o}) = Cardinality(L) - 1
      BY <1>4, <2>2, FS_RemoveElement
    <3>2. Cardinality((L \ {o}) \cup {k}) = Cardinality(L \ {o}) + 1
      BY <2>5, <3>1, FS_AddElement
    <3>. QED
      BY <1>4, <3>1, <3>2
  <2>7. Cardinality(L) = MaxEntries
    BY <1>3, <1>4, <1>9
  <2>8. ASSUME NEW l \in L, windows'[l] = Absent, NEW m \in Stored(windows')
        PROVE  windows[l].start <= windows'[m].start
    <3>1. l = o
      BY <1>3, <1>5, <1>6, <2>3, <2>4, <2>8 DEF Stored
    <3>2. windows[o] = C[o] /\ windows[o].start <= now
      BY <1>3, <2>2 DEF WindowsInv, Alive
    <3>3. CASE m = k
      BY <1>3, <1>5, <2>5, <3>1, <3>2, <3>3
    <3>4. CASE m # k
      <4>1. m \in L /\ m # o
        BY <2>4, <3>4
      <4>2. windows'[m] = C[m]
        BY <1>3, <1>6, <2>3, <3>4, <4>1
      <4>3. C[o].start <= C[m].start
        BY <1>3, <2>1, <4>1 DEF Oldest
      <4>. QED
        BY <3>1, <3>2, <4>2, <4>3
    <3>. QED
      BY <3>3, <3>4
  <2>. QED
    BY <1>4, <2>4, <2>6, <2>7, <2>8 DEF StoreInv, KeepsLive, L
<1>. QED
  BY <1>7, <1>8, <1>9

LEMMA StoreNext ==
  ASSUME LimiterTypeOK, WindowsInv, StoreInv, LimiterStep
  PROVE  StoreInv' /\ KeepsLive
<1>1. ASSUME NEW k \in Keys, Admit(k) \/ Refuse(k) PROVE StoreInv' /\ KeepsLive
  BY <1>1, EvictionKeepsLive DEF Admit, Refuse
<1>2. CASE windows' = windows
  BY <1>2 DEF StoreInv, KeepsLive, Live, Stored
<1>. QED
  BY <1>1, <1>2 DEF LimiterStep, Tick

LEMMA StoreInit == LimiterInit => StoreInv
<1>. SUFFICES ASSUME LimiterInit PROVE StoreInv
  OBVIOUS
<1>1. Stored(windows) = {}
  BY DEF LimiterInit, Stored
<1>2. Cardinality({}) = 0
  BY FS_EmptySet
<1>. QED
  BY <1>1, <1>2, LimitsPositive DEF StoreInv

-----------------------------------------------------------------------------
(***************************************************************************)
(* Bursts.  Every admission belongs to the window it was counted in; s[i]  *)
(* is when the window of admission a[i] opened.  Windows follow each other *)
(* at least a Window apart; one window lets L requests through, the first  *)
(* when it opens, and its counter has room for no more than L of them.     *)
(***************************************************************************)
OpenAt(e, t) == e # Absent /\ t - e.start < Window

Dated(a, s, e, t, L) ==
    /\ a \in Seq(Nat) /\ s \in Seq(Nat) /\ Len(s) = Len(a)
    /\ \A i \in 1..Len(a) : s[i] <= a[i] /\ a[i] < s[i] + Window /\ a[i] <= t
    /\ \A i, j \in 1..Len(a) : i <= j => s[i] = s[j] \/ s[i] + Window <= s[j]
    /\ \A i, j \in 1..Len(a) : j = i + L => s[j] # s[i]
    /\ \A i, j \in 1..Len(a) : j = i + L - 1 /\ a[i] # s[i] => s[j] # s[i]
    /\ ~OpenAt(e, t) => \A i \in 1..Len(a) : s[i] + Window <= t
    /\ OpenAt(e, t) => \A i \in 1..Len(a) :
           /\ s[i] = e.start \/ s[i] + Window <= e.start
           /\ s[i] = e.start => /\ Len(a) - i + 1 <= e.count
                                /\ a[i] # s[i] => Len(a) - i + 2 <= e.count

BurstInv ==
    \A k \in Keys :
        /\ Len(admitted[k]) <= 2 * Limit[k[2]]
        /\ \E s : Dated(admitted[k], s, windows[k], now, Limit[k[2]])

\* Time passes.
LEMMA DatedLater ==
  ASSUME NEW a, NEW s, NEW e \in Entries, NEW t \in Nat, NEW L \in Nat \ {0}, Dated(a, s, e, t, L),
         NEW u \in Nat, t <= u, e # Absent => e.start <= t
  PROVE  Dated(a, s, e, u, L)
<1>1. Window \in Nat \ {0} /\ e.start \in Nat
  BY LimitsPositive DEF Entries
<1>2. OpenAt(e, u) => OpenAt(e, t)
  BY <1>1 DEF OpenAt
<1>3. ASSUME ~OpenAt(e, u), NEW i \in 1..Len(a) PROVE s[i] + Window <= u
  <2>1. s[i] \in Nat
    BY DEF Dated
  <2>2. CASE OpenAt(e, t)
    <3>1. e.start + Window <= u
      BY <1>1, <1>3, <2>2 DEF OpenAt
    <3>2. s[i] = e.start \/ s[i] + Window <= e.start
      BY <2>2 DEF Dated
    <3>. QED
      BY <1>1, <2>1, <3>1, <3>2
  <2>3. CASE ~OpenAt(e, t)
    BY <1>1, <2>1, <2>3 DEF Dated
  <2>. QED
    BY <2>2, <2>3
<1>4. \A i \in 1..Len(a) : a[i] <= u
  BY DEF Dated
<1>. QED
  BY <1>2, <1>3, <1>4 DEF Dated

\* A window that has run out is dropped.
LEMMA DatedDropped ==
  ASSUME NEW a, NEW s, NEW e, NEW t, NEW L, Dated(a, s, e, t, L), ~OpenAt(e, t)
  PROVE  Dated(a, s, Absent, t, L)
BY DEF Dated, OpenAt

\* A refused request is counted in a window that stays.
LEMMA DatedCounted ==
  ASSUME NEW a, NEW s, NEW e \in Entries, NEW t, NEW L, Dated(a, s, e, t, L), OpenAt(e, t)
  PROVE  Dated(a, s, [e EXCEPT !.count = @ + 1], t, L)
<1>. DEFINE f == [e EXCEPT !.count = @ + 1]
<1>1. f.start = e.start /\ f.count = e.count + 1 /\ e.count \in Nat
  BY DEF Entries
<1>2. OpenAt(f, t)
  BY <1>1 DEF OpenAt, Absent
<1>. HIDE DEF f
<1>3. ASSUME NEW i \in 1..Len(a)
      PROVE  /\ s[i] = f.start \/ s[i] + Window <= f.start
             /\ s[i] = f.start => /\ Len(a) - i + 1 <= f.count
                                  /\ a[i] # s[i] => Len(a) - i + 2 <= f.count
  <2>1. a \in Seq(Nat) /\ Len(a) \in Nat /\ i \in Nat
    BY DEF Dated
  <2>. QED
    BY <1>1, <2>1 DEF Dated
<1>4. Dated(a, s, f, t, L)
  BY <1>2, <1>3 DEF Dated
<1>. QED
  BY <1>4 DEF f

\* The oldest admission need not be remembered.
LEMMA DatedShorter ==
  ASSUME NEW a, NEW s, NEW e \in Entries, NEW t \in Nat, NEW L \in Nat \ {0}, Dated(a, s, e, t, L), a # <<>>
  PROVE  Dated(Tail(a), Tail(s), e, t, L)
<1>1. a \in Seq(Nat) /\ s \in Seq(Nat) /\ Len(s) = Len(a) /\ Len(a) \in Nat \ {0} /\ s # <<>>
  BY EmptySeq DEF Dated
<1>. DEFINE b == Tail(a)
            r == Tail(s)
<1>2. b \in Seq(Nat) /\ r \in Seq(Nat) /\ Len(b) = Len(a) - 1 /\ Len(r) = Len(b)
  BY <1>1, HeadTailProperties
<1>3. \A i \in 1..Len(b) : i + 1 \in 1..Len(a) /\ b[i] = a[i+1] /\ r[i] = s[i+1]
  BY <1>1, <1>2, HeadTailProperties
<1>. HIDE DEF b, r
<1>4. \A i \in 1..Len(b) : r[i] <= b[i] /\ b[i] < r[i] + Window /\ b[i] <= t
  BY <1>3 DEF Dated
<1>5. \A i, j \in 1..Len(b) : i <= j => r[i] = r[j] \/ r[i] + Window <= r[j]
  <2>1. SUFFICES ASSUME NEW i \in 1..Len(b), NEW j \in 1..Len(b), i <= j
                 PROVE  r[i] = r[j] \/ r[i] + Window <= r[j]
    OBVIOUS
  <2>2. i + 1 <= j + 1 /\ i + 1 \in 1..Len(a) /\ j + 1 \in 1..Len(a)
    BY <1>2, <1>3, <2>1
  <2>3. s[i+1] = s[j+1] \/ s[i+1] + Window <= s[j+1]
    BY <2>2 DEF Dated
  <2>. QED
    BY <1>3, <2>3
<1>6. \A i, j \in 1..Len(b) : j = i + L => r[j] # r[i]
  <2>1. SUFFICES ASSUME NEW i \in 1..Len(b), NEW j \in 1..Len(b), j = i + L
                 PROVE  r[j] # r[i]
    OBVIOUS
  <2>2. j + 1 = (i + 1) + L /\ i + 1 \in 1..Len(a) /\ j + 1 \in 1..Len(a)
    BY <1>2, <1>3, <2>1
  <2>3. s[j+1] # s[i+1]
    BY <2>2 DEF Dated
  <2>. QED
    BY <1>3, <2>3
<1>7. \A i, j \in 1..Len(b) : j = i + L - 1 /\ b[i] # r[i] => r[j] # r[i]
  <2>1. SUFFICES ASSUME NEW i \in 1..Len(b), NEW j \in 1..Len(b), j = i + L - 1, b[i] # r[i]
                 PROVE  r[j] # r[i]
    OBVIOUS
  <2>2. j + 1 = (i + 1) + L - 1 /\ i + 1 \in 1..Len(a) /\ j + 1 \in 1..Len(a) /\ a[i+1] # s[i+1]
    BY <1>2, <1>3, <2>1
  <2>3. s[j+1] # s[i+1]
    BY <2>2 DEF Dated
  <2>. QED
    BY <1>3, <2>3
<1>8. ~OpenAt(e, t) => \A i \in 1..Len(b) : r[i] + Window <= t
  BY <1>3 DEF Dated
<1>9. ASSUME OpenAt(e, t), NEW i \in 1..Len(b)
      PROVE  /\ r[i] = e.start \/ r[i] + Window <= e.start
             /\ r[i] = e.start => /\ Len(b) - i + 1 <= e.count
                                  /\ b[i] # r[i] => Len(b) - i + 2 <= e.count
  <2>1. Len(a) - (i + 1) + 1 = Len(b) - i + 1 /\ Len(a) - (i + 1) + 2 = Len(b) - i + 2
    BY <1>1, <1>2
  <2>2. i + 1 \in 1..Len(a) /\ b[i] = a[i+1] /\ r[i] = s[i+1]
    BY <1>3
  <2>. QED
    BY <1>9, <2>1, <2>2 DEF Dated
<1>10. Dated(b, r, e, t, L)
  BY <1>2, <1>4, <1>5, <1>6, <1>7, <1>8, <1>9 DEF Dated
<1>. QED
  BY <1>10 DEF b, r

\* A request that is let through is counted: in the window that is open, or in
\* one that opens with it.
Charged(e, t) == IF OpenAt(e, t) THEN [e EXCEPT !.count = @ + 1] ELSE [start |-> t, count |-> 1]

LEMMA DatedLonger ==
  ASSUME NEW a, NEW s, NEW e \in Entries, NEW t \in Nat, NEW L \in Nat \ {0}, Dated(a, s, e, t, L),
         e # Absent => e.start <= t /\ e.count >= 1, Charged(e, t).count <= L
  PROVE  Dated(Append(a, t), Append(s, Charged(e, t).start), Charged(e, t), t, L)
<1>. DEFINE f == Charged(e, t)
            b == Append(a, t)
            r == Append(s, f.start)
            n == Len(a)
<1>1. Window \in Nat \ {0} /\ e.start \in Nat /\ e.count \in Nat
  BY LimitsPositive DEF Entries
<1>2. f = [start |-> IF OpenAt(e, t) THEN e.start ELSE t, count |-> IF OpenAt(e, t) THEN e.count + 1 ELSE 1]
  BY DEF Charged, Entries
<1>3. f.start \in Nat /\ f.start <= t /\ t < f.start + Window /\ f.count \in Nat
  BY <1>1, <1>2 DEF OpenAt
<1>4. OpenAt(f, t)
  BY <1>1, <1>2, <1>3 DEF OpenAt, Absent
<1>5. a \in Seq(Nat) /\ s \in Seq(Nat) /\ n \in Nat /\ Len(s) = n
  BY DEF Dated
<1>6. b \in Seq(Nat) /\ Len(b) = n + 1 /\ b[n + 1] = t /\ \A i \in 1..n : b[i] = a[i]
  BY <1>5, AppendProperties
<1>7. r \in Seq(Nat) /\ Len(r) = n + 1 /\ r[n + 1] = f.start /\ \A i \in 1..n : r[i] = s[i]
  <2>. HIDE DEF f
  <2>. QED
    BY <1>3, <1>5, AppendProperties
<1>8. \A i \in 1..(n + 1) : i \in 1..n \/ i = n + 1
  BY <1>5
<1>9. \A i \in 1..n : s[i] \in Nat /\ a[i] \in Nat
  BY <1>5
<1>10. ASSUME NEW i \in 1..n
       PROVE  /\ s[i] = f.start \/ s[i] + Window <= f.start
              /\ s[i] = f.start => /\ OpenAt(e, t)
                                   /\ n - i + 2 <= f.count
                                   /\ a[i] # s[i] => n - i + 3 <= f.count
  <2>1. CASE OpenAt(e, t)
    <3>1. f.start = e.start /\ f.count = e.count + 1
      BY <1>2, <2>1
    <3>2. /\ s[i] = e.start \/ s[i] + Window <= e.start
          /\ s[i] = e.start => /\ n - i + 1 <= e.count
                               /\ a[i] # s[i] => n - i + 2 <= e.count
      BY <2>1 DEF Dated
    <3>. QED
      BY <1>1, <1>5, <2>1, <3>1, <3>2
  <2>2. CASE ~OpenAt(e, t)
    <3>1. s[i] + Window <= t /\ f.start = t
      BY <1>2, <2>2 DEF Dated
    <3>. QED
      BY <1>1, <1>9, <3>1
  <2>. QED
    BY <2>1, <2>2
<1>11. f.count <= L
  OBVIOUS
<1>. HIDE DEF f, b, r, n
<1>12. ASSUME NEW i \in 1..(n + 1)
       PROVE  r[i] <= b[i] /\ b[i] < r[i] + Window /\ b[i] <= t
  <2>1. CASE i \in 1..n
    <3>1. s[i] <= a[i] /\ a[i] < s[i] + Window /\ a[i] <= t
      BY <2>1 DEF Dated, n
    <3>. QED
      BY <1>6, <1>7, <2>1, <3>1
  <2>2. CASE i = n + 1
    <3>1. b[i] = t /\ r[i] = f.start
      BY <1>6, <1>7, <2>2
    <3>. QED
      BY <1>3, <3>1
  <2>. QED
    BY <1>8, <2>1, <2>2
<1>13. ASSUME NEW i \in 1..(n + 1), NEW j \in 1..(n + 1), i <= j
       PROVE  r[i] = r[j] \/ r[i] + Window <= r[j]
  <2>1. CASE j \in 1..n
    <3>1. i \in 1..n
      BY <1>5, <1>13, <2>1
    <3>2. s[i] = s[j] \/ s[i] + Window <= s[j]
      BY <1>13, <2>1, <3>1 DEF Dated, n
    <3>. QED
      BY <1>7, <2>1, <3>1, <3>2
  <2>2. CASE j = n + 1 /\ i \in 1..n
    BY <1>7, <1>10, <2>2
  <2>3. CASE j = n + 1 /\ i = n + 1
    BY <2>3
  <2>. QED
    BY <1>8, <2>1, <2>2, <2>3
<1>14. ASSUME NEW i \in 1..(n + 1), NEW j \in 1..(n + 1), j = i + L
       PROVE  r[j] # r[i]
  <2>1. i \in 1..n
    BY <1>5, <1>14
  <2>2. CASE j \in 1..n
    <3>1. s[j] # s[i]
      BY <1>14, <2>1, <2>2 DEF Dated, n
    <3>. QED
      BY <1>7, <2>1, <2>2, <3>1
  <2>3. CASE j = n + 1
    <3>1. n - i + 2 = L + 1
      BY <1>5, <1>14, <2>1, <2>3
    <3>2. s[i] # f.start
      BY <1>3, <1>10, <1>11, <2>1, <3>1
    <3>. QED
      BY <1>7, <2>1, <2>3, <3>2
  <2>. QED
    BY <1>8, <2>2, <2>3
<1>15. ASSUME NEW i \in 1..(n + 1), NEW j \in 1..(n + 1), j = i + L - 1, b[i] # r[i]
       PROVE  r[j] # r[i]
  <2>1. CASE j \in 1..n
    <3>1. i \in 1..n /\ a[i] # s[i]
      <4>1. i \in 1..n
        BY <1>5, <1>15, <2>1
      <4>. QED
        BY <1>6, <1>7, <1>15, <4>1
    <3>2. s[j] # s[i]
      BY <1>15, <2>1, <3>1 DEF Dated, n
    <3>. QED
      BY <1>7, <2>1, <3>1, <3>2
  <2>2. CASE j = n + 1 /\ i \in 1..n
    <3>1. a[i] # s[i] /\ n - i + 3 = L + 1
      BY <1>5, <1>6, <1>7, <1>15, <2>2
    <3>2. s[i] # f.start
      BY <1>3, <1>10, <1>11, <2>2, <3>1
    <3>. QED
      BY <1>7, <2>2, <3>2
  <2>3. CASE i = n + 1 /\ j = n + 1
    <3>1. t # f.start
      BY <1>6, <1>7, <1>15, <2>3
    <3>2. OpenAt(e, t)
      BY <1>2, <3>1
    <3>3. L = 1 /\ f.count = e.count + 1
      BY <1>2, <1>5, <1>15, <2>3, <3>2
    <3>4. e.count >= 1
      BY <3>2 DEF OpenAt
    <3>. QED
      BY <1>1, <1>11, <3>3, <3>4
  <2>. QED
    BY <1>5, <1>8, <1>15, <2>1, <2>2, <2>3
<1>16. ASSUME NEW i \in 1..(n + 1)
       PROVE  /\ r[i] = f.start \/ r[i] + Window <= f.start
              /\ r[i] = f.start => /\ (n + 1) - i + 1 <= f.count
                                   /\ b[i] # r[i] => (n + 1) - i + 2 <= f.count
  <2>1. CASE i \in 1..n
    <3>1. (n + 1) - i + 1 = n - i + 2 /\ (n + 1) - i + 2 = n - i + 3
      BY <1>5, <2>1
    <3>. QED
      BY <1>6, <1>7, <1>10, <2>1, <3>1
  <2>2. CASE i = n + 1
    <3>1. (n + 1) - i + 1 = 1 /\ (n + 1) - i + 2 = 2
      BY <1>5, <2>2
    <3>2. f.count >= 1
      BY <1>1, <1>2
    <3>3. b[i] # r[i] => f.count >= 2
      <4>1. SUFFICES ASSUME t # f.start PROVE f.count >= 2
        BY <1>6, <1>7, <2>2
      <4>2. OpenAt(e, t)
        BY <1>2, <4>1
      <4>. QED
        BY <1>1, <1>2, <4>2 DEF OpenAt
    <3>. QED
      BY <1>7, <2>2, <3>1, <3>2, <3>3
  <2>. QED
    BY <1>8, <2>1, <2>2
<1>17. Dated(b, r, f, t, L)
  BY <1>4, <1>6, <1>7, <1>12, <1>13, <1>14, <1>15, <1>16 DEF Dated
<1>. QED
  BY <1>17 DEF b, r, f

LEMMA Lengths ==
  ASSUME NEW times \in Seq(Nat), NEW t \in Nat
  PROVE  /\ Append(times, t) # <<>>
         /\ Len(Append(times, t)) = Len(times) + 1
         /\ Len(Tail(Append(times, t))) = Len(times)
<1>1. Append(times, t) \in Seq(Nat) /\ Append(times, t) # <<>> /\ Len(Append(times, t)) = Len(times) + 1
  BY AppendProperties
<1>2. Len(Tail(Append(times, t))) = Len(Append(times, t)) - 1
  BY <1>1, HeadTailProperties
<1>. QED
  BY <1>1, <1>2, LenProperties

LEMMA OneStep ==
  ASSUME NEW p \in Nat, NEW y \in Nat, NEW q \in Nat, NEW r \in Nat, NEW w \in Nat,
         p + w <= q, q = r \/ q + w <= r, r <= y
  PROVE  y - p >= w
OBVIOUS

LEMMA TwoSteps ==
  ASSUME NEW x \in Nat, NEW y \in Nat, NEW p \in Nat, NEW q \in Nat, NEW r \in Nat, NEW w \in Nat,
         x < p + w, p + w <= q, q + w <= r, r <= y
  PROVE  y - x >= w
OBVIOUS

\* Between the first and the last of 2 * L admissions in a row lies a window.
LEMMA DatedApart ==
  ASSUME NEW a, NEW s, NEW e, NEW t \in Nat, NEW L \in Nat \ {0}, Dated(a, s, e, t, L), Len(a) = 2 * L
  PROVE  a[2 * L] - a[1] >= Window
<1>1. Window \in Nat \ {0} /\ a \in Seq(Nat) /\ s \in Seq(Nat) /\ Len(s) = 2 * L
  BY LimitsPositive DEF Dated
<1>2. 1 \in 1..Len(a) /\ L \in 1..Len(a) /\ 1 + L \in 1..Len(a) /\ 2 * L \in 1..Len(a)
  OBVIOUS
<1>3. a[1] \in Nat /\ a[2 * L] \in Nat /\ s[1] \in Nat /\ s[L] \in Nat /\ s[1 + L] \in Nat /\ s[2 * L] \in Nat
  BY <1>1, <1>2
<1>4. s[1] <= a[1] /\ a[1] < s[1] + Window /\ s[2 * L] <= a[2 * L]
  BY <1>2 DEF Dated
<1>5. CASE a[1] = s[1]
  <2>1. s[1 + L] # s[1]
    BY <1>2 DEF Dated
  <2>2. s[1] = s[1 + L] \/ s[1] + Window <= s[1 + L]
    <3>1. 1 <= 1 + L
      OBVIOUS
    <3>. QED
      BY <1>2, <3>1 DEF Dated
  <2>3. s[1 + L] = s[2 * L] \/ s[1 + L] + Window <= s[2 * L]
    <3>1. 1 + L <= 2 * L
      OBVIOUS
    <3>. QED
      BY <1>2, <3>1 DEF Dated
  <2>4. s[1] + Window <= s[1 + L]
    BY <2>1, <2>2
  <2>. QED
    BY <1>1, <1>3, <1>4, <1>5, <2>3, <2>4, OneStep
<1>6. CASE a[1] # s[1]
  <2>1. s[L] # s[1]
    <3>1. L = 1 + L - 1
      OBVIOUS
    <3>. QED
      BY <1>2, <1>6, <3>1 DEF Dated
  <2>2. s[1] = s[L] \/ s[1] + Window <= s[L]
    <3>1. 1 <= L
      OBVIOUS
    <3>. QED
      BY <1>2, <3>1 DEF Dated
  <2>3. s[2 * L] # s[L]
    <3>1. 2 * L = L + L
      OBVIOUS
    <3>. QED
      BY <1>2, <3>1 DEF Dated
  <2>4. s[L] = s[2 * L] \/ s[L] + Window <= s[2 * L]
    <3>1. L <= 2 * L
      OBVIOUS
    <3>. QED
      BY <1>2, <3>1 DEF Dated
  <2>5. s[1] + Window <= s[L] /\ s[L] + Window <= s[2 * L]
    BY <2>1, <2>2, <2>3, <2>4
  <2>. QED
    BY <1>1, <1>3, <1>4, <2>5, TwoSteps
<1>. QED
  BY <1>5, <1>6

LEMMA BurstFollows ==
  ASSUME LimiterTypeOK, BurstInv
  PROVE  BurstBounded
<1>1. ASSUME NEW k \in Keys, Len(admitted[k]) = 2 * Limit[k[2]]
      PROVE  admitted[k][2 * Limit[k[2]]] - admitted[k][1] >= Window
  <2>1. PICK s : Dated(admitted[k], s, windows[k], now, Limit[k[2]])
    BY DEF BurstInv
  <2>2. Limit[k[2]] \in Nat \ {0} /\ now \in Nat
    BY LimitsPositive DEF LimiterTypeOK
  <2>. QED
    BY <1>1, <2>1, <2>2, DatedApart
<1>. QED
  BY <1>1 DEF BurstBounded

LEMMA BurstNext ==
  ASSUME LimiterTypeOK, WindowsInv, BurstInv, LimiterStep
  PROVE  BurstInv'
<1>. USE DEF LimiterTypeOK
<1>1. \A k \in Keys : Alive(k) <=> OpenAt(windows[k], now)
  BY DEF Alive, OpenAt
<1>2. ASSUME NEW k \in Keys, Admit(k), NEW l \in Keys
      PROVE  /\ Len(admitted'[l]) <= 2 * Limit[l[2]]
             /\ \E s : Dated(admitted'[l], s, windows'[l], now', Limit[l[2]])
  <2>1. Incremented(k) /\ now' = now
    BY <1>2, IncrementSteps DEF Admit
  <2>2. Limit[l[2]] \in Nat \ {0} /\ windows[l] \in Entries
    BY LimitsPositive
  <2>3. PICK s : Dated(admitted[l], s, windows[l], now, Limit[l[2]])
    BY DEF BurstInv
  <2>4. CASE l = k
    <3>. DEFINE e == Charged(windows[k], now)
                a == Append(admitted[k], now)
                r == Append(s, e.start)
    <3>1. windows'[k] = e
      BY <1>1, <2>1 DEF Incremented, Charged
    <3>2. e.count <= Limit[k[2]]
      BY <1>2, <3>1 DEF Admit
    <3>3. Dated(a, r, e, now, Limit[k[2]])
      <4>1. windows[k] # Absent => windows[k].start <= now /\ windows[k].count >= 1
        BY DEF WindowsInv
      <4>2. Dated(admitted[k], s, windows[k], now, Limit[k[2]]) /\ windows[k] \in Entries /\ now \in Nat
        BY <2>3, <2>4
      <4>3. Limit[k[2]] \in Nat \ {0}
        BY LimitsPositive
      <4>. DEFINE w == windows[k]
                  A == admitted[k]
                  M == Limit[k[2]]
      <4>4. /\ Dated(A, s, w, now, M) /\ w \in Entries /\ now \in Nat /\ M \in Nat \ {0}
            /\ Charged(w, now).count <= M /\ (w # Absent => w.start <= now /\ w.count >= 1)
        BY <3>2, <4>1, <4>2, <4>3
      <4>. HIDE DEF w, A, M, a, r, e
      <4>5. Dated(Append(A, now), Append(s, Charged(w, now).start), Charged(w, now), now, M)
        BY <4>4, DatedLonger
      <4>. QED
        BY <4>5 DEF w, A, M, a, r, e
    <3>4. admitted'[k] = IF Len(a) > 2 * Limit[k[2]] THEN Tail(a) ELSE a
      BY <1>2 DEF Admit, Remember
    <3>5. admitted[k] \in Seq(Nat) /\ Len(admitted[k]) <= 2 * Limit[k[2]]
      BY DEF BurstInv
    <3>6. a # <<>> /\ Len(a) = Len(admitted[k]) + 1 /\ Len(Tail(a)) = Len(admitted[k])
      BY <3>5, Lengths
    <3>7. e \in Entries
      BY <2>1, <3>1 DEF Incremented
    <3>. HIDE DEF e, a, r
    <3>8. Dated(Tail(a), Tail(r), e, now, Limit[k[2]])
      BY <2>2, <2>4, <3>3, <3>6, <3>7, DatedShorter
    <3>. QED
      BY <2>1, <2>2, <2>4, <3>1, <3>3, <3>4, <3>5, <3>6, <3>8
  <2>5. CASE l # k /\ l \in Forgotten
    <3>1. admitted'[l] = <<>> /\ windows'[l] = Absent
      BY <1>2, <2>5 DEF Admit, Forgotten
    <3>2. Dated(<<>>, <<>>, Absent, now, Limit[l[2]])
      <4>1. <<>> \in Seq(Nat) /\ Len(<<>>) = 0 /\ 1..Len(<<>>) = {}
        OBVIOUS
      <4>. QED
        BY <4>1 DEF Dated
    <3>3. Len(<<>>) <= 2 * Limit[l[2]]
      BY <2>2
    <3>. QED
      BY <2>1, <3>1, <3>2, <3>3
  <2>6. CASE l # k /\ l \notin Forgotten
    <3>1. admitted'[l] = admitted[l]
      BY <1>2, <2>6 DEF Admit
    <3>2. windows'[l] = windows[l] \/ (windows'[l] = Absent /\ ~Alive(l))
      BY <1>1, <2>1, <2>6, LiveAreStored DEF Incremented, Forgotten
    <3>3. Dated(admitted[l], s, windows'[l], now, Limit[l[2]])
      BY <1>1, <2>3, <3>2, DatedDropped
    <3>. QED
      BY <2>1, <3>1, <3>3 DEF BurstInv
  <2>. QED
    BY <2>4, <2>5, <2>6
<1>3. ASSUME NEW k \in Keys, Refuse(k), NEW l \in Keys
      PROVE  /\ Len(admitted'[l]) <= 2 * Limit[l[2]]
             /\ \E s : Dated(admitted'[l], s, windows'[l], now', Limit[l[2]])
  <2>1. Incremented(k) /\ now' = now /\ admitted' = admitted /\ windows'[k].count > Limit[k[2]]
    BY <1>3, IncrementSteps DEF Refuse
  <2>2. Alive(k)
    BY <2>1, LimitsPositive DEF Incremented
  <2>3. windows[l] \in Entries
    OBVIOUS
  <2>4. PICK s : Dated(admitted[l], s, windows[l], now, Limit[l[2]])
    BY DEF BurstInv
  <2>5. CASE l = k
    <3>1. windows'[k] = [windows[k] EXCEPT !.count = @ + 1]
      BY <2>1, <2>2 DEF Incremented
    <3>2. Dated(admitted[k], s, windows'[k], now, Limit[k[2]])
      BY <1>1, <2>2, <2>3, <2>4, <2>5, <3>1, DatedCounted
    <3>. QED
      BY <2>1, <2>5, <3>2 DEF BurstInv
  <2>6. CASE l # k
    <3>1. windows'[l] = windows[l] \/ (windows'[l] = Absent /\ ~Alive(l))
      BY <2>1, <2>2, <2>6 DEF Incremented
    <3>2. Dated(admitted[l], s, windows'[l], now, Limit[l[2]])
      BY <1>1, <2>4, <3>1, DatedDropped
    <3>. QED
      BY <2>1, <3>2 DEF BurstInv
  <2>. QED
    BY <2>5, <2>6
<1>4. CASE Tick
  <2>1. ASSUME NEW l \in Keys
        PROVE  \E s : Dated(admitted[l], s, windows[l], now + 1, Limit[l[2]])
    <3>1. PICK s : Dated(admitted[l], s, windows[l], now, Limit[l[2]])
      BY DEF BurstInv
    <3>2. windows[l] \in Entries /\ now \in Nat /\ now + 1 \in Nat /\ now <= now + 1
      OBVIOUS
    <3>3. windows[l] # Absent => windows[l].start <= now
      BY DEF WindowsInv
    <3>. QED
      BY <3>1, <3>2, <3>3, LimitsPositive, DatedLater
  <2>. QED
    BY <1>4, <2>1 DEF Tick, BurstInv
<1>5. CASE UNCHANGED <<windows, now, told, comeBack, admitted>>
  BY <1>5 DEF BurstInv
<1>. QED
  BY <1>2, <1>3, <1>4, <1>5 DEF LimiterStep, BurstInv

LEMMA BurstInit == LimiterInit => BurstInv
<1>. SUFFICES ASSUME LimiterInit, NEW k \in Keys
              PROVE  /\ Len(admitted[k]) <= 2 * Limit[k[2]]
                     /\ Dated(admitted[k], <<>>, windows[k], now, Limit[k[2]])
  BY DEF BurstInv
<1>1. admitted[k] = <<>> /\ windows[k] = Absent
  BY DEF LimiterInit
<1>2. <<>> \in Seq(Nat) /\ Len(<<>>) = 0 /\ 1..Len(<<>>) = {}
  OBVIOUS
<1>3. Dated(<<>>, <<>>, Absent, now, Limit[k[2]])
  BY <1>2 DEF Dated, OpenAt
<1>4. Len(<<>>) <= 2 * Limit[k[2]]
  BY LimitsPositive
<1>. QED
  BY <1>1, <1>3, <1>4

-----------------------------------------------------------------------------
(* What the checks on an upload leave *)

\* A file is named once.
Distinct(files) ==
    \A i, j \in DOMAIN files : <<files[i].stem, files[i].suffix>> = <<files[j].stem, files[j].suffix>> => i = j

LEMMA MinIsMember ==
  ASSUME NEW S \in SUBSET Nat, S # {}
  PROVE  Min(S) \in S
<1>1. PICK n \in S : \A m \in S : ~(<<m, n>> \in OpToRel(<, Nat))
  BY WFMin, NatLessThanWellFounded
<1>2. \A m \in S : ~(m < n)
  BY <1>1 DEF OpToRel
<1>3. \A m \in S : n <= m
  BY <1>2
<1>. QED
  BY <1>3 DEF Min

LEMMA DecodedFiles ==
  ASSUME NEW files, files \in Seq(Range(files)) \ {<<>>}, DecodeComponents(files) = OK
  PROVE  Distinct(files) /\ ~(DecodedBytes(files) > MaxUploadBytes)
<1>. DEFINE n == Len(files)
            refused == {k \in DOMAIN files : FileRefused(files, k) # OK}
<1>1. n \in Nat \ {0} /\ DOMAIN files = 1..n /\ files = [i \in 1..n |-> files[i]]
  BY EmptySeq
<1>2. \A k \in DOMAIN files : FileRefused(files, k) = OK
  <2>1. SUFFICES ASSUME refused # {} PROVE FALSE
    OBVIOUS
  <2>2. refused \in SUBSET Nat
    BY <1>1
  <2>3. Min(refused) \in refused
    <3>. HIDE DEF refused
    <3>. QED
      BY <2>1, <2>2, MinIsMember
  <2>4. DecodeComponents(files) = 413 \/ DecodeComponents(files) = FileRefused(files, Min(refused))
    BY <2>1 DEF DecodeComponents
  <2>. QED
    BY <2>3, <2>4 DEF OK
<1>3. ASSUME NEW j \in 1..n, NEW i \in 1..n, i < j
      PROVE  <<files[i].stem, files[i].suffix>> # <<files[j].stem, files[j].suffix>>
  <2>. DEFINE earlier == SubSeq(files, 1, j - 1)
  <2>1. <<files[j].stem, files[j].suffix>> \notin Names(earlier)
    BY <1>1, <1>2 DEF FileRefused, OK
  <2>2. i \in DOMAIN earlier /\ earlier[i] = files[i]
    BY <1>1, <1>3
  <2>3. files[i] \in Range(earlier)
    BY <2>2 DEF Range
  <2>. QED
    BY <2>1, <2>3 DEF Names
<1>4. Distinct(files)
  BY <1>1, <1>3 DEF Distinct
<1>5. SubSeq(files, 1, n) = files
  BY <1>1
<1>6. ~(DecodedBytes(SubSeq(files, 1, n)) > MaxUploadBytes)
  <2>1. n \in DOMAIN files
    BY <1>1
  <2>2. FileRefused(files, n) = OK
    BY <1>2, <2>1
  <2>. QED
    BY <2>2 DEF FileRefused, OK
<1>. QED
  BY <1>4, <1>5, <1>6

\* The files of an accepted upload are one dataset.
OneDataset(files) ==
    /\ Cardinality(Openable(files)) = 1
    /\ \A f \in Openable(files) : Stems(files) = {f.stem}
    /\ Cardinality(Names(files)) = Len(files)
    /\ ~(DecodedBytes(files) > MaxUploadBytes)

LEMMA NamesCounted ==
  ASSUME NEW files, files \in Seq(Range(files)), Distinct(files)
  PROVE  Cardinality(Names(files)) = Len(files)
<1>. DEFINE name == [i \in 1..Len(files) |-> <<files[i].stem, files[i].suffix>>]
<1>1. Len(files) \in Nat /\ DOMAIN files = 1..Len(files)
  OBVIOUS
<1>2. name \in [1..Len(files) -> Names(files)]
  BY <1>1 DEF Names, Range
<1>3. \A x \in Names(files) : \E i \in 1..Len(files) : name[i] = x
  BY <1>1 DEF Names, Range
<1>4. \A i, j \in 1..Len(files) : name[i] = name[j] => i = j
  BY <1>1 DEF Distinct
<1>5. name \in Bijection(1..Len(files), Names(files))
  BY <1>2, <1>3, <1>4 DEF Bijection, Injection, Surjection, IsInjective
<1>6. ExistsBijection(1..Len(files), Names(files))
  BY <1>5 DEF ExistsBijection
<1>. QED
  BY <1>1, <1>6, FS_CountingElements

LEMMA AcceptedIsOneDataset ==
  ASSUME NEW u \in Accepted
  PROVE  /\ OneDataset(u.files)
         /\ u.files # <<>>
         /\ Selected(u.files) \in DOMAIN SingleFileDrivers \cup {"shp"}
<1>. DEFINE files == u.files
<1>1. files \in Seq(Range(files)) \ {<<>>}
  BY ApiAssumption DEF Accepted
<1>2. DecodeComponents(files) = OK /\ ComponentSetAccepted(u)
  BY DEF Accepted, UploadRefused, OK
<1>. HIDE DEF files
<1>3. Len(files) \in Nat \ {0} /\ DOMAIN files = 1..Len(files) /\ 1 \in 1..Len(files)
  BY <1>1, EmptySeq
<1>4. Distinct(files) /\ ~(DecodedBytes(files) > MaxUploadBytes)
  BY <1>1, <1>2, DecodedFiles
<1>5. Cardinality(Names(files)) = Len(files)
  BY <1>1, <1>4, NamesCounted
<1>6. \A f : f \in Range(files) <=> \E i \in 1..Len(files) : f = files[i]
  BY <1>3 DEF Range
<1>7. DOMAIN SingleFileDrivers = {"geojson", "json", "gpkg", "fgb", "parquet"}
  BY DEF SingleFileDrivers
<1>8. CASE "shp" \in FileSuffixes(files) \/ Len(files) > 1
  <2>1. /\ RequiredShapefileSuffixes \subseteq FileSuffixes(files)
        /\ FileSuffixes(files) \subseteq AllowedShapefileSuffixes
        /\ Cardinality(Stems(files)) = 1
    BY <1>2, <1>8 DEF ComponentSetAccepted, files
  <2>2. PICK stem : Stems(files) = {stem}
    <3>. DEFINE stemOf == [i \in 1..Len(files) |-> files[i].stem]
    <3>1. stemOf \in [1..Len(files) -> Stems(files)]
      BY <1>6 DEF Stems
    <3>2. \A x \in Stems(files) : \E i \in 1..Len(files) : stemOf[i] = x
      BY <1>6 DEF Stems
    <3>3. stemOf \in Surjection(1..Len(files), Stems(files))
      BY <3>1, <3>2 DEF Surjection
    <3>4. IsFiniteSet(1..Len(files))
      BY <1>3, FS_Interval
    <3>5. IsFiniteSet(Stems(files))
      BY <3>3, <3>4, FS_Surjection DEF ExistsSurjection
    <3>. QED
      BY <2>1, <3>5, FS_Singleton
  <2>3. PICK g \in Range(files) : g.suffix = "shp"
    BY <2>1 DEF FileSuffixes, RequiredShapefileSuffixes
  <2>4. \A f \in Range(files) : f.stem = stem /\ f.suffix \in AllowedShapefileSuffixes
    BY <2>1, <2>2 DEF Stems, FileSuffixes
  <2>5. \A x \in RequiredShapefileSuffixes : <<stem, x>> \in Names(files)
    BY <2>1, <2>4 DEF FileSuffixes, Names
  <2>6. Openable(files) = {g}
    <3>1. g \in Openable(files)
      BY <2>3, <2>4, <2>5 DEF Openable
    <3>2. ASSUME NEW f \in Openable(files) PROVE f = g
      <4>1. f \in Range(files) /\ f.suffix = "shp" /\ f.stem = g.stem
        BY <1>7, <2>3, <2>4 DEF Openable, AllowedShapefileSuffixes, RequiredShapefileSuffixes
      <4>. QED
        BY <1>3, <1>4, <1>6, <2>3, <4>1 DEF Distinct
    <3>. QED
      BY <3>1, <3>2
  <2>7. Selected(files) = "shp"
    <3>1. CASE Len(files) > 1
      BY <3>1 DEF Selected
    <3>2. CASE Len(files) = 1
      BY <1>3, <1>6, <2>3, <3>2 DEF Selected
    <3>. QED
      BY <1>3, <3>1, <3>2
  <2>. QED
    BY <1>1, <1>4, <1>5, <2>2, <2>4, <2>6, <2>7, FS_Singleton DEF OneDataset, files, Openable
<1>9. CASE ~("shp" \in FileSuffixes(files) \/ Len(files) > 1)
  <2>1. FileSuffixes(files) \subseteq DOMAIN SingleFileDrivers
    BY <1>2, <1>9 DEF ComponentSetAccepted, files
  <2>2. Len(files) = 1
    BY <1>3, <1>9
  <2>3. Range(files) = {files[1]}
    BY <1>6, <2>2
  <2>4. files[1].suffix \in DOMAIN SingleFileDrivers
    BY <2>1, <2>3 DEF FileSuffixes
  <2>5. Openable(files) = {files[1]}
    BY <2>3, <2>4 DEF Openable
  <2>6. Stems(files) = {files[1].stem}
    BY <2>3 DEF Stems
  <2>7. Selected(files) \in DOMAIN SingleFileDrivers
    BY <2>2, <2>4 DEF Selected
  <2>. QED
    BY <1>1, <1>4, <1>5, <2>5, <2>6, <2>7, FS_Singleton DEF OneDataset, files
<1>. QED
  BY <1>8, <1>9

-----------------------------------------------------------------------------
(***************************************************************************)
(* The handlers.  A slot with files in its directory is at work on them;   *)
(* they are the files of an upload that was accepted, and the layer is the *)
(* one it asked for.                                                       *)
(***************************************************************************)
Honest(r) ==
    LET d == r.dataset
    IN /\ r.total = Len(d.features)
       /\ r.total <= (IF r.path = "repair" THEN MaxRepairFeatures ELSE MaxFeatures)
       /\ r.listed <= MaxReported
       /\ r.path = "validate" => r.flawed = Counted(d, "invalid")
       /\ r.truncated <=> r.listed < r.flawed
       /\ d.driver \in AllowedDrivers /\ d.geometry
       /\ r.layer = None => d.driver # "GPKG" \/ Cardinality(d.layers) = 1

SlotInv(s) ==
    /\ staged[s] # <<>> => Handled(s, "staged")
    /\ Handled(s, "called") => handling[s].path \in {c.path : c \in Calls}
    /\ Handled(s, "staged") => \E u \in Accepted : staged[s] = u.files /\ handling[s].layer = u.layer
    /\ Handled(s, "report") => Honest(handling[s])

HandlersInv ==
    /\ handling = [s \in Slots |-> handling[s]]
    /\ staged = [s \in Slots |-> staged[s]]
    /\ settings \in Deployments /\ Startable(settings)
    /\ \A s \in Slots : SlotInv(s)

\* One slot moves, the others stay.
LEMMA OneSlot ==
  ASSUME HandlersInv, NEW s \in Slots, SlotInv(s)', settings' = settings,
         NEW h, handling' = [handling EXCEPT ![s] = h],
         NEW f, staged' = [staged EXCEPT ![s] = f]
  PROVE  HandlersInv'
<1>1. handling' = [r \in Slots |-> handling'[r]] /\ staged' = [r \in Slots |-> staged'[r]]
  BY DEF HandlersInv
<1>2. \A r \in Slots \ {s} : handling'[r] = handling[r] /\ staged'[r] = staged[r]
  BY DEF HandlersInv
<1>3. \A r \in Slots \ {s} : SlotInv(r)'
  BY <1>2 DEF HandlersInv, SlotInv, Handled
<1>. QED
  BY <1>1, <1>3 DEF HandlersInv, SlotInv

\* An answer without a report ends the work on the files.
LEMMA ReplyKeeps ==
  ASSUME HandlersInv, NEW s \in Slots, NEW status, Reply(s, status), settings' = settings,
         \/ Leave(s)
         \/ staged' = staged /\ staged[s] = <<>>
  PROVE  HandlersInv'
<1>1. staged' = [staged EXCEPT ![s] = <<>>] /\ staged'[s] = <<>>
  BY DEF HandlersInv, Leave
<1>2. handling'[s] = [phase |-> "reply", refused |-> status >= 400]
  BY DEF Reply, HandlersInv
<1>3. SlotInv(s)'
  BY <1>1, <1>2 DEF SlotInv, Handled
<1>. QED
  BY <1>1, <1>3, OneSlot DEF Reply

LEMMA DatasetPassed ==
  ASSUME NEW suffix, NEW d, DatasetRefused(suffix, d) = OK
  PROVE  /\ d.driver \in (IF suffix = "shp" THEN {"ESRI Shapefile"} ELSE SingleFileDrivers[suffix]) \cap AllowedDrivers
         /\ d.geometry
<1>. DEFINE expected == IF suffix = "shp" THEN {"ESRI Shapefile"} ELSE SingleFileDrivers[suffix]
            unknown == d.driver \notin expected \cap AllowedDrivers
            many == d.counted /\ Len(d.features) > MaxFeatures
<1>1. DatasetRefused(suffix, d) = IF unknown THEN 422 ELSE IF many THEN 413 ELSE IF d.geometry THEN OK ELSE 422
  BY Zenon DEF DatasetRefused
<1>2. OK = 200
  BY DEF OK
<1>. HIDE DEF expected, unknown, many
<1>3. ~unknown
  <2>1. CASE unknown
    <3>1. DatasetRefused(suffix, d) = 422
      BY <1>1, <2>1, Zenon
    <3>. QED
      BY <1>2, <3>1
  <2>. QED
    BY <2>1
<1>4. d.geometry
  <2>1. CASE ~d.geometry
    <3>1. DatasetRefused(suffix, d) = 422 \/ DatasetRefused(suffix, d) = 413
      BY <1>1, <2>1, Zenon
    <3>. QED
      BY <1>2, <3>1
  <2>. QED
    BY <2>1
<1>. QED
  BY <1>3, <1>4 DEF unknown, expected
\* A report about a dataset that passed the checks.
LEMMA ReportKeeps ==
  ASSUME HandlersInv, NEW s \in Slots, Handled(s, "staged"), NEW d \in Datasets, NEW n \in Nat,
         NEW path \in {"validate", "repair"}, handling[s].path = path,
         DatasetFails(s, d) = OK, ~TooManyFeatures(path, d),
         path = "validate" => n = Counted(d, "invalid"),
         Report(s, d, n), Leave(s), settings' = settings
  PROVE  HandlersInv'
<1>1. PICK u \in Accepted : staged[s] = u.files /\ handling[s].layer = u.layer
  BY DEF HandlersInv, SlotInv
<1>. DEFINE suffix == Selected(staged[s])
            r == [phase |-> "report", path |-> path, layer |-> handling[s].layer, dataset |-> d,
                  total |-> Len(d.features), flawed |-> n, listed |-> Smaller(n, MaxReported),
                  truncated |-> n > MaxReported]
<1>2. suffix \in DOMAIN SingleFileDrivers \cup {"shp"}
  BY <1>1, AcceptedIsOneDataset
<1>3. LayerRefused(suffix, handling[s].layer, d) = OK /\ DatasetRefused(suffix, d) = OK
  BY DEF DatasetFails
<1>. HIDE DEF suffix
<1>4. {MaxFeatures, MaxReported, MaxRepairFeatures} \subseteq Nat \ {0}
  BY DEF HandlersInv, Startable
<1>5. Len(d.features) \in Nat
  BY ApiAssumption
<1>6. Honest(r)
  <2>1. r.total <= (IF r.path = "repair" THEN MaxRepairFeatures ELSE MaxFeatures)
    <3>1. Len(d.features) <= (IF path = "repair" THEN MaxRepairFeatures ELSE MaxFeatures)
      BY <1>4, <1>5 DEF TooManyFeatures
    <3>. QED
      BY <3>1
  <2>2. r.listed <= MaxReported /\ (r.truncated <=> r.listed < r.flawed)
    <3>1. MaxReported \in Nat
      BY <1>4
    <3>2. Smaller(n, MaxReported) <= MaxReported /\ (n > MaxReported <=> Smaller(n, MaxReported) < n)
      BY <3>1 DEF Smaller
    <3>3. r.truncated <=> n > MaxReported
      OBVIOUS
    <3>4. r.listed = Smaller(n, MaxReported) /\ r.flawed = n
      OBVIOUS
    <3>. HIDE DEF r
    <3>. QED
      BY <3>2, <3>3, <3>4
  <2>3. d.driver \in AllowedDrivers /\ d.geometry
    BY <1>3, DatasetPassed
  <2>4. ASSUME handling[s].layer = None, d.driver = "GPKG" PROVE Cardinality(d.layers) = 1
    <3>1. "GPKG" \in (IF suffix = "shp" THEN {"ESRI Shapefile"} ELSE SingleFileDrivers[suffix])
      BY <1>3, <2>4, DatasetPassed
    <3>2. suffix = "gpkg"
      BY <1>2, <3>1 DEF SingleFileDrivers
    <3>. QED
      BY <1>3, <2>4, <3>2 DEF LayerRefused, OK
  <2>. QED
    BY <2>1, <2>2, <2>3, <2>4 DEF Honest
<1>7. staged' = [staged EXCEPT ![s] = <<>>] /\ staged'[s] = <<>>
  BY DEF HandlersInv, Leave
<1>8. handling' = [handling EXCEPT ![s] = r] /\ handling'[s] = r
  BY DEF Report, HandlersInv
<1>9. r.phase = "report"
  OBVIOUS
<1>. HIDE DEF r
<1>10. SlotInv(s)'
  BY <1>6, <1>7, <1>8, <1>9 DEF SlotInv, Handled
<1>. QED
  BY <1>7, <1>8, <1>10, OneSlot

LEMMA CountedNat ==
  ASSUME NEW d \in Datasets, NEW kind
  PROVE  Counted(d, kind) \in Nat
<1>1. Len(d.features) \in Nat /\ DOMAIN d.features = 1..Len(d.features)
  BY ApiAssumption
<1>2. IsFiniteSet(1..Len(d.features))
  BY <1>1, FS_Interval
<1>3. IsFiniteSet({k \in DOMAIN d.features : d.features[k] = kind})
  BY <1>1, <1>2, FS_Subset
<1>. QED
  BY <1>3, FS_CardinalityType DEF Counted

LEMMA HandlersInit == Init => HandlersInv
BY DEF Init, HandlersInv, SlotInv, Handled

LEMMA HandlersNext ==
  ASSUME HandlersInv, [Next]_vars
  PROVE  HandlersInv'
<1>0. ASSUME NEW s \in Slots, NEW phase \in {"called", "reply", "report"}, Handled(s, phase)
      PROVE  staged[s] = <<>>
  BY <1>0 DEF HandlersInv, SlotInv, Handled
<1>1. CASE UNCHANGED apiVars
  BY <1>1 DEF apiVars, HandlersInv, SlotInv, Handled
<1>2. ASSUME NEW s \in Slots, Dispatch(s) PROVE HandlersInv'
  <2>1. PICK c \in Calls : handling' = [handling EXCEPT ![s] = Called(c)]
    BY <1>2 DEF Dispatch
  <2>2. handling'[s] = Called(c) /\ staged' = staged /\ settings' = settings
    BY <1>2, <2>1 DEF Dispatch, HandlersInv
  <2>3. staged[s] = <<>>
    BY <1>2 DEF Dispatch, Idle, HandlersInv, SlotInv, Handled
  <2>4. SlotInv(s)'
    BY <2>2, <2>3 DEF SlotInv, Handled, Called
  <2>5. staged' = [staged EXCEPT ![s] = <<>>]
    BY <2>2, <2>3 DEF HandlersInv
  <2>. QED
    BY <2>1, <2>2, <2>4, <2>5, OneSlot
<1>3. ASSUME NEW s \in Slots, BodyFails(s) \/ Serve(s) \/ UploadFails(s) \/ HandOver(s) PROVE HandlersInv'
  <2>1. Handled(s, "called") /\ staged' = staged /\ settings' = settings
    BY <1>3 DEF BodyFails, Serve, UploadFails, HandOver, Uploading
  <2>2. \E status : Reply(s, status)
    BY <1>3 DEF BodyFails, Serve, UploadFails, HandOver
  <2>. QED
    BY <1>0, <2>1, <2>2, ReplyKeeps
<1>4. ASSUME NEW s \in Slots, Stage(s) PROVE HandlersInv'
  <2>1. PICK u \in Accepted :
          /\ staged' = [staged EXCEPT ![s] = u.files]
          /\ handling' = [handling EXCEPT ![s] = [phase |-> "staged", path |-> @.path, layer |-> u.layer]]
    BY <1>4 DEF Stage
  <2>. DEFINE h == [phase |-> "staged", path |-> handling[s].path, layer |-> u.layer]
  <2>2. handling' = [handling EXCEPT ![s] = h] /\ handling'[s] = h /\ staged'[s] = u.files
    BY <2>1 DEF HandlersInv
  <2>3. h # None
    <3>1. handling[s].path \in {c.path : c \in Calls}
      BY <1>4 DEF Stage, Uploading, HandlersInv, SlotInv
    <3>. QED
      BY <3>1, ApiAssumption DEF Accepted
  <2>4. h.phase = "staged" /\ h.layer = u.layer
    OBVIOUS
  <2>5. settings' = settings
    BY <1>4 DEF Stage
  <2>. HIDE DEF h
  <2>6. SlotInv(s)'
    BY <2>2, <2>3, <2>4 DEF SlotInv, Handled
  <2>. QED
    BY <2>1, <2>2, <2>5, <2>6, OneSlot
<1>5. ASSUME NEW s \in Slots, HandlerRaises(s) \/ RefuseDataset(s) PROVE HandlersInv'
  <2>1. Leave(s) /\ settings' = settings /\ \E status : Reply(s, status)
    BY <1>5 DEF HandlerRaises, RefuseDataset
  <2>. QED
    BY <2>1, ReplyKeeps
<1>6. ASSUME NEW s \in Slots, Validate(s) PROVE HandlersInv'
  BY <1>6, ReportKeeps, CountedNat DEF Validate
<1>7. ASSUME NEW s \in Slots, Repair(s) PROVE HandlersInv'
  <2>1. PICK d \in Datasets : \E mended \in 0..Counted(d, "invalid") :
          DatasetFails(s, d) = OK /\ ~TooManyFeatures("repair", d) /\ Report(s, d, mended)
    BY <1>7 DEF Repair
  <2>2. \E mended \in Nat : DatasetFails(s, d) = OK /\ ~TooManyFeatures("repair", d) /\ Report(s, d, mended)
    BY <2>1, CountedNat
  <2>. QED
    BY <1>7, <2>2, ReportKeeps DEF Repair
<1>8. ASSUME NEW s \in Slots, Answer(s) PROVE HandlersInv'
  <2>1. staged[s] = <<>> /\ staged' = staged /\ settings' = settings
    BY <1>0, <1>8 DEF Answer
  <2>2. handling' = [handling EXCEPT ![s] = None] /\ handling'[s] = None
    BY <1>8 DEF Answer, HandlersInv
  <2>3. staged' = [staged EXCEPT ![s] = <<>>]
    BY <2>1 DEF HandlersInv
  <2>4. SlotInv(s)'
    BY <2>1, <2>2 DEF SlotInv, Handled
  <2>. QED
    BY <2>1, <2>2, <2>3, <2>4, OneSlot
<1>9. CASE RefuseCall \/ RefuseCharged \/ ClockTicks \/ UNCHANGED vars
  BY <1>1, <1>9 DEF RefuseCall, RefuseCharged, ClockTicks, vars, apiVars
<1>. QED
  BY <1>2, <1>3, <1>4, <1>5, <1>6, <1>7, <1>8, <1>9 DEF Next

LEMMA HandlersFollow == HandlersInv => StagedIsOneDataset /\ RepliesHonest
<1>. SUFFICES ASSUME HandlersInv, NEW s \in Slots
              PROVE  /\ staged[s] # <<>> => Handled(s, "staged") /\ OneDataset(staged[s])
                     /\ Handled(s, "report") => Honest(handling[s])
  BY DEF StagedIsOneDataset, RepliesHonest, OneDataset, Honest
<1>. QED
  BY AcceptedIsOneDataset DEF HandlersInv, SlotInv

-----------------------------------------------------------------------------
(* Theorems *)

LimiterInv == LimiterTypeOK /\ WindowsInv /\ HeadersInv /\ StoreInv /\ BurstInv

LEMMA LimiterInvInit == LimiterInit => LimiterInv
<1>1. LimiterInit => HeadersInv
  BY DEF LimiterInit, HeadersInv
<1>. QED
  BY <1>1, LimiterTypeInit, StoreInit, BurstInit DEF LimiterInv

LEMMA LimiterInvNext ==
  ASSUME LimiterInv, settings \in Deployments, [Next]_vars
  PROVE  LimiterInv' /\ KeepsLive
BY StepsOfLimiter, LimiterTypeNext, HeadersNext, StoreNext, BurstNext DEF LimiterInv

ApiInv == LimiterInv /\ HandlersInv

\* Together they are inductive: no request, no handler and no tick of the clock
\* breaks what the windows, the histories and the slots are known to satisfy.
THEOREM ApiInvariant == Spec => []ApiInv
<1>1. Init => ApiInv
  BY LimiterInvInit, HandlersInit DEF Init, ApiInv
<1>2. ApiInv /\ [Next]_vars => ApiInv'
  BY LimiterInvNext, HandlersNext DEF ApiInv, HandlersInv
<1>. QED
  BY <1>1, <1>2, PTL DEF Spec

\* FixedWindowRateLimiter.check: Retry-After and X-RateLimit-Remaining are kept,
\* whatever the clients send in the meantime, also across an eviction.
THEOREM HeadersKept == Spec => []HeadersHonest
<1>1. ApiInv => HeadersHonest
  BY HeadersFollow DEF ApiInv, LimiterInv
<1>. QED
  BY <1>1, ApiInvariant, PTL

\* FixedWindowRateLimiter.check: 2 * limit requests of a key in a row are let
\* through in no less than a window's length, as long as its live window stays.
THEOREM BurstsBounded == Spec => []BurstBounded
<1>1. ApiInv => BurstBounded
  BY BurstFollows DEF ApiInv, LimiterInv
<1>. QED
  BY <1>1, ApiInvariant, PTL

\* InMemoryRateLimitStorage.increment: a live window goes only when live windows
\* fill the storage, and then an oldest one; the storage stays within its bound.
THEOREM EvictionOnlyWhenFull == Spec => LiveWindowsKept
<1>1. ApiInv /\ [Next]_vars =>
        [/\ Cardinality(Stored(windows')) <= MaxEntries
         /\ \A k \in Live(windows, now) :
                windows'[k] = Absent =>
                    /\ Cardinality(Live(windows, now)) = MaxEntries
                    /\ \A l \in Stored(windows') : windows[k].start <= windows'[l].start]_limiterVars
  BY LimiterInvNext DEF ApiInv, LimiterInv, HandlersInv, KeepsLive, StoreInv, Stored
<1>. QED
  BY <1>1, ApiInvariant, PTL DEF Spec, LiveWindowsKept

\* upload_security.py: what a handler has staged is exactly one dataset, complete,
\* without strays and within the limit, and is there only while it works on it.
THEOREM StagedOneDataset == Spec => []StagedIsOneDataset
<1>1. ApiInv => StagedIsOneDataset
  BY HandlersFollow DEF ApiInv
<1>. QED
  BY <1>1, ApiInvariant, PTL

\* geometry_routes.py: a successful report is about the whole of a dataset that
\* passed every check, and says so when findings were left out.
THEOREM RepliesAreHonest == Spec => []RepliesHonest
<1>1. ApiInv => RepliesHonest
  BY HandlersFollow DEF ApiInv
<1>. QED
  BY <1>1, ApiInvariant, PTL

=============================================================================
