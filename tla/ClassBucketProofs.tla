-------------------------- MODULE ClassBucketProofs --------------------------
(***************************************************************************)
(* Safety of ClassBucket for every cap, capacity, set of costs and         *)
(* behaviour of the wall clock.                                            *)
(***************************************************************************)
EXTENDS ClassBucket, TLAPS

-----------------------------------------------------------------------------
(* Arithmetic that the solver needs one step at a time.                    *)
LEMMA MulNat == ASSUME NEW a \in Nat, NEW b \in Nat PROVE a * b \in Nat
OBVIOUS

LEMMA MulMono ==
    ASSUME NEW r \in Nat, NEW a \in Nat, NEW b \in Nat, a <= b
    PROVE  r * a <= r * b
<1>1. r * b = r * a + r * (b - a)
  OBVIOUS
<1>2. b - a \in Nat
  OBVIOUS
<1>3. r * (b - a) \in Nat /\ r * a \in Nat
  BY <1>2, MulNat
<1> QED BY <1>1, <1>3

LEMMA MulAdd ==
    ASSUME NEW r \in Nat, NEW a \in Nat, NEW b \in Nat
    PROVE  r * (a + b) = r * a + r * b
OBVIOUS

\* Rate and capacity are numbers; the rate of a target is at least 1.
LEMMA RateIsNat ==
    ASSUME NEW t \in Nat
    PROVE  RefillRate(t) \in Nat /\ ComputeCapacity(RefillRate(t)) \in Nat
<1>1. RefillRate(t) \in Nat
  BY DEF RefillRate, Greatest
<1>2. RefillRate(t) * HourSec \in Nat
  BY <1>1, MulNat, BucketAssumption
<1> QED BY <1>1, <1>2, BucketAssumption DEF ComputeCapacity, Greatest

\* The seconds that a refill credits.
Elapsed(b, now) == Greatest(0, now - b.lastRefillMs)

(* What refill() does to a bucket (TokenBucket.refill).                    *)
LEMMA RefillFacts ==
    ASSUME NEW b \in Bucket, NEW now \in Nat
    PROVE  /\ Refill(b, now) \in Bucket
           /\ Refill(b, now).capacityUnits = b.capacityUnits
           /\ Refill(b, now).refillPerSec = b.refillPerSec
           /\ Refill(b, now).lastRefillMs = Greatest(b.lastRefillMs, now)
           /\ Refill(b, now).currentUnits
                <= b.currentUnits + b.refillPerSec * Elapsed(b, now)
           /\ b.currentUnits <= b.capacityUnits
                => Refill(b, now).currentUnits <= b.capacityUnits
<1> DEFINE gain == (now - b.lastRefillMs) * b.refillPerSec
<1>1. /\ b.lastRefillMs \in Nat /\ b.refillPerSec \in Nat
      /\ b.currentUnits \in Nat /\ b.capacityUnits \in Nat
  BY DEF Bucket
<1>2. CASE now <= b.lastRefillMs
  <2>1. Refill(b, now) = b
    BY <1>2 DEF Refill
  <2>2. Elapsed(b, now) = 0 /\ Greatest(b.lastRefillMs, now) = b.lastRefillMs
    BY <1>1, <1>2 DEF Elapsed, Greatest
  <2>3. b.refillPerSec * Elapsed(b, now) = 0
    BY <1>1, <2>2
  <2> QED BY <1>1, <2>1, <2>2, <2>3
<1>3. CASE ~(now <= b.lastRefillMs)
  <2>1. now - b.lastRefillMs \in Nat
    BY <1>1, <1>3
  <2>2. /\ Elapsed(b, now) = now - b.lastRefillMs
        /\ Greatest(b.lastRefillMs, now) = now
    BY <1>1, <1>3 DEF Elapsed, Greatest
  <2>3. gain \in Nat /\ gain = b.refillPerSec * Elapsed(b, now)
    BY <1>1, <2>1, <2>2, MulNat
  <2>4. Refill(b, now) =
          [b EXCEPT !.currentUnits = Least(b.capacityUnits, b.currentUnits + gain),
                    !.lastRefillMs = now]
    BY <1>3 DEF Refill
  <2> HIDE DEF gain
  <2>5. /\ Least(b.capacityUnits, b.currentUnits + gain) \in Nat
        /\ Least(b.capacityUnits, b.currentUnits + gain) <= b.capacityUnits
        /\ Least(b.capacityUnits, b.currentUnits + gain) <= b.currentUnits + gain
    BY <1>1, <2>3 DEF Least
  <2> QED BY <1>1, <2>2, <2>3, <2>4, <2>5 DEF Bucket
<1> QED BY <1>2, <1>3

(* A new bucket is empty (TokenBucket's constructor).                      *)
LEMMA NewBucketFacts ==
    ASSUME NEW t \in Nat, NEW now \in Nat
    PROVE  /\ NewBucket(t, now) \in Bucket
           /\ NewBucket(t, now).refillPerSec = RefillRate(t)
           /\ NewBucket(t, now).currentUnits = 0
           /\ NewBucket(t, now).lastRefillMs = now
BY RateIsNat DEF NewBucket, Bucket

(* What updateParams() does to a bucket (TokenBucket.updateParams).        *)
LEMMA UpdateFacts ==
    ASSUME NEW b \in Bucket, NEW t \in Nat, NEW now \in Nat
    PROVE  /\ UpdateParams(b, t, now) \in Bucket
           /\ UpdateParams(b, t, now).refillPerSec = RefillRate(t)
           /\ UpdateParams(b, t, now).lastRefillMs = Greatest(b.lastRefillMs, now)
           /\ UpdateParams(b, t, now).currentUnits
                <= b.currentUnits + b.refillPerSec * Elapsed(b, now)
           /\ UpdateParams(b, t, now).currentUnits
                <= UpdateParams(b, t, now).capacityUnits
<1> DEFINE old == Refill(b, now)
           cap == ComputeCapacity(RefillRate(t))
<1>1. /\ old \in Bucket
      /\ old.lastRefillMs = Greatest(b.lastRefillMs, now)
      /\ old.currentUnits <= b.currentUnits + b.refillPerSec * Elapsed(b, now)
  BY RefillFacts
<1>2. cap \in Nat /\ RefillRate(t) \in Nat
  BY RateIsNat
<1>3. UpdateParams(b, t, now) =
        [old EXCEPT !.refillPerSec = RefillRate(t), !.capacityUnits = cap,
                    !.currentUnits = Least(old.currentUnits, cap)]
  BY DEF UpdateParams
<1> HIDE DEF old, cap
<1>4. old.currentUnits \in Nat
  BY <1>1 DEF Bucket
<1>5. /\ Least(old.currentUnits, cap) \in Nat
      /\ Least(old.currentUnits, cap) <= old.currentUnits
      /\ Least(old.currentUnits, cap) <= cap
  BY <1>2, <1>4 DEF Least
<1>6. b.currentUnits + b.refillPerSec * Elapsed(b, now) \in Int
  <2>1. /\ b.lastRefillMs \in Nat /\ b.refillPerSec \in Nat
        /\ b.currentUnits \in Nat
    BY DEF Bucket
  <2>2. Elapsed(b, now) \in Nat
    BY <2>1 DEF Elapsed, Greatest
  <2> QED BY <2>1, <2>2, MulNat
<1>7. /\ UpdateParams(b, t, now) \in Bucket
      /\ UpdateParams(b, t, now).refillPerSec = RefillRate(t)
      /\ UpdateParams(b, t, now).lastRefillMs = old.lastRefillMs
      /\ UpdateParams(b, t, now).capacityUnits = cap
      /\ UpdateParams(b, t, now).currentUnits = Least(old.currentUnits, cap)
  BY <1>1, <1>2, <1>3, <1>5 DEF Bucket
<1> QED BY <1>1, <1>4, <1>5, <1>6, <1>7

-----------------------------------------------------------------------------
(* The three things that an authorization does to the bucket, with the     *)
(* class dropped from it (applyClassPolicy, normalizeResult).              *)
LEMMA ApplyFacts ==
    ASSUME TypeOK, NEW p \in Policy, ApplyClassPolicy(NormalizeResult(p))
    PROVE  /\ classId' \in {"none", "class", "bypass"}
           /\ \/ classTokenBucket' = NoBucket /\ UNCHANGED bucketHist
              \/ /\ classTokenBucket = NoBucket
                 /\ classTokenBucket' = NewBucket(SafestCapHs, clock)
                 /\ born' = clock /\ top' = clock /\ spent' = 0
              \/ /\ classTokenBucket \in Bucket /\ classTokenBucket # NoBucket
                 /\ classTokenBucket' =
                      UpdateParams(classTokenBucket, SafestCapHs, clock)
                 /\ UNCHANGED bucketHist
<1>1. NormalizeResult(p).targetHashrateHs = NoTarget
  BY DEF NormalizeResult, Policy
<1>2. TargetOf(NormalizeResult(p)) = SafestCapHs
  BY <1>1 DEF TargetOf
<1> QED BY <1>2 DEF ApplyClassPolicy, TypeOK

(* A share at the gate finds the bucket refilled.                          *)
LEMMA GateFacts ==
    ASSUME TypeOK, Passes \/ Exceeds
    PROVE  /\ classTokenBucket \in Bucket
           /\ \/ /\ sessionCost <= Refill(classTokenBucket, clock).currentUnits
                 /\ classTokenBucket' =
                      [Refill(classTokenBucket, clock)
                         EXCEPT !.currentUnits = @ - sessionCost]
                 /\ spent' = spent + sessionCost
                 /\ accepted' = accepted + sessionCost
              \/ /\ classTokenBucket' = Refill(classTokenBucket, clock)
                 /\ spent' = spent
                 /\ accepted' = IF Enforced THEN accepted
                                            ELSE accepted + sessionCost
           /\ gating > 0 /\ gating' = gating - 1
           /\ UNCHANGED <<clock, policy, answers, sessionCost, classId, destroyed,
                          advanced, born, top, ungated>>
BY DEF Passes, Exceeds, Gate, Affords, TypeOK, backendVars

\* The bucket after a share of that cost has passed.
LEMMA ConsumeFacts ==
    ASSUME NEW b \in Bucket, NEW cost \in Nat, cost <= b.currentUnits
    PROVE  /\ [b EXCEPT !.currentUnits = @ - cost] \in Bucket
           /\ [b EXCEPT !.currentUnits = @ - cost].currentUnits
                = b.currentUnits - cost
           /\ [b EXCEPT !.currentUnits = @ - cost].capacityUnits = b.capacityUnits
           /\ [b EXCEPT !.currentUnits = @ - cost].refillPerSec = b.refillPerSec
           /\ [b EXCEPT !.currentUnits = @ - cost].lastRefillMs = b.lastRefillMs
<1>1. b.currentUnits - cost \in Nat
  BY DEF Bucket
<1> QED BY <1>1 DEF Bucket

(* Type correctness of the session's bucket and shares in every state: no  *)
(* bucket is ever overdrawn.                                               *)
THEOREM BucketTyped == Spec => []TypeOK
<1>1. Init => TypeOK
  <2> SUFFICES ASSUME Init PROVE TypeOK
    OBVIOUS
  <2>1. destroyed \in BOOLEAN /\ ungated \in BOOLEAN
    BY Zenon DEF Init
  <2> QED BY <2>1, BucketAssumption DEF Init, TypeOK
<1>2. TypeOK /\ [Next]_vars => TypeOK'
  <2> SUFFICES ASSUME TypeOK, [Next]_vars PROVE TypeOK'
    OBVIOUS
  <2> USE DEF backendVars, shareVars, classVars, bucketHist
  <2>1. ASSUME NEW t \in 0 .. MaxClock, Reads(t) PROVE TypeOK'
    <3>1. t \in Nat
      BY BucketAssumption
    <3>2. advanced' \in Nat /\ top' \in Nat
      BY <2>1, <3>1 DEF Reads, Greatest, TypeOK
    <3> QED BY <2>1, <3>1, <3>2 DEF Reads, TypeOK
  <2>2. ASSUME NEW p \in Policy, PolicyChanges(p) PROVE TypeOK'
    BY <2>2 DEF PolicyChanges, TypeOK
  <2>3. ASSUME NEW share \in BOOLEAN, Decides(share) PROVE TypeOK'
    <3>1. [share |-> share, policy |-> policy] \in Answer
      BY DEF TypeOK, Answer
    <3> QED BY <2>3, <3>1 DEF Decides, TypeOK
  <2>4. ASSUME NEW a \in answers, Receives(a) PROVE TypeOK'
    <3>1. a.policy \in Policy
      BY DEF TypeOK, Answer
    <3>2. ApplyClassPolicy(NormalizeResult(a.policy))
      BY <2>4 DEF Receives
    <3>3. classTokenBucket' \in Bucket \cup {NoBucket}
      <4>1. clock \in Nat /\ SafestCapHs \in Nat
        BY BucketAssumption DEF TypeOK
      <4>2. \/ classTokenBucket' = NoBucket
            \/ classTokenBucket' = NewBucket(SafestCapHs, clock)
            \/ /\ classTokenBucket \in Bucket
               /\ classTokenBucket' =
                    UpdateParams(classTokenBucket, SafestCapHs, clock)
        BY <3>1, <3>2, ApplyFacts
      <4> QED BY <4>1, <4>2, NewBucketFacts, UpdateFacts
    <3>4. /\ born' \in Nat /\ top' \in Nat /\ spent' \in Nat
          /\ classId' \in {"none", "class", "bypass"}
      BY <3>1, <3>2, ApplyFacts DEF TypeOK
    <3>5. gating' \in Nat
      BY <2>4 DEF Receives, TypeOK
    <3> QED BY <2>4, <3>1, <3>3, <3>4, <3>5 DEF Receives, TypeOK
  <2>5. ASSUME NEW cost \in Costs, ChangeDifficulty(cost) PROVE TypeOK'
    BY <2>5 DEF ChangeDifficulty, TypeOK
  <2>6. CASE PassesUngated
    <3>1. ungated' \in BOOLEAN
      BY <2>6 DEF PassesUngated
    <3>2. gating' \in Nat
      BY <2>6 DEF PassesUngated, Gate, TypeOK
    <3> QED BY <2>6, <3>1, <3>2 DEF PassesUngated, Gate, TypeOK
  <2>7. CASE Passes \/ Exceeds
    <3>1. classTokenBucket \in Bucket /\ clock \in Nat /\ sessionCost \in Nat
      BY <2>7, GateFacts, BucketAssumption DEF TypeOK
    <3>2. Refill(classTokenBucket, clock) \in Bucket
      BY <3>1, RefillFacts
    <3>3. classTokenBucket' \in Bucket
      BY <2>7, <3>1, <3>2, GateFacts, ConsumeFacts
    <3>4. spent' \in Nat /\ accepted' \in Nat /\ gating' \in Nat
      BY <2>7, <3>1, GateFacts DEF TypeOK
    <3> QED BY <2>7, <3>3, <3>4, GateFacts DEF TypeOK
  <2>8. CASE Destroy
    BY <2>8 DEF Destroy, TypeOK
  <2>9. CASE UNCHANGED vars
    BY <2>9 DEF vars, TypeOK
  <2> QED
    BY <2>1, <2>2, <2>3, <2>4, <2>5, <2>6, <2>7, <2>8, <2>9 DEF Next, ClockMoves
<1> QED BY <1>1, <1>2, PTL DEF Spec

-----------------------------------------------------------------------------
(***************************************************************************)
(* What a bucket and its history keep between steps.  CreditedOnce is not  *)
(* inductive: it must be known up to which second the bucket is credited,  *)
(* and that the clock has been there.                                      *)
(***************************************************************************)
CreditKept ==
    classTokenBucket # NoBucket =>
        /\ classTokenBucket.refillPerSec = Rate
        /\ classTokenBucket.currentUnits <= classTokenBucket.capacityUnits
        /\ born <= classTokenBucket.lastRefillMs
        /\ classTokenBucket.lastRefillMs <= top
        /\ spent + classTokenBucket.currentUnits
             <= Rate * (classTokenBucket.lastRefillMs - born)

CreditInv == clock <= top /\ CreditKept

\* The seconds not yet credited are paid for by those that went by.
AllowanceInv ==
    Enforced =>
        /\ accepted <= Rate * advanced
        /\ classTokenBucket # NoBucket =>
             accepted + classTokenBucket.currentUnits
                 + Rate * Elapsed(classTokenBucket, clock) <= Rate * advanced

LEMMA RateFacts == Rate \in Nat /\ SafestCapHs \in Nat
BY RateIsNat, BucketAssumption DEF Rate

(* The fields of a bucket, and what it is owed.                            *)
LEMMA BucketFields ==
    ASSUME NEW b \in Bucket, NEW now \in Nat
    PROVE  /\ b.capacityUnits \in Nat /\ b.currentUnits \in Nat
           /\ b.lastRefillMs \in Nat /\ Elapsed(b, now) \in Nat
           /\ Greatest(b.lastRefillMs, now) = b.lastRefillMs + Elapsed(b, now)
           /\ Rate * Elapsed(b, now) \in Nat
<1>1. /\ b.capacityUnits \in Nat /\ b.currentUnits \in Nat
      /\ b.lastRefillMs \in Nat
  BY DEF Bucket
<1>2. /\ Elapsed(b, now) \in Nat
      /\ Greatest(b.lastRefillMs, now) = b.lastRefillMs + Elapsed(b, now)
  BY <1>1 DEF Elapsed, Greatest
<1> QED BY <1>1, <1>2, RateFacts, MulNat

(* A bucket that was brought up to date, holds no more than before and the *)
(* credit of the elapsed seconds, and has paid for a share of some cost,   *)
(* keeps the invariant.                                                    *)
LEMMA UpToDateIsKept ==
    ASSUME TypeOK, CreditInv, classTokenBucket \in Bucket,
           classTokenBucket # NoBucket,
           NEW cost \in Nat, NEW n \in Bucket, classTokenBucket' = n,
           spent' = spent + cost, UNCHANGED <<clock, born, top>>,
           n.refillPerSec = Rate,
           n.currentUnits <= n.capacityUnits,
           n.lastRefillMs = Greatest(classTokenBucket.lastRefillMs, clock),
           n.currentUnits + cost <= classTokenBucket.currentUnits
                                      + Rate * Elapsed(classTokenBucket, clock)
    PROVE  CreditInv'
<1> DEFINE b == classTokenBucket
           last == classTokenBucket.lastRefillMs
           e == Elapsed(classTokenBucket, clock)
<1>1. /\ clock \in Nat /\ spent \in Nat /\ born \in Nat /\ top \in Nat
      /\ last \in Nat /\ e \in Nat /\ b.currentUnits \in Nat
      /\ n.currentUnits \in Nat /\ Rate \in Nat /\ Rate * e \in Nat
      /\ Greatest(last, clock) = last + e
  BY BucketFields, RateFacts DEF TypeOK
<1>2. /\ born <= last /\ last <= top /\ clock <= top
      /\ spent + b.currentUnits <= Rate * (last - born)
  BY DEF CreditInv, CreditKept
<1>3. Greatest(last, clock) <= top
  BY <1>1, <1>2 DEF Greatest
<1>4. n.lastRefillMs = last + e
  BY <1>1
<1>5. n.currentUnits + cost <= b.currentUnits + Rate * e
  OBVIOUS
<1> HIDE DEF b, last, e
<1>6. last - born \in Nat
  BY <1>1, <1>2
<1>7. Rate * ((last - born) + e) = Rate * (last - born) + Rate * e
  BY <1>1, <1>6, MulAdd
<1>8. (last - born) + e = (last + e) - born
  BY <1>1
<1>9. Rate * (last - born) \in Nat
  BY <1>1, <1>6, MulNat
<1>10. (spent + cost) + n.currentUnits <= Rate * (n.lastRefillMs - born)
  BY <1>1, <1>2, <1>4, <1>5, <1>7, <1>8, <1>9
<1>11. born <= n.lastRefillMs /\ n.lastRefillMs <= top
  BY <1>1, <1>2, <1>3, <1>4
<1>12. Rate' = Rate
  BY DEF Rate, RefillRate
<1> QED BY <1>2, <1>10, <1>11, <1>12 DEF CreditInv, CreditKept

(* A step that leaves the bucket and its history alone, or drops the       *)
(* bucket, keeps the invariant.                                            *)
LEMMA UntouchedIsKept ==
    ASSUME CreditInv, UNCHANGED bucketHist, UNCHANGED clock,
           classTokenBucket' \in {classTokenBucket, NoBucket}
    PROVE  CreditInv'
<1>1. Rate' = Rate
  BY DEF Rate, RefillRate
<1> QED BY <1>1 DEF CreditInv, CreditKept, bucketHist

THEOREM CreditInvAlways == Spec => []CreditInv
<1>1. Init => CreditInv
  BY BucketAssumption DEF Init, CreditInv, CreditKept
<1>2. TypeOK /\ CreditInv /\ [Next]_vars => CreditInv'
  <2> SUFFICES ASSUME TypeOK, CreditInv, [Next]_vars PROVE CreditInv'
    OBVIOUS
  <2>1. ASSUME NEW t \in 0 .. MaxClock, Reads(t) PROVE CreditInv'
    <3>1. t \in Nat /\ top \in Nat
      BY BucketAssumption DEF TypeOK
    <3>2. /\ clock' = t /\ top' = Greatest(top, t)
          /\ classTokenBucket' = classTokenBucket
          /\ born' = born /\ spent' = spent
      BY <2>1 DEF Reads, classVars
    <3>3. t <= top' /\ top <= top' /\ top' \in Nat
      BY <3>1, <3>2 DEF Greatest
    <3>4. ASSUME classTokenBucket # NoBucket
          PROVE  classTokenBucket.lastRefillMs \in Nat
      BY <3>4 DEF TypeOK, Bucket
    <3>5. Rate' = Rate
      BY DEF Rate, RefillRate
    <3>6. ASSUME classTokenBucket # NoBucket
          PROVE  classTokenBucket.lastRefillMs <= top'
      BY <3>1, <3>3, <3>4, <3>6 DEF CreditInv, CreditKept
    <3> QED BY <3>2, <3>3, <3>5, <3>6 DEF CreditInv, CreditKept
  <2>2. ASSUME NEW p \in Policy, PolicyChanges(p) PROVE CreditInv'
    BY <2>2, UntouchedIsKept DEF PolicyChanges, classVars
  <2>3. ASSUME NEW share \in BOOLEAN, Decides(share) PROVE CreditInv'
    BY <2>3, UntouchedIsKept DEF Decides, classVars
  <2>4. ASSUME NEW a \in answers, Receives(a) PROVE CreditInv'
    <3>1. /\ a.policy \in Policy /\ ApplyClassPolicy(NormalizeResult(a.policy))
          /\ clock' = clock /\ clock \in Nat /\ SafestCapHs \in Nat
      BY <2>4, RateFacts DEF Receives, TypeOK, Answer
    <3>2. CASE classTokenBucket' = NoBucket /\ UNCHANGED bucketHist
      BY <3>1, <3>2, UntouchedIsKept
    <3>3. CASE /\ classTokenBucket' = NewBucket(SafestCapHs, clock)
               /\ born' = clock /\ top' = clock /\ spent' = 0
      <4> DEFINE n == NewBucket(SafestCapHs, clock)
      <4>1. /\ n \in Bucket /\ n.refillPerSec = Rate /\ n.currentUnits = 0
            /\ n.lastRefillMs = clock
        BY <3>1, NewBucketFacts DEF Rate
      <4>2. classTokenBucket' = n
        BY <3>3
      <4> HIDE DEF n
      <4>3. n.capacityUnits \in Nat /\ 0 + n.currentUnits = 0
        BY <4>1 DEF Bucket
      <4>4. Rate * (clock - clock) = 0 /\ Rate' = Rate
        BY <3>1, RateFacts DEF Rate, RefillRate
      <4> QED BY <3>1, <3>3, <4>1, <4>2, <4>3, <4>4 DEF CreditInv, CreditKept
    <3>4. CASE /\ classTokenBucket \in Bucket /\ classTokenBucket # NoBucket
               /\ classTokenBucket' =
                    UpdateParams(classTokenBucket, SafestCapHs, clock)
               /\ UNCHANGED bucketHist
      <4> DEFINE n == UpdateParams(classTokenBucket, SafestCapHs, clock)
      <4>1. classTokenBucket.refillPerSec = Rate
        BY <3>4 DEF CreditInv, CreditKept
      <4>2. /\ n \in Bucket /\ n.refillPerSec = Rate
            /\ n.lastRefillMs = Greatest(classTokenBucket.lastRefillMs, clock)
            /\ n.currentUnits <= classTokenBucket.currentUnits
                                   + Rate * Elapsed(classTokenBucket, clock)
            /\ n.currentUnits <= n.capacityUnits
        BY <3>1, <3>4, <4>1, UpdateFacts DEF Rate
      <4>3. classTokenBucket' = n
        BY <3>4
      <4> HIDE DEF n
      <4>4. n.currentUnits + 0 = n.currentUnits /\ spent' = spent + 0
        BY <3>4, <4>2 DEF Bucket, TypeOK, bucketHist
      <4>5. UNCHANGED <<clock, born, top>>
        BY <3>1, <3>4 DEF bucketHist
      <4> QED BY <3>4, <4>2, <4>3, <4>4, <4>5, UpToDateIsKept
    <3> QED BY <3>1, <3>2, <3>3, <3>4, ApplyFacts
  <2>5. ASSUME NEW cost \in Costs, ChangeDifficulty(cost) PROVE CreditInv'
    BY <2>5, UntouchedIsKept DEF ChangeDifficulty, classVars
  <2>6. CASE PassesUngated
    BY <2>6, UntouchedIsKept DEF PassesUngated, Gate, bucketHist
  <2>7. CASE Passes \/ Exceeds
    <3> DEFINE r == Refill(classTokenBucket, clock)
    <3>1. /\ classTokenBucket \in Bucket /\ classTokenBucket # NoBucket
          /\ clock \in Nat /\ sessionCost \in Nat /\ spent \in Nat
      BY <2>7, GateFacts, BucketAssumption DEF TypeOK, Passes, Exceeds
    <3>2. /\ classTokenBucket.refillPerSec = Rate
          /\ classTokenBucket.currentUnits <= classTokenBucket.capacityUnits
      BY <3>1 DEF CreditInv, CreditKept
    <3>3. /\ r \in Bucket /\ r.refillPerSec = Rate
          /\ r.lastRefillMs = Greatest(classTokenBucket.lastRefillMs, clock)
          /\ r.currentUnits <= classTokenBucket.currentUnits
                                 + Rate * Elapsed(classTokenBucket, clock)
          /\ r.currentUnits <= r.capacityUnits
          /\ r.currentUnits \in Nat /\ r.capacityUnits \in Nat
      <4>1. /\ r \in Bucket /\ r.refillPerSec = Rate
            /\ r.lastRefillMs = Greatest(classTokenBucket.lastRefillMs, clock)
            /\ r.currentUnits <= classTokenBucket.currentUnits
                                   + Rate * Elapsed(classTokenBucket, clock)
            /\ r.currentUnits <= r.capacityUnits
        BY <3>1, <3>2, RefillFacts
      <4> HIDE DEF r
      <4> QED BY <4>1 DEF Bucket
    <3>4. UNCHANGED <<clock, born, top>>
      BY <2>7, GateFacts
    <3>5. CASE /\ sessionCost <= r.currentUnits
               /\ classTokenBucket' = [r EXCEPT !.currentUnits = @ - sessionCost]
               /\ spent' = spent + sessionCost
      <4> DEFINE n == [r EXCEPT !.currentUnits = @ - sessionCost]
      <4> HIDE DEF r
      <4>1. /\ n \in Bucket /\ n.refillPerSec = r.refillPerSec
            /\ n.lastRefillMs = r.lastRefillMs
            /\ n.currentUnits = r.currentUnits - sessionCost
            /\ n.capacityUnits = r.capacityUnits
        BY <3>1, <3>3, <3>5, ConsumeFacts
      <4>2. classTokenBucket' = n
        BY <3>5
      <4> HIDE DEF n
      <4>3. n.currentUnits <= n.capacityUnits
        BY <3>1, <3>3, <4>1
      <4>4. n.currentUnits + sessionCost = r.currentUnits
        BY <3>1, <3>3, <4>1
      <4> QED BY <3>1, <3>3, <3>4, <3>5, <4>1, <4>2, <4>3, <4>4, UpToDateIsKept
    <3>6. CASE classTokenBucket' = r /\ spent' = spent
      <4> HIDE DEF r
      <4>1. r.currentUnits + 0 = r.currentUnits /\ spent' = spent + 0
        BY <3>1, <3>3, <3>6
      <4> QED BY <3>1, <3>3, <3>4, <3>6, <4>1, UpToDateIsKept
    <3> QED BY <2>7, <3>5, <3>6, GateFacts
  <2>8. CASE Destroy
    BY <2>8, UntouchedIsKept DEF Destroy
  <2>9. CASE UNCHANGED vars
    BY <2>9, UntouchedIsKept DEF vars, classVars
  <2> QED
    BY <2>1, <2>2, <2>3, <2>4, <2>5, <2>6, <2>7, <2>8, <2>9 DEF Next, ClockMoves
<1> QED BY <1>1, <1>2, BucketTyped, PTL DEF Spec

(* A bucket never holds more than its capacity (TokenBucket.refill,        *)
(* updateParams).                                                          *)
THEOREM WithinCapacityAlways == Spec => []WithinCapacity
<1>1. CreditInv => WithinCapacity
  BY DEF CreditInv, CreditKept, WithinCapacity
<1> QED BY <1>1, CreditInvAlways, PTL

(* Every second of the wall clock is credited at most once, whatever the   *)
(* clock does (TokenBucket.refill).                                        *)
THEOREM CreditedOnceAlways == Spec => []CreditedOnce
<1>1. TypeOK /\ CreditInv => CreditedOnce
  <2> SUFFICES ASSUME TypeOK, CreditInv, classTokenBucket # NoBucket
               PROVE  spent + classTokenBucket.currentUnits <= Rate * (top - born)
    BY DEF CreditedOnce
  <2> DEFINE last == classTokenBucket.lastRefillMs
  <2>1. /\ last \in Nat /\ classTokenBucket.currentUnits \in Nat
        /\ born \in Nat /\ top \in Nat /\ spent \in Nat /\ Rate \in Nat
    BY RateFacts DEF TypeOK, Bucket
  <2>2. /\ born <= last /\ last <= top
        /\ spent + classTokenBucket.currentUnits <= Rate * (last - born)
    BY DEF CreditInv, CreditKept
  <2> HIDE DEF last
  <2>3. /\ last - born \in Nat /\ top - born \in Nat
        /\ last - born <= top - born
    BY <2>1, <2>2
  <2>4. Rate * (last - born) <= Rate * (top - born)
    BY <2>1, <2>3, MulMono
  <2>5. Rate * (last - born) \in Nat /\ Rate * (top - born) \in Nat
    BY <2>1, <2>3, MulNat
  <2> QED BY <2>1, <2>2, <2>4, <2>5
<1> QED BY <1>1, BucketTyped, CreditInvAlways, PTL

-----------------------------------------------------------------------------
\* A step that leaves the clock, the bucket and the shares alone, or drops
\* the bucket, keeps the allowance.
LEMMA UntouchedAllowance ==
    ASSUME AllowanceInv, UNCHANGED <<clock, advanced, accepted>>,
           classTokenBucket' \in {classTokenBucket, NoBucket}
    PROVE  AllowanceInv'
<1>1. Rate' = Rate
  BY DEF Rate, RefillRate
<1> QED BY <1>1 DEF AllowanceInv, Elapsed

\* A bucket that was brought up to date is owed nothing more.
LEMMA UpToDateAllowance ==
    ASSUME TypeOK, AllowanceInv, Enforced, classTokenBucket \in Bucket,
           classTokenBucket # NoBucket,
           NEW cost \in Nat, NEW n \in Bucket, classTokenBucket' = n,
           accepted' = accepted + cost, UNCHANGED <<clock, advanced>>,
           n.lastRefillMs = Greatest(classTokenBucket.lastRefillMs, clock),
           n.currentUnits + cost <= classTokenBucket.currentUnits
                                      + Rate * Elapsed(classTokenBucket, clock)
    PROVE  AllowanceInv'
<1> DEFINE last == classTokenBucket.lastRefillMs
           owed == Rate * Elapsed(classTokenBucket, clock)
           all == Rate * advanced
<1>1. /\ clock \in Nat /\ accepted \in Nat /\ advanced \in Nat /\ Rate \in Nat
      /\ last \in Nat /\ classTokenBucket.currentUnits \in Nat
      /\ n.currentUnits \in Nat /\ owed \in Nat /\ all \in Nat
  BY BucketFields, RateFacts, MulNat DEF TypeOK
<1>2. accepted + classTokenBucket.currentUnits + owed <= all
  BY DEF AllowanceInv
<1>3. n.currentUnits + cost <= classTokenBucket.currentUnits + owed
  OBVIOUS
<1>4. Elapsed(n, clock) = 0
  <2>1. n.lastRefillMs \in Nat /\ clock <= n.lastRefillMs
    BY <1>1 DEF Greatest
  <2> QED BY <1>1, <2>1 DEF Elapsed, Greatest
<1>5. Rate * 0 = 0 /\ Rate' = Rate
  BY <1>1 DEF Rate, RefillRate
<1>6. /\ Elapsed(classTokenBucket, clock)' = Elapsed(n, clock)
      /\ (Rate * advanced)' = all
  BY <1>5 DEF Elapsed
<1> HIDE DEF owed, all
<1>7. (accepted + cost) + n.currentUnits + 0 <= all /\ accepted + cost <= all
  BY <1>1, <1>2, <1>3
<1> QED BY <1>4, <1>5, <1>6, <1>7 DEF AllowanceInv

\* Setting the clock to t takes nothing from the allowance.
LEMMA ReadsAllowance ==
    ASSUME TypeOK, AllowanceInv, NEW t \in Nat, clock' = t,
           advanced' = advanced + Greatest(0, t - clock),
           UNCHANGED <<classTokenBucket, accepted>>
    PROVE  AllowanceInv'
<1> DEFINE d == Greatest(0, t - clock)
<1>1. /\ clock \in Nat /\ advanced \in Nat /\ accepted \in Nat /\ Rate \in Nat
      /\ d \in Nat /\ advanced' = advanced + d
  BY RateFacts DEF TypeOK, Greatest
<1>2. /\ Rate * (advanced + d) = Rate * advanced + Rate * d
      /\ Rate * advanced \in Nat /\ Rate * d \in Nat
  <2> HIDE DEF d
  <2> QED BY <1>1, MulAdd, MulNat
<1>3. (Rate * advanced)' = Rate * advanced + Rate * d
  <2>1. Rate' = Rate
    BY DEF Rate, RefillRate
  <2> QED BY <1>1, <1>2, <2>1
<1>4. ASSUME classTokenBucket # NoBucket
      PROVE  Rate * Elapsed(classTokenBucket, t)
               <= Rate * Elapsed(classTokenBucket, clock) + Rate * d
  <2> DEFINE now == Elapsed(classTokenBucket, clock)
             then == Elapsed(classTokenBucket, t)
  <2>1. classTokenBucket.lastRefillMs \in Nat
    BY <1>4 DEF TypeOK, Bucket
  <2>2. now \in Nat /\ then \in Nat /\ then <= now + d /\ now + d \in Nat
    BY <1>1, <2>1 DEF Elapsed, Greatest
  <2> HIDE DEF now, then, d
  <2>3. Rate * then <= Rate * (now + d)
    BY <1>1, <2>2, MulMono
  <2>4. Rate * (now + d) = Rate * now + Rate * d
    BY <1>1, <2>2, MulAdd
  <2> QED BY <2>3, <2>4 DEF now, then
<1>5. ASSUME classTokenBucket # NoBucket
      PROVE  /\ classTokenBucket.currentUnits \in Nat
             /\ Rate * Elapsed(classTokenBucket, clock) \in Nat
             /\ Rate * Elapsed(classTokenBucket, t) \in Nat
  BY <1>1, <1>5, BucketFields DEF TypeOK
<1>6. ASSUME Enforced
      PROVE  accepted' <= (Rate * advanced)'
  BY <1>1, <1>2, <1>3, <1>6 DEF AllowanceInv
<1>7. ASSUME Enforced, classTokenBucket # NoBucket
      PROVE  accepted + classTokenBucket.currentUnits
                 + Rate * Elapsed(classTokenBucket, t) <= (Rate * advanced)'
  <2>1. accepted + classTokenBucket.currentUnits
            + Rate * Elapsed(classTokenBucket, clock) <= Rate * advanced
    BY <1>7 DEF AllowanceInv
  <2> HIDE DEF d
  <2> QED BY <1>1, <1>2, <1>3, <1>4, <1>5, <1>7, <2>1
<1>8. (Rate * Elapsed(classTokenBucket, clock))'
        = Rate * Elapsed(classTokenBucket, t)
  BY DEF Rate, RefillRate, Elapsed
<1> QED BY <1>6, <1>7, <1>8 DEF AllowanceInv

(* With enforcement, the accepted shares are worth no more than the cap    *)
(* times the seconds that went by (classBucketGateRejected,                *)
(* applyClassPolicy, destroy).                                             *)
THEOREM AcceptedWithinAllowanceAlways == Spec => []AcceptedWithinAllowance
<1>1. Init => AllowanceInv
  <2> SUFFICES ASSUME Init PROVE AllowanceInv
    OBVIOUS
  <2>1. Rate * 0 = 0
    BY RateFacts
  <2> QED BY <2>1 DEF Init, AllowanceInv
<1>2. TypeOK /\ CreditInv /\ AllowanceInv /\ [Next]_vars => AllowanceInv'
  <2> SUFFICES ASSUME TypeOK, CreditInv, AllowanceInv, [Next]_vars, Enforced
               PROVE  AllowanceInv'
    BY DEF AllowanceInv
  <2>1. ASSUME NEW t \in 0 .. MaxClock, Reads(t) PROVE AllowanceInv'
    BY <2>1, ReadsAllowance, BucketAssumption DEF Reads, classVars
  <2>2. ASSUME NEW p \in Policy, PolicyChanges(p) PROVE AllowanceInv'
    BY <2>2, UntouchedAllowance DEF PolicyChanges, classVars
  <2>3. ASSUME NEW share \in BOOLEAN, Decides(share) PROVE AllowanceInv'
    BY <2>3, UntouchedAllowance DEF Decides, classVars
  <2>4. ASSUME NEW a \in answers, Receives(a) PROVE AllowanceInv'
    <3>1. /\ a.policy \in Policy /\ ApplyClassPolicy(NormalizeResult(a.policy))
          /\ UNCHANGED <<clock, advanced, accepted>>
          /\ clock \in Nat /\ accepted \in Nat /\ SafestCapHs \in Nat
      BY <2>4, RateFacts DEF Receives, TypeOK, Answer
    <3>2. CASE classTokenBucket' = NoBucket
      BY <3>1, <3>2, UntouchedAllowance
    <3>3. CASE classTokenBucket' = NewBucket(SafestCapHs, clock)
      <4> DEFINE n == NewBucket(SafestCapHs, clock)
      <4>1. n.currentUnits = 0 /\ n.lastRefillMs = clock
        BY <3>1, NewBucketFacts
      <4>2. classTokenBucket' = n
        BY <3>3
      <4> HIDE DEF n
      <4>3. Elapsed(n, clock) = 0 /\ Rate * 0 = 0 /\ Rate' = Rate
        BY <3>1, <4>1, RateFacts DEF Elapsed, Greatest, Rate, RefillRate
      <4>4. accepted <= Rate * advanced
        BY DEF AllowanceInv
      <4>5. Elapsed(classTokenBucket, clock)' = Elapsed(n, clock)
        BY <3>1, <4>2 DEF Elapsed
      <4>6. accepted + 0 + 0 <= Rate * advanced
        BY <3>1, <4>4
      <4> QED BY <3>1, <4>1, <4>2, <4>3, <4>4, <4>5, <4>6 DEF AllowanceInv
    <3>4. CASE /\ classTokenBucket \in Bucket /\ classTokenBucket # NoBucket
               /\ classTokenBucket' =
                    UpdateParams(classTokenBucket, SafestCapHs, clock)
      <4> DEFINE n == UpdateParams(classTokenBucket, SafestCapHs, clock)
      <4>1. classTokenBucket.refillPerSec = Rate
        BY <3>4 DEF CreditInv, CreditKept
      <4>2. /\ n \in Bucket
            /\ n.lastRefillMs = Greatest(classTokenBucket.lastRefillMs, clock)
            /\ n.currentUnits <= classTokenBucket.currentUnits
                                   + Rate * Elapsed(classTokenBucket, clock)
        BY <3>1, <3>4, <4>1, UpdateFacts
      <4>3. classTokenBucket' = n
        BY <3>4
      <4> HIDE DEF n
      <4>4. n.currentUnits + 0 = n.currentUnits /\ accepted' = accepted + 0
        BY <3>1, <4>2 DEF Bucket
      <4> QED BY <3>1, <3>4, <4>2, <4>3, <4>4, UpToDateAllowance
    <3> QED BY <3>1, <3>2, <3>3, <3>4, ApplyFacts
  <2>5. ASSUME NEW cost \in Costs, ChangeDifficulty(cost) PROVE AllowanceInv'
    BY <2>5, UntouchedAllowance DEF ChangeDifficulty, classVars
  <2>6. CASE PassesUngated
    BY <2>6, UntouchedAllowance DEF PassesUngated, Gate
  <2>7. CASE Passes \/ Exceeds
    <3> DEFINE r == Refill(classTokenBucket, clock)
    <3>1. /\ classTokenBucket \in Bucket /\ classTokenBucket # NoBucket
          /\ clock \in Nat /\ sessionCost \in Nat /\ accepted \in Nat
          /\ UNCHANGED <<clock, advanced>>
      BY <2>7, GateFacts, BucketAssumption DEF TypeOK, Passes, Exceeds
    <3>2. classTokenBucket.refillPerSec = Rate
      BY <3>1 DEF CreditInv, CreditKept
    <3>3. /\ r \in Bucket
          /\ r.lastRefillMs = Greatest(classTokenBucket.lastRefillMs, clock)
          /\ r.currentUnits <= classTokenBucket.currentUnits
                                 + Rate * Elapsed(classTokenBucket, clock)
      BY <3>1, <3>2, RefillFacts
    <3>4. CASE /\ sessionCost <= r.currentUnits
               /\ classTokenBucket' = [r EXCEPT !.currentUnits = @ - sessionCost]
               /\ accepted' = accepted + sessionCost
      <4> DEFINE n == [r EXCEPT !.currentUnits = @ - sessionCost]
      <4> HIDE DEF r
      <4>1. /\ n \in Bucket /\ n.lastRefillMs = r.lastRefillMs
            /\ n.currentUnits = r.currentUnits - sessionCost
        BY <3>1, <3>3, <3>4, ConsumeFacts
      <4>2. classTokenBucket' = n
        BY <3>4
      <4> HIDE DEF n
      <4>3. n.currentUnits + sessionCost = r.currentUnits
        BY <3>1, <3>3, <4>1 DEF Bucket
      <4> QED BY <3>1, <3>3, <3>4, <4>1, <4>2, <4>3, UpToDateAllowance
    <3>5. CASE classTokenBucket' = r /\ accepted' = accepted
      <4> HIDE DEF r
      <4>1. r.currentUnits + 0 = r.currentUnits /\ accepted' = accepted + 0
        BY <3>1, <3>3, <3>5 DEF Bucket
      <4> QED BY <3>1, <3>3, <3>5, <4>1, UpToDateAllowance
    <3> QED BY <2>7, <3>4, <3>5, GateFacts
  <2>8. CASE Destroy
    BY <2>8, UntouchedAllowance DEF Destroy
  <2>9. CASE UNCHANGED vars
    BY <2>9, UntouchedAllowance DEF vars, classVars
  <2> QED
    BY <2>1, <2>2, <2>3, <2>4, <2>5, <2>6, <2>7, <2>8, <2>9 DEF Next, ClockMoves
<1>3. AllowanceInv => AcceptedWithinAllowance
  BY DEF AllowanceInv, AcceptedWithinAllowance
<1> QED BY <1>1, <1>2, <1>3, BucketTyped, CreditInvAlways, PTL DEF Spec

-----------------------------------------------------------------------------
(* A live session with a class has a bucket, and no share reaches the gate *)
(* before the first policy is applied.                                     *)
GateGuarded ==
    /\ ~ungated
    /\ ~destroyed => /\ classId = "class" => classTokenBucket # NoBucket
                     /\ classId = "none" => gating = 0

\* A step that leaves the bucket and the shares on their way alone.
LEMMA UntouchedGuard ==
    ASSUME GateGuarded, UNCHANGED <<classId, classTokenBucket, gating, ungated>>,
           destroyed' = destroyed
    PROVE  GateGuarded'
BY DEF GateGuarded

(* No share of a live session passes without a bucket, unless its last     *)
(* policy is bypass, whatever fields the backend leaves out                *)
(* (applyClassPolicy, classBucketGateRejected).                            *)
THEOREM FailsClosedAlways == Spec => []FailsClosed
<1>1. Init => GateGuarded
  BY DEF Init, GateGuarded
<1>2. TypeOK /\ GateGuarded /\ [Next]_vars => GateGuarded'
  <2> SUFFICES ASSUME TypeOK, GateGuarded, [Next]_vars
               PROVE  GateGuarded'
    OBVIOUS
  <2>1. CASE ClockMoves
    BY <2>1, UntouchedGuard DEF ClockMoves, Reads, shareVars, classVars
  <2>2. ASSUME NEW p \in Policy, PolicyChanges(p) PROVE GateGuarded'
    BY <2>2, UntouchedGuard DEF PolicyChanges, shareVars, classVars
  <2>3. ASSUME NEW share \in BOOLEAN, Decides(share) PROVE GateGuarded'
    BY <2>3, UntouchedGuard DEF Decides, shareVars, classVars
  <2>4. ASSUME NEW a \in answers, Receives(a) PROVE GateGuarded'
    <3>1. /\ a.policy \in Policy /\ ApplyClassPolicy(NormalizeResult(a.policy))
          /\ destroyed' = destroyed /\ ungated' = ungated
          /\ clock \in Nat /\ SafestCapHs \in Nat
      BY <2>4, RateFacts DEF Receives, TypeOK, Answer
    <3>2. \/ classId' = "bypass"
          \/ classId' = "class" /\ classTokenBucket' # NoBucket
      <4>1. CASE NormalizeResult(a.policy).mode = "bypass"
        BY <3>1, <4>1 DEF ApplyClassPolicy
      <4>2. CASE NormalizeResult(a.policy).mode # "bypass"
        <5>1. classId' = "class"
          BY <3>1, <4>2 DEF ApplyClassPolicy
        <5>2. NormalizeResult(a.policy).targetHashrateHs = NoTarget
          BY <3>1 DEF NormalizeResult, Policy
        <5>3. TargetOf(NormalizeResult(a.policy)) = SafestCapHs
          BY <5>2 DEF TargetOf
        <5>4. CASE classTokenBucket = NoBucket
          <6>1. classTokenBucket' = NewBucket(SafestCapHs, clock)
            BY <3>1, <4>2, <5>3, <5>4 DEF ApplyClassPolicy
          <6>2. NewBucket(SafestCapHs, clock) \in Bucket
            BY <3>1, NewBucketFacts
          <6> QED BY <5>1, <6>1, <6>2, NullAssumption
        <5>5. CASE classTokenBucket # NoBucket
          <6>1. classTokenBucket'
                  = UpdateParams(classTokenBucket, SafestCapHs, clock)
            BY <3>1, <4>2, <5>3, <5>5 DEF ApplyClassPolicy
          <6>2. classTokenBucket \in Bucket
            BY <5>5 DEF TypeOK
          <6>3. UpdateParams(classTokenBucket, SafestCapHs, clock) \in Bucket
            BY <3>1, <6>2, UpdateFacts
          <6> QED BY <5>1, <6>1, <6>3, NullAssumption
        <5> QED BY <5>4, <5>5
      <4> QED BY <4>1, <4>2
    <3> QED BY <3>1, <3>2 DEF GateGuarded
  <2>5. ASSUME NEW cost \in Costs, ChangeDifficulty(cost) PROVE GateGuarded'
    BY <2>5, UntouchedGuard DEF ChangeDifficulty, classVars
  <2>6. CASE PassesUngated
    <3>1. /\ gating > 0 /\ classTokenBucket = NoBucket
          /\ ungated' = (ungated \/ (classId # "bypass" /\ ~destroyed))
          /\ UNCHANGED <<classId, classTokenBucket, destroyed>>
          /\ gating \in Nat /\ gating' = gating - 1
          /\ classId \in {"none", "class", "bypass"}
      BY <2>6 DEF PassesUngated, Gate, TypeOK
    <3>2. ~destroyed => classId = "bypass"
      BY <3>1 DEF GateGuarded
    <3> QED BY <3>1, <3>2 DEF GateGuarded
  <2>7. CASE Passes \/ Exceeds
    <3> DEFINE r == Refill(classTokenBucket, clock)
    <3>1. /\ classTokenBucket \in Bucket
          /\ UNCHANGED <<classId, destroyed, ungated>>
          /\ gating > 0 /\ gating' = gating - 1
          /\ clock \in Nat /\ sessionCost \in Nat /\ gating \in Nat
      BY <2>7, GateFacts, BucketAssumption DEF TypeOK
    <3>2. r \in Bucket
      BY <3>1, RefillFacts
    <3>3. \/ /\ sessionCost <= r.currentUnits
             /\ classTokenBucket' = [r EXCEPT !.currentUnits = @ - sessionCost]
          \/ classTokenBucket' = r
      BY <2>7, GateFacts
    <3> HIDE DEF r
    <3>4. classTokenBucket' \in Bucket
      BY <3>1, <3>2, <3>3, ConsumeFacts
    <3>5. classTokenBucket' # NoBucket
      BY <3>4, NullAssumption
    <3> QED BY <3>1, <3>5 DEF GateGuarded
  <2>8. CASE Destroy
    BY <2>8 DEF Destroy, GateGuarded
  <2>9. CASE UNCHANGED vars
    BY <2>9, UntouchedGuard DEF vars, shareVars, classVars
  <2> QED
    BY <2>1, <2>2, <2>3, <2>4, <2>5, <2>6, <2>7, <2>8, <2>9 DEF Next
<1>3. GateGuarded => FailsClosed
  BY DEF GateGuarded, FailsClosed
<1> QED BY <1>1, <1>2, <1>3, BucketTyped, PTL DEF Spec
=============================================================================
