---------------------------- MODULE ClassBucket ----------------------------
(***************************************************************************)
(* The hashrate cap of one stratum session: the class policy that an       *)
(* allowed authorization carries, the token bucket it creates and updates, *)
(* and the gate that a share of sufficient difficulty passes               *)
(* (StratumV1Client, MiningAuthzService, TokenBucket).                     *)
(*                                                                         *)
(* Units are hashes; time is in seconds of the wall clock, which an        *)
(* operator or NTP may set forwards and backwards.  The floating point     *)
(* numbers of the code are integers here.                                  *)
(***************************************************************************)
EXTENDS Integers, FiniteSets

CONSTANTS Targets,         \* targetHashrateHs of the backend's classes
          NoTarget,        \* a policy without the field
          SafestCapHs,     \* SAFEST_CAP_HS
          HourSec,         \* seconds of refill that a bucket holds: 3600
          FourSharesUnits, \* 4 * poolDiffFloor * 2^32
          Costs,           \* difficulty * 2^32 of the session difficulties
          Enforced,        \* MINING_BUCKET_ENFORCEMENT_ENABLED
          NoBucket,
          MaxClock,        \* bound: readings of the wall clock
          MaxAdvance,      \* bound: seconds that the wall clock goes forward
          MaxCalls         \* bound: authorizations, shares in flight

ASSUME BucketAssumption ==
    /\ Targets \subseteq Nat /\ NoTarget \notin Nat
    /\ SafestCapHs \in Nat /\ HourSec \in Nat /\ FourSharesUnits \in Nat
    /\ Costs \subseteq Nat
    /\ Enforced \in BOOLEAN
    /\ MaxClock \in Nat /\ MaxAdvance \in Nat /\ MaxCalls \in Nat

VARIABLES
    clock,                   \* Date.now()
    policy,                  \* the backend: the device's mode and class
    answers,                 \* authorizations decided, not yet received
    gating,                  \* shares authorized, not yet at the gate
    sessionCost,             \* shareCostUnits(sessionDifficulty)
    classId,                 \* "none", "class" or "bypass"
    classTokenBucket,
    destroyed,
    \* history
    advanced,                \* seconds the clock went forward in the session
    born, top, spent,        \* of the bucket: the clock when it was created,
                             \* its highest reading since, units consumed
    accepted,                \* units of all shares that a bucket let pass
    ungated                  \* a share passed with no bucket and no bypass

backendVars == <<policy, answers>>
shareVars   == <<gating, sessionCost>>
classVars   == <<classId, classTokenBucket>>
bucketHist  == <<born, top, spent>>
vars == <<clock, backendVars, shareVars, classVars, destroyed, advanced,
          bucketHist, accepted, ungated>>

Least(a, b)    == IF a <= b THEN a ELSE b
Greatest(a, b) == IF a >= b THEN a ELSE b

Policy == [mode : {"managed", "bypass"}, targetHashrateHs : Targets \cup {NoTarget}]
Answer == [share : BOOLEAN, policy : Policy]
Bucket == [capacityUnits : Nat, refillPerSec : Nat, currentUnits : Nat,
           lastRefillMs : Nat]

ASSUME NullAssumption == NoBucket \notin Bucket

TypeOK ==
    /\ clock \in Nat
    /\ policy \in Policy
    /\ answers \subseteq Answer
    /\ gating \in Nat
    /\ sessionCost \in Costs
    /\ classId \in {"none", "class", "bypass"}
    /\ classTokenBucket \in Bucket \cup {NoBucket}
    /\ destroyed \in BOOLEAN
    /\ advanced \in Nat
    /\ born \in Nat /\ top \in Nat /\ spent \in Nat
    /\ accepted \in Nat
    /\ ungated \in BOOLEAN

Init ==
    /\ clock \in 0 .. MaxClock
    /\ policy \in Policy
    /\ answers = {} /\ gating = 0
    /\ sessionCost \in Costs
    /\ classId = "none" /\ classTokenBucket = NoBucket
    /\ destroyed = FALSE
    /\ advanced = 0
    /\ born = clock /\ top = clock /\ spent = 0
    /\ accepted = 0 /\ ungated = FALSE

-----------------------------------------------------------------------------
(***************************************************************************)
(* TokenBucket: the constructor and the methods, on a bucket b at the time *)
(* now.                                                                    *)
(***************************************************************************)
RefillRate(target) == Greatest(1, target)
ComputeCapacity(refill) == Greatest(refill * HourSec, FourSharesUnits)

\* Mutant: a new bucket starts full.
NewFullBucket(target, now) ==
    [capacityUnits |-> ComputeCapacity(RefillRate(target)),
     refillPerSec  |-> RefillRate(target),
     currentUnits  |-> ComputeCapacity(RefillRate(target)),
     lastRefillMs  |-> now]

NewBucket(target, now) ==
    [capacityUnits |-> ComputeCapacity(RefillRate(target)),
     refillPerSec  |-> RefillRate(target),
     currentUnits  |-> 0,
     lastRefillMs  |-> now]

\* Mutant: the refill is not capped.
UncappedRefill(b, now) ==
    IF now <= b.lastRefillMs THEN b
    ELSE [b EXCEPT !.currentUnits = @ + (now - b.lastRefillMs) * b.refillPerSec,
                   !.lastRefillMs = now]

\* Mutant: lastRefillMs follows a clock that was set back.
RefillTurningBack(b, now) ==
    [b EXCEPT
       !.currentUnits =
          Least(b.capacityUnits,
                @ + Greatest(0, now - b.lastRefillMs) * b.refillPerSec),
       !.lastRefillMs = now]

Refill(b, now) ==
    IF now <= b.lastRefillMs THEN b
    ELSE [b EXCEPT
            !.currentUnits =
               Least(b.capacityUnits, @ + (now - b.lastRefillMs) * b.refillPerSec),
            !.lastRefillMs = now]

\* The elapsed time is credited at the old rate.
UpdateParams(b, target, now) ==
    LET old == Refill(b, now)
        newCapacity == ComputeCapacity(RefillRate(target))
    IN  [old EXCEPT !.refillPerSec  = RefillRate(target),
                    !.capacityUnits = newCapacity,
                    !.currentUnits  = Least(@, newCapacity)]

\* Mutant: only the capacity is compared with the cost.
WithinCapacityOnly(b, cost) == cost <= b.capacityUnits

\* tryConsume on a bucket that has been refilled.
Affords(b, cost) == cost <= b.capacityUnits /\ cost <= b.currentUnits

-----------------------------------------------------------------------------
(***************************************************************************)
(* The wall clock: a second passes, or it is set.                          *)
(***************************************************************************)
Reads(t) ==
    /\ clock' = t
    /\ advanced' = advanced + Greatest(0, t - clock)
    /\ advanced' <= MaxAdvance
    /\ top' = Greatest(top, t)
    /\ UNCHANGED <<backendVars, shareVars, classVars, destroyed, born, spent,
                   accepted, ungated>>

ClockMoves == \E t \in 0 .. MaxClock : t # clock /\ Reads(t)

(***************************************************************************)
(* The backend: an administrator changes the device's policy; it decides   *)
(* an authorization (of a share, or of a device proof, a job or the 15 s   *)
(* timer).  Its answers may arrive in another order.                       *)
(***************************************************************************)
PolicyChanges(p) ==
    /\ p # policy
    /\ policy' = p
    /\ UNCHANGED <<clock, answers, shareVars, classVars, destroyed, advanced,
                   bucketHist, accepted, ungated>>

Decides(share) ==
    /\ ~destroyed
    /\ Cardinality(answers) + gating < MaxCalls
    /\ answers' = answers \cup {[share |-> share, policy |-> policy]}
    /\ UNCHANGED <<clock, policy, shareVars, classVars, destroyed, advanced,
                   bucketHist, accepted, ungated>>

(***************************************************************************)
(* The pool keeps allowed, reason and mode of an answer.                   *)
(***************************************************************************)
NormalizeResult(p) == [p EXCEPT !.targetHashrateHs = NoTarget]

TargetOf(result) ==
    IF result.targetHashrateHs # NoTarget /\ result.targetHashrateHs > 0
      THEN result.targetHashrateHs ELSE SafestCapHs

\* Mutant: a policy without a class leaves the session uncapped.
ApplyIfClassKnown(result) ==
    IF result.mode = "bypass" \/ result.targetHashrateHs = NoTarget
      THEN /\ classId' = IF result.mode = "bypass" THEN "bypass" ELSE "class"
           /\ classTokenBucket' = NoBucket
           /\ UNCHANGED bucketHist
      ELSE /\ classId' = "class"
           /\ classTokenBucket' = NewBucket(TargetOf(result), clock)
           /\ born' = clock /\ top' = clock /\ spent' = 0

ApplyClassPolicy(result) ==
    IF result.mode = "bypass"
      THEN /\ classId' = "bypass" /\ classTokenBucket' = NoBucket
           /\ UNCHANGED bucketHist
    ELSE IF classTokenBucket = NoBucket
      THEN /\ classId' = "class"
           /\ classTokenBucket' = NewBucket(TargetOf(result), clock)
           /\ born' = clock /\ top' = clock /\ spent' = 0
      ELSE /\ classId' = "class"
           /\ classTokenBucket' =
                UpdateParams(classTokenBucket, TargetOf(result), clock)
           /\ UNCHANGED bucketHist

Receives(a) ==
    /\ answers' = answers \ {a}
    /\ gating' = IF a.share THEN gating + 1 ELSE gating
    /\ ApplyClassPolicy(NormalizeResult(a.policy))
    /\ UNCHANGED <<clock, policy, sessionCost, destroyed, advanced, accepted,
                   ungated>>

-----------------------------------------------------------------------------
(***************************************************************************)
(* The difficulty timer, a suggestion or cpuminer set the difficulty.      *)
(***************************************************************************)
ChangeDifficulty(cost) ==
    /\ ~destroyed
    /\ cost # sessionCost
    /\ sessionCost' = cost
    /\ UNCHANGED <<clock, backendVars, gating, classVars, destroyed, advanced,
                   bucketHist, accepted, ungated>>

(***************************************************************************)
(* A share of sufficient difficulty at the gate.  Between the answer and   *)
(* the gate the handler awaits the session's entity.                       *)
(***************************************************************************)
Gate ==
    /\ gating > 0
    /\ gating' = gating - 1
    /\ UNCHANGED <<clock, backendVars, sessionCost, classId, destroyed, advanced,
                   born, top>>

PassesUngated ==
    /\ Gate
    /\ classTokenBucket = NoBucket
    /\ ungated' = (ungated \/ (classId # "bypass" /\ ~destroyed))
    /\ UNCHANGED <<classTokenBucket, spent, accepted>>

Passes ==
    /\ Gate
    /\ classTokenBucket # NoBucket
    /\ LET b == Refill(classTokenBucket, clock)
       IN  /\ Affords(b, sessionCost)
           /\ classTokenBucket' = [b EXCEPT !.currentUnits = @ - sessionCost]
    /\ spent' = spent + sessionCost
    /\ accepted' = accepted + sessionCost
    /\ UNCHANGED ungated

\* Without enforcement the share is accepted all the same.
Exceeds ==
    /\ Gate
    /\ classTokenBucket # NoBucket
    /\ LET b == Refill(classTokenBucket, clock)
       IN  ~Affords(b, sessionCost) /\ classTokenBucket' = b
    /\ accepted' = IF Enforced THEN accepted ELSE accepted + sessionCost
    /\ UNCHANGED <<spent, ungated>>

(***************************************************************************)
(* The session is destroyed; handlers in flight go on.                     *)
(***************************************************************************)
Destroy ==
    /\ ~destroyed
    /\ destroyed' = TRUE
    /\ classId' = "none" /\ classTokenBucket' = NoBucket
    /\ UNCHANGED <<clock, backendVars, shareVars, advanced, bucketHist, accepted,
                   ungated>>

Next ==
    \/ ClockMoves
    \/ \E p \in Policy : PolicyChanges(p)
    \/ \E share \in BOOLEAN : Decides(share)
    \/ \E a \in answers : Receives(a)
    \/ \E cost \in Costs : ChangeDifficulty(cost)
    \/ PassesUngated \/ Passes \/ Exceeds
    \/ Destroy

Spec == Init /\ [][Next]_vars

-----------------------------------------------------------------------------
Rate == RefillRate(SafestCapHs)

(***************************************************************************)
(* A bucket never holds more than its capacity: an idle miner saves up an  *)
(* hour of hashing and no more.                                            *)
(***************************************************************************)
WithinCapacity ==
    classTokenBucket # NoBucket =>
        classTokenBucket.currentUnits <= classTokenBucket.capacityUnits

(***************************************************************************)
(* Every second of the wall clock is credited to a bucket at most once,    *)
(* although the clock is set back and the parameters are updated with      *)
(* every authorization.                                                    *)
(***************************************************************************)
CreditedOnce ==
    classTokenBucket # NoBucket =>
        spent + classTokenBucket.currentUnits <= Rate * (top - born)

(***************************************************************************)
(* With enforcement, the shares that a session's buckets let pass are      *)
(* worth no more than the cap for the seconds that the wall clock went     *)
(* forward: dropping the bucket (bypass, destroy) and creating it anew     *)
(* grants no burst.                                                        *)
(***************************************************************************)
AcceptedWithinAllowance == Enforced => accepted <= Rate * advanced

(***************************************************************************)
(* A live session whose last policy is not bypass has a bucket at the      *)
(* gate, whatever fields its policy lacks.                                 *)
(***************************************************************************)
FailsClosed == ~ungated
=============================================================================
