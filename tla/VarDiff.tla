------------------------------- MODULE VarDiff -------------------------------
(***************************************************************************)
(* The difficulty of a session: set by initStratum, by suggestions of the  *)
(* miner and every minute by checkDifficulty, and told to the miner with   *)
(* mining.set_difficulty, which takes effect with the job that follows.    *)
(*                                                                         *)
(* checkDifficulty asks StratumV1ClientStatistics for a difficulty.  With  *)
(* too few shares in its cache, and a minute gone, that is about a sixth   *)
(* of the present one; otherwise it follows the work per second of the     *)
(* cached shares, if that is off by more than a factor of two.  Both are   *)
(* rounded down to a power of two, on 32-bit integers, or below one to a   *)
(* power of two of the first of 1/100, 1/10000, ... that is not above.     *)
(* After a change the miner is told and sent a job.                        *)
(*                                                                         *)
(* Difficulties are integers in the smallest of these units.  Of a number  *)
(* that has no room in a 31-bit word the low bits decide: what comes out   *)
(* may be the power of two of anything, or the recursion never ends.       *)
(* Handlers of suggestions, templates and checks run concurrently between  *)
(* their awaits.                                                           *)
(***************************************************************************)
EXTENDS Integers, Sequences, FiniteSets

CONSTANTS Scale,          \* the 100 of nearestPowerOfTwo
          One, Units,     \* difficulty 1, and the units 1, Scale, ... up to it
          MinDiff, MaxDiff, InitDiff,      \* the chain profile
          CpuDiff,        \* 0.1, for cpuminer
          TargetRate,     \* STRATUM_TARGET_SHARES_PER_SEC
          CacheSize,      \* CACHE_SIZE
          MinShares,      \* shares that give a rate: 5
          MaxWord,        \* 2^31 - 1, or less: the largest integer of a word
          Suggested,      \* difficulties that miners suggest
          MaxSuggestions, \* bound: suggestions handled at a time
          MaxSends,       \* bound: jobs being sent at a time
          MaxGap          \* bound: a longer time between shares counts as this

ASSUME DiffAssumption ==
    /\ Scale \in Nat \ {0, 1} /\ TargetRate \in Nat \ {0}
    /\ One \in Nat /\ {1, One} \subseteq Units /\ Units \subseteq 1..One
    /\ \A u \in Units \ {One} : u * Scale \in Units
    /\ MinDiff \in Nat \ {0} /\ MaxDiff \in Nat /\ InitDiff \in MinDiff..MaxDiff
    /\ MaxWord \in Nat /\ Scale <= MaxWord
    /\ CpuDiff \in Nat /\ Suggested \subseteq Nat
    /\ CacheSize \in Nat /\ MinShares \in 1..(CacheSize + 1)
    /\ MaxSuggestions \in Nat /\ MaxSends \in Nat \ {0} /\ MaxGap \in Nat

VARIABLES
    sessionDifficulty,
    told,                 \* the last difficulty written to the miner, or 0
    jobDifficulty,        \* what was told when the last job was sent, or 0
    phase,                \* "new", "starting" or "up"
    agent,                \* what the miner calls itself
    suggested,            \* clientSuggestedDifficulty is set
    used,                 \* usedSuggestedDifficulty
    suggestions,          \* handlers of suggestions
    sends,                \* jobs being sent
    submissionCache,      \* difficulty of a share and time since the one before
    sinceShare,           \* time since the last share
    overMinute,           \* a minute has passed since submissionCacheStart
    crashed,              \* the process ended
    late,                 \* history: a suggestion was taken after a job
    silent                \* history: a difficulty was set and not told

toldVars  == <<sessionDifficulty, told, late, silent>>
jobVars   == <<jobDifficulty, sends>>
miner     == <<agent, suggested, used, suggestions>>
cacheVars == <<submissionCache, sinceShare, overMinute>>
diffVars == <<toldVars, jobVars, miner, cacheVars, phase, crashed>>

Share      == [difficulty : MinDiff..MaxDiff, gap : 0..MaxGap]
Suggestion == [value : Suggested, stage : {"validate", "write"}]

DiffTypeOK ==
    /\ sessionDifficulty \in MinDiff..MaxDiff
    /\ told \in {0} \cup MinDiff..MaxDiff
    /\ jobDifficulty \in {0} \cup MinDiff..MaxDiff
    /\ phase \in {"new", "starting", "up"}
    /\ agent \in {"cpuminer", "other"}
    /\ suggested \in BOOLEAN /\ used \in BOOLEAN
    /\ suggestions \subseteq Suggestion
    /\ sends \in 0..MaxSends
    /\ submissionCache \in Seq(Share) /\ Len(submissionCache) <= CacheSize + 1
    /\ sinceShare \in 0..MaxGap
    /\ \A flag \in {overMinute, crashed, late, silent} : flag \in BOOLEAN

DiffInit ==
    /\ sessionDifficulty = InitDiff /\ told = 0 /\ jobDifficulty = 0
    /\ phase = "new" /\ agent \in {"cpuminer", "other"}
    /\ suggested = FALSE /\ used = FALSE /\ suggestions = {}
    /\ sends = 0
    /\ submissionCache = <<>> /\ sinceShare = 0 /\ overMinute = FALSE
    /\ crashed = FALSE /\ late = FALSE /\ silent = FALSE

-----------------------------------------------------------------------------
Greater(a, b) == IF a > b THEN a ELSE b
Lesser(a, b)  == IF a < b THEN a ELSE b

\* Mutant: only the upper end is kept.
ClampAbove(value) == Lesser(value, MaxDiff)

ClampDifficulty(value) == Greater(MinDiff, Lesser(value, MaxDiff))

\* values[1] + ... + values[n]
SumTo(values, n) ==
    LET sum[i \in 0..n] == IF i = 0 THEN 0 ELSE sum[i - 1] + values[i]
    IN  sum[n]

(***************************************************************************)
(* nearestPowerOfTwo: every bit below the highest is set, and half of that *)
(* taken away.  An integer is the set of its bits; x >> 32 is x >> 0 on    *)
(* these.                                                                  *)
(***************************************************************************)
Power[i \in 0..30] == IF i = 0 THEN 1 ELSE 2 * Power[i - 1]

\* Below 2^31.
ASSUME WordAssumption == MaxWord - Power[30] < Power[30]

Bits(n) == {i \in 0..30 : (n \div Power[i]) % 2 = 1}

Number(bits) ==
    SumTo([i \in 1..31 |-> IF i - 1 \in bits THEN Power[i - 1] ELSE 0], 31)

ShiftRight(bits, k) == {i \in 0..30 : i + k \in bits}

Spread(bits, k) == bits \cup ShiftRight(bits, k)

Mask(bits) == Spread(Spread(Spread(Spread(Spread(bits, 1), 2), 4), 8), 16)

\* Mutant: the half is kept instead.
KeepHalf(mask) == Number(ShiftRight(mask, 1))

TakeHalf(mask) == Number(mask) - Number(ShiftRight(mask, 1))

HighestPower == [n \in 0..MaxWord |-> TakeHalf(Mask(Bits(n)))]

\* The call repeats itself for a hundred times as much until it is above one.
UnitOf(n) == CHOOSE u \in Units : u <= n /\ \A v \in Units : v <= n => v <= u

\* Of the number p / q.
NearestPowerOfTwo(p, q) ==
    LET unit == UnitOf(p \div q)
    IN  IF p < MinDiff * q THEN MinDiff
        ELSE HighestPower[(p \div q) \div unit] * unit

(***************************************************************************)
(* getSuggestedDifficulty.                                                 *)
(***************************************************************************)
HasFewShares == Len(submissionCache) < MinShares

Cached == 1..Len(submissionCache)

\* From the first share in the cache to the last.
DiffTime ==
    SumTo([i \in Cached |-> IF i = 1 THEN 0 ELSE submissionCache[i].gap],
          Len(submissionCache))

\* Over DiffTime.
TargetWork ==
    SumTo([i \in Cached |-> submissionCache[i].difficulty],
          Len(submissionCache)) * TargetRate

IsOffTarget ==
    \/ sessionDifficulty * 2 * DiffTime < TargetWork
    \/ sessionDifficulty * DiffTime > 2 * TargetWork

HasSuggestion == IF HasFewShares THEN overMinute ELSE IsOffTarget

\* The number asked for is AskedWork / AskedTime.
AskedWork == IF HasFewShares THEN sessionDifficulty ELSE TargetWork
AskedTime == IF HasFewShares THEN 6 ELSE DiffTime

\* The number has no room in a word, or is infinite.
Overflows == AskedWork >= Greater(MinDiff, (MaxWord + 1) * One) * AskedTime

AnyPower == {HighestPower[n] * u : n \in 1..MaxWord, u \in Units}

SuggestedDifficulties ==
    IF ~Overflows THEN {NearestPowerOfTwo(AskedWork, AskedTime)}
    ELSE IF AskedTime > 0 THEN AnyPower ELSE {}

-----------------------------------------------------------------------------
(***************************************************************************)
(* The start of the session, and the jobs it is sent.                      *)
(***************************************************************************)
InitStratum ==
    LET diff == IF agent = "cpuminer" THEN ClampDifficulty(CpuDiff)
                ELSE sessionDifficulty
    IN  /\ phase = "new"
        /\ phase' = "starting"
        /\ sessionDifficulty' = diff
        /\ told' = IF suggested THEN told ELSE diff
        /\ silent' = (told' # diff)
        /\ UNCHANGED <<late, jobVars, miner, cacheVars, crashed>>

\* The subscription replays the last template at once.
Subscribe ==
    /\ phase = "starting"
    /\ phase' = "up"
    /\ sends' = 1
    /\ UNCHANGED <<toldVars, jobDifficulty, miner, cacheVars, crashed>>

NewTemplate ==
    /\ phase = "up" /\ sends < MaxSends
    /\ sends' = sends + 1
    /\ UNCHANGED <<toldVars, jobDifficulty, miner, cacheVars, phase, crashed>>

SendJob ==
    /\ sends > 0
    /\ sends' = sends - 1
    /\ jobDifficulty' = told
    /\ late' = FALSE
    /\ UNCHANGED <<sessionDifficulty, told, silent, miner, cacheVars, phase,
                   crashed>>

(***************************************************************************)
(* mining.suggest_difficulty: received, validated and answered, and only   *)
(* then marked as used.                                                    *)
(***************************************************************************)
Suggest(value) ==
    /\ ~used
    /\ Cardinality(suggestions) < MaxSuggestions
    /\ suggestions' = suggestions \cup {[value |-> value, stage |-> "validate"]}
    /\ UNCHANGED <<agent, suggested, used, toldVars, jobVars, cacheVars, phase,
                   crashed>>

TakeSuggestion(s) ==
    LET diff == ClampDifficulty(s.value)
    IN  /\ s \in suggestions /\ s.stage = "validate"
        /\ suggestions' = (suggestions \ {s}) \cup {[s EXCEPT !.stage = "write"]}
        /\ suggested' = TRUE
        /\ sessionDifficulty' = diff /\ told' = diff /\ silent' = FALSE
        /\ late' = (phase = "up")
        /\ UNCHANGED <<agent, used, jobVars, cacheVars, phase, crashed>>

SuggestionAnswered(s) ==
    /\ s \in suggestions /\ s.stage = "write"
    /\ suggestions' = suggestions \ {s}
    /\ used' = TRUE
    /\ UNCHANGED <<agent, suggested, toldVars, jobVars, cacheVars, phase, crashed>>

(***************************************************************************)
(* Shares and time.  A share is cached at the difficulty of the moment,    *)
(* which need not be the one it was judged by: SUBMIT_BLOCK is awaited in  *)
(* between.                                                                *)
(***************************************************************************)
AddShares ==
    LET share == [difficulty |-> sessionDifficulty, gap |-> sinceShare]
        kept  == IF Len(submissionCache) > CacheSize THEN Tail(submissionCache)
                 ELSE submissionCache
    IN  /\ jobDifficulty # 0
        /\ submissionCache' = Append(kept, share)
        /\ sinceShare' = 0
        /\ UNCHANGED <<overMinute, toldVars, jobVars, miner, phase, crashed>>

TimePasses ==
    /\ sinceShare < MaxGap \/ ~overMinute
    /\ sinceShare' = Lesser(sinceShare + 1, MaxGap)
    /\ overMinute' \in {overMinute, TRUE}
    /\ UNCHANGED <<submissionCache, toldVars, jobVars, miner, phase, crashed>>

(***************************************************************************)
(* checkDifficulty, every minute.                                          *)
(***************************************************************************)
\* Mutant: the difficulty is only ever raised.
IsHigher(target) == target > sessionDifficulty

IsChange(target) == target # sessionDifficulty

\* Mutant: no job follows.
KeepJob == sends

OneMoreJob == sends + 1

CanCheck == phase = "up" /\ HasSuggestion

CheckDifficulty ==
    /\ CanCheck /\ sends < MaxSends
    /\ \E target \in SuggestedDifficulties :
         IsChange(target) /\ sessionDifficulty' = ClampDifficulty(target)
    /\ told' = sessionDifficulty' /\ silent' = FALSE
    /\ sends' = OneMoreJob
    /\ UNCHANGED <<late, jobDifficulty, miner, cacheVars, phase, crashed>>

\* The low bits of a hundred times as much, and so on, are all zero: the
\* recursion of nearestPowerOfTwo does not end, and nothing catches its
\* RangeError.  So it is when all cached shares carry one time.
CheckCrashes ==
    /\ CanCheck /\ Overflows
    /\ crashed' = TRUE
    /\ UNCHANGED <<toldVars, jobVars, miner, cacheVars, phase>>

DiffNext ==
    /\ ~crashed
    /\ \/ InitStratum \/ Subscribe \/ NewTemplate \/ SendJob
       \/ \E value \in Suggested : Suggest(value)
       \/ \E s \in suggestions : TakeSuggestion(s) \/ SuggestionAnswered(s)
       \/ AddShares \/ TimePasses \/ CheckDifficulty \/ CheckCrashes

\* Writes are answered, minutes pass and the interval fires.
DiffFairness ==
    /\ WF_diffVars(~crashed /\ SendJob)
    /\ WF_diffVars(~crashed /\ \E s \in suggestions : SuggestionAnswered(s))
    /\ WF_diffVars(~crashed /\ TimePasses)
    /\ SF_diffVars(~crashed /\ CheckDifficulty)

DiffSpec == DiffInit /\ [][DiffNext]_diffVars

FairDiffSpec == DiffSpec /\ DiffFairness

-----------------------------------------------------------------------------
\* Once the jobs being sent are sent, a miner works at the difficulty that its
\* shares are judged by, whichever of the start, the suggestions and the checks
\* set it last.  The code does not give this between a suggestion and the next
\* job (late), nor when cpuminer's difficulty replaces one that the miner
\* suggested before (silent).
JobFollowsDifficulty ==
    jobDifficulty # 0 /\ sends = 0 /\ ~late /\ ~silent =>
        jobDifficulty = sessionDifficulty

ChecksRate ==
    /\ ~HasFewShares /\ ~Overflows
    /\ sends' = sends + 1 /\ sessionDifficulty' # sessionDifficulty

\* The change that follows the rate leaves a difficulty within a factor of two
\* below what was asked for, or the end of the permitted range that is nearest:
\* the bit tricks and the hundredths of nearestPowerOfTwo lose no more, as long
\* as what is asked for has room in a word.  Above it may end anywhere.
FollowsRate ==
    [][ChecksRate =>
          \/ /\ sessionDifficulty' * DiffTime <= TargetWork
             /\ TargetWork < 2 * sessionDifficulty' * DiffTime
          \/ /\ sessionDifficulty' = MinDiff
             /\ TargetWork < 2 * MinDiff * DiffTime
          \/ /\ sessionDifficulty' = MaxDiff
             /\ MaxDiff * DiffTime <= TargetWork]_diffVars

\* A miner too slow for its difficulty is let down to the lowest: if it never
\* gets as many shares as a rate takes, the difficulty ends at MinDiff (when a
\* sixth of the highest difficulty has room in a word).
SlowMinerReachesMinimum ==
    <>[](jobDifficulty # 0 /\ HasFewShares) =>
        <>[](sessionDifficulty = MinDiff)
=============================================================================
