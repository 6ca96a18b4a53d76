-------------------------- MODULE JobRegistryProofs --------------------------
(***************************************************************************)
(* Safety of JobRegistry for every number of sessions, templates and jobs, *)
(* every grace window and every TTL.                                       *)
(***************************************************************************)
EXTENDS JobRegistry, TLAPS

-----------------------------------------------------------------------------
(* Maps: the empty one, one key more, fewer keys.                          *)
LEMMA EmptyIsMap ==
    ASSUME NEW K, NEW V
    PROVE  IsMap(Empty, K, V) /\ DOMAIN Empty = {}
BY DEF IsMap, Empty

LEMMA PutIsMap ==
    ASSUME NEW K, NEW V, NEW f, IsMap(f, K, V), NEW k \in K, NEW v \in V
    PROVE  /\ IsMap(Put(f, k, v), K, V)
           /\ DOMAIN Put(f, k, v) = DOMAIN f \cup {k}
           /\ Put(f, k, v)[k] = v
           /\ \A x \in DOMAIN f : x # k => Put(f, k, v)[x] = f[x]
BY DEF IsMap, Put

LEMMA RestrictIsMap ==
    ASSUME NEW K, NEW V, NEW f, IsMap(f, K, V), NEW S, S \subseteq DOMAIN f
    PROVE  /\ IsMap(Restrict(f, S), K, V)
           /\ DOMAIN Restrict(f, S) = S
           /\ \A x \in S : Restrict(f, S)[x] = f[x]
BY DEF IsMap, Restrict

LEMMA MarkMissingIsMap ==
    ASSUME TypeOK, NEW f, IsMap(f, TemplateIds, Times)
    PROVE  /\ IsMap(MarkMissing(f, DOMAIN blocks), TemplateIds, Times)
           /\ DOMAIN MarkMissing(f, DOMAIN blocks) = DOMAIN f \cup DOMAIN blocks
           /\ \A t \in DOMAIN f : MarkMissing(f, DOMAIN blocks)[t] = f[t]
           /\ \A t \in DOMAIN blocks \ DOMAIN f :
                MarkMissing(f, DOMAIN blocks)[t] = now
BY DEF TypeOK, IsMap, MarkMissing

-----------------------------------------------------------------------------
(* What an announced template does to the templates, the marks and the     *)
(* jobs.                                                                   *)
LEMMA EmitMaps ==
    ASSUME TypeOK, NEW c \in BOOLEAN, EmitTemplate(c)
    PROVE  /\ latestJobTemplateId \in TemplateIds
           /\ LiveTemplates \subseteq DOMAIN blocks
           /\ IsMap(blocks', TemplateIds, Times)
           /\ DOMAIN blocks' = LiveTemplates \cup {latestJobTemplateId}
           /\ IsMap(staleTemplateSinceMs', TemplateIds, Times)
           /\ DOMAIN staleTemplateSinceMs' =
                (DOMAIN staleTemplateSinceMs \cup (IF c THEN DOMAIN blocks ELSE {}))
                  \ (DOMAIN blocks \ LiveTemplates)
           /\ \A t \in DOMAIN staleTemplateSinceMs' :
                staleTemplateSinceMs'[t] =
                  IF t \in DOMAIN staleTemplateSinceMs
                    THEN staleTemplateSinceMs[t] ELSE now
           /\ IsMap(jobs', JobIds, MiningJob)
<1>1. latestJobTemplateId \in TemplateIds
  BY RegistryAssumption DEF TypeOK, EmitTemplate, TemplateIds
<1>2. LiveTemplates \subseteq DOMAIN blocks
  BY DEF LiveTemplates
<1>3. /\ IsMap(blocks', TemplateIds, Times)
      /\ DOMAIN blocks' = LiveTemplates \cup {latestJobTemplateId}
  <2>1. /\ IsMap(Restrict(blocks, LiveTemplates), TemplateIds, Times)
        /\ DOMAIN Restrict(blocks, LiveTemplates) = LiveTemplates
    BY <1>2, RestrictIsMap DEF TypeOK
  <2>2. blocks' = Put(Restrict(blocks, LiveTemplates), latestJobTemplateId, now)
    BY DEF EmitTemplate
  <2>3. /\ IsMap(blocks', TemplateIds, Times)
        /\ DOMAIN blocks'
             = DOMAIN Restrict(blocks, LiveTemplates) \cup {latestJobTemplateId}
    <3> DEFINE kept == Restrict(blocks, LiveTemplates)
    <3>1. IsMap(kept, TemplateIds, Times) /\ now \in Times
      BY <2>1 DEF TypeOK
    <3>2. blocks' = Put(kept, latestJobTemplateId, now)
      BY <2>2
    <3> HIDE DEF kept
    <3>3. /\ IsMap(blocks', TemplateIds, Times)
          /\ DOMAIN blocks' = DOMAIN kept \cup {latestJobTemplateId}
      <4>1. /\ IsMap(Put(kept, latestJobTemplateId, now), TemplateIds, Times)
            /\ DOMAIN Put(kept, latestJobTemplateId, now)
                 = DOMAIN kept \cup {latestJobTemplateId}
        BY <1>1, <3>1 DEF IsMap, Put
      <4> QED BY <3>2, <4>1
    <3> QED BY <3>3 DEF kept
  <2> QED BY <2>1, <2>3
<1> DEFINE marked == MarkTemplatesStale(c)
           gone   == DOMAIN blocks \ LiveTemplates
<1>4. /\ IsMap(marked, TemplateIds, Times)
      /\ DOMAIN marked =
           DOMAIN staleTemplateSinceMs \cup (IF c THEN DOMAIN blocks ELSE {})
      /\ \A t \in DOMAIN marked :
           marked[t] = IF t \in DOMAIN staleTemplateSinceMs
                         THEN staleTemplateSinceMs[t] ELSE now
  <2>1. CASE c
    BY <2>1, MarkMissingIsMap DEF TypeOK, MarkTemplatesStale
  <2>2. CASE ~c
    BY <2>2 DEF TypeOK, MarkTemplatesStale
  <2> QED BY <2>1, <2>2
<1>5. /\ IsMap(staleTemplateSinceMs', TemplateIds, Times)
      /\ DOMAIN staleTemplateSinceMs' = DOMAIN marked \ gone
      /\ \A t \in DOMAIN marked \ gone : staleTemplateSinceMs'[t] = marked[t]
  <2>1. staleTemplateSinceMs' = Restrict(marked, DOMAIN marked \ gone)
    BY DEF EmitTemplate, LiveMarks
  <2> HIDE DEF marked, gone
  <2> QED BY <1>4, <2>1, RestrictIsMap
<1>6. IsMap(jobs', JobIds, MiningJob)
  BY RestrictIsMap DEF TypeOK, EmitTemplate, LiveJobs
<1> HIDE DEF marked
<1> QED BY <1>1, <1>2, <1>3, <1>4, <1>5, <1>6

(* Building a send record for a retained template.                         *)
LEMMA NewSendIsSend ==
    ASSUME NEW s \in Sessions, NEW t \in TemplateIds
    PROVE  NewSend(s, t) \in Send
BY RegistryAssumption DEF NewSend, Send, NoId, Times

(* Type correctness of the registry in every state.                        *)
THEOREM RegistryTyped == Spec => []TypeOK
<1>1. Init => TypeOK
  BY RegistryAssumption, EmptyIsMap DEF Init, TypeOK, Times, NoId
<1>2. TypeOK /\ [Next]_vars => TypeOK'
  <2> SUFFICES ASSUME TypeOK, [Next]_vars PROVE TypeOK'
    OBVIOUS
  <2> USE DEF registryVars, sessionVars, historyVars, creditVars
  <2>1. CASE Advance
    BY <2>1, RegistryAssumption DEF Advance, TypeOK, Times
  <2>2. ASSUME NEW c \in BOOLEAN, EmitTemplate(c) PROVE TypeOK'
    <3>1. sends' \subseteq Send /\ \A m \in sends' : m.session \in opened'
      <4>1. latestJobTemplateId \in TemplateIds
        BY <2>2, EmitMaps
      <4>2. sends' = sends \cup {NewSend(s, latestJobTemplateId) : s \in subscribed}
        BY <2>2 DEF EmitTemplate, StartSends
      <4>3. opened' = opened /\ subscribed \subseteq Sessions
        BY <2>2 DEF EmitTemplate, TypeOK
      <4>4. \A s \in subscribed : NewSend(s, latestJobTemplateId).session = s
        BY DEF NewSend
      <4> QED BY <4>1, <4>2, <4>3, <4>4, NewSendIsSend DEF TypeOK
    <3>2. miningSubmissionHashes' \in [Sessions -> SUBSET (JobIds \X Spellings)]
      BY <2>2 DEF EmitTemplate, TypeOK
    <3>3. IsMap(firstStale', TemplateIds, Times)
      BY <2>2, MarkMissingIsMap DEF EmitTemplate, TypeOK
    <3>4. latestJobTemplateId' \in 1..MaxTemplates + 1
      BY <2>2, RegistryAssumption DEF EmitTemplate, TypeOK
    <3> QED BY <2>2, <3>1, <3>2, <3>3, <3>4, EmitMaps DEF EmitTemplate, TypeOK
  <2>3. ASSUME NEW s \in Sessions
        PROVE  Replayed(s) \subseteq Send /\ \A m \in Replayed(s) : m.session = s
    BY NewSendIsSend DEF Replayed, NewSend, TypeOK
  <2>4. ASSUME NEW s \in Sessions, Subscribe(s) \/ Resend(s) PROVE TypeOK'
    BY <2>3, <2>4 DEF Subscribe, Resend, StartSends, TypeOK
  <2>5. ASSUME NEW s \in Sessions, Destroy(s) PROVE TypeOK'
    BY <2>5 DEF Destroy, TypeOK
  <2>6. ASSUME NEW s \in Sessions, Destroyed(s) PROVE TypeOK'
    <3>1. IsMap(jobs', JobIds, MiningJob)
      BY <2>6, RestrictIsMap DEF Destroyed, TypeOK, JobsOfOthers
    <3> QED BY <2>6, <3>1 DEF Destroyed, TypeOK
  <2>7. ASSUME NEW m \in sends, BuildJob(m) PROVE TypeOK'
    <3>1. latestJobId \in JobIds
      BY <2>7, RegistryAssumption DEF BuildJob, TypeOK, JobIds
    <3>2. /\ [m EXCEPT !.id = latestJobId, !.creation = now] \in Send
          /\ [m EXCEPT !.id = latestJobId, !.creation = now].session = m.session
      BY <3>1 DEF TypeOK, Send
    <3> QED BY <2>7, <3>2 DEF BuildJob, TypeOK
  <2>8. ASSUME NEW m \in sends, SendGivenUp(m) PROVE TypeOK'
    BY <2>8 DEF SendGivenUp, TypeOK
  <2>9. ASSUME NEW m \in sends, NEW w \in BOOLEAN, AddJob(m, w) PROVE TypeOK'
    <3>1. /\ m.session \in Sessions /\ m.template \in TemplateIds
          /\ m.id \in JobIds /\ m.creation \in Times
      BY <2>9 DEF AddJob, TypeOK, Send
    <3>2. IsMap(jobs', JobIds, MiningJob)
      BY <2>9, <3>1, PutIsMap DEF AddJob, TypeOK, MiningJob
    <3>3. /\ told' \subseteq Announcement /\ destroying' \subseteq opened
          /\ overwritten' \subseteq JobIds
      BY <2>9, <3>1 DEF AddJob, TypeOK, Announcement
    <3> QED BY <2>9, <3>1, <3>2, <3>3 DEF AddJob, TypeOK
  <2>10. ASSUME NEW s \in Sessions, NEW j \in JobIds, NEW w \in Spellings,
                RememberNew(s, j, w)
         PROVE  miningSubmissionHashes'
                  \in [Sessions -> SUBSET (JobIds \X Spellings)]
    BY <2>10 DEF RememberNew, Fingerprint, TypeOK
  <2>11. ASSUME NEW s \in Sessions, NEW j \in JobIds, NEW w \in Spellings,
                IsJudgeable(s, j)
         PROVE  jobs[j].template \in TemplateIds /\ Judged(s, j, w) \in Submission
    BY <2>11 DEF IsJudgeable, TypeOK, IsMap, MiningJob, Judged, Submission
  <2>12. ASSUME NEW share \in Submission, Counted(share)
         PROVE  IsMap(freshCredits', Submission, Nat)
    <3>1. Count(freshCredits, share) + 1 \in Nat
      BY DEF Count, TypeOK, IsMap
    <3> QED BY <2>12, <3>1, PutIsMap DEF Counted, TypeOK
  <2>13. ASSUME NEW s \in Sessions, NEW j \in JobIds, NEW w \in Spellings,
                CreditShare(s, j, w)
         PROVE  TypeOK'
    <3>1. IsMap(lateCredit', TemplateIds, Times)
      BY <2>11, <2>13, PutIsMap DEF CreditShare, TypeOK
    <3>2. IsMap(freshCredits', Submission, Nat)
      BY <2>11, <2>12, <2>13 DEF CreditShare, TypeOK
    <3> QED BY <2>10, <2>13, <3>1, <3>2 DEF CreditShare, TypeOK
  <2>14. ASSUME NEW s \in Sessions, NEW j \in JobIds, NEW w \in Spellings,
                FindBlock(s, j, w)
         PROVE  TypeOK'
    <3> DEFINE block == [share   |-> Judged(s, j, w),
                         retired |-> jobs[j].template \in DOMAIN firstStale]
    <3>1. Judged(s, j, w) \in Submission
      BY <2>11, <2>14 DEF FindBlock
    <3>2. (jobs[j].template \in DOMAIN firstStale) \in BOOLEAN
      OBVIOUS
    <3>3. block \in Found
      BY <3>1, <3>2, Zenon DEF Found
    <3>4. found' = found \cup {block}
      BY <2>14 DEF FindBlock
    <3> HIDE DEF block
    <3>5. found' \subseteq Found
      BY <3>3, <3>4 DEF TypeOK
    <3> QED BY <2>10, <2>14, <3>5 DEF FindBlock, TypeOK
  <2>15. ASSUME NEW b \in found, BlockCredited(b) PROVE TypeOK'
    <3>1. b.share \in Submission
      BY DEF TypeOK, Found
    <3>2. IsMap(freshCredits', Submission, Nat)
      BY <2>12, <2>15, <3>1 DEF BlockCredited
    <3> QED BY <2>15, <3>2 DEF BlockCredited, TypeOK
  <2>16. ASSUME NEW b \in found, BlockNotCredited(b) PROVE TypeOK'
    BY <2>16 DEF BlockNotCredited, TypeOK
  <2>17. ASSUME NEW s \in Sessions, NEW j \in JobIds, NEW w \in Spellings,
                RejectShare(s, j, w)
         PROVE  TypeOK'
    BY <2>10, <2>17 DEF RejectShare, TypeOK
  <2>18. CASE UNCHANGED vars
    BY <2>18 DEF vars, TypeOK
  <2> QED BY <2>1, <2>2, <2>4, <2>5, <2>6, <2>7, <2>8, <2>9, <2>13, <2>14,
             <2>15, <2>16, <2>17, <2>18 DEF Next
<1> QED BY <1>1, <1>2, PTL DEF Spec

-----------------------------------------------------------------------------
\* The submissions that are counted, or on their way to it.
Accepted == DOMAIN freshCredits \cup {b.share : b \in found}

\* Template ids in use are behind the counter.
IdsBehind ==
    /\ \A t \in DOMAIN blocks : t < latestJobTemplateId
    /\ \A t \in DOMAIN firstStale : t < latestJobTemplateId
    /\ \A share \in Accepted : share.template < latestJobTemplateId

\* A stale mark is the time of the first clearing template after it.
MarksAreFirst ==
    /\ \A t \in DOMAIN staleTemplateSinceMs :
          t \in DOMAIN firstStale /\ staleTemplateSinceMs[t] = firstStale[t]
    /\ \A t \in DOMAIN blocks \cap DOMAIN firstStale :
          t \in DOMAIN staleTemplateSinceMs

\* The fingerprint of an accepted submission is known as long as its template
\* is retained and not stale.
FreshRemembered ==
    \A share \in Accepted :
        share.template \in DOMAIN blocks \ DOMAIN staleTemplateSinceMs
          => Fingerprint(share.id, share.spelling)
               \in miningSubmissionHashes[share.session]

\* The part of the state that a step other than an announcement, an accepted
\* submission, the end of a block's awaits or a new fingerprint leaves alone.
registryCore == <<latestJobTemplateId, blocks, staleTemplateSinceMs>>
historyCore  == <<firstStale, found, lateCredit, freshCredits>>

(* Only these kinds of step touch the templates, the marks, the            *)
(* fingerprints or the credits.                                            *)
LEMMA StepKinds ==
    ASSUME [Next]_vars
    PROVE  \/ \E c \in BOOLEAN : EmitTemplate(c)
           \/ \E s \in Sessions, j \in JobIds, w \in Spellings :
                CreditShare(s, j, w) \/ FindBlock(s, j, w)
           \/ \E b \in found : BlockCredited(b) \/ BlockNotCredited(b)
           \/ /\ \E s \in Sessions, j \in JobIds, w \in Spellings :
                   RememberNew(s, j, w)
              /\ UNCHANGED <<now, registryCore, historyCore>>
           \/ /\ now' \in {now, now + 1}
              /\ UNCHANGED <<registryCore, historyCore, miningSubmissionHashes>>
<1> USE DEF registryVars, historyVars, creditVars, registryCore, historyCore
<1>1. CASE \E s \in Sessions, j \in JobIds, w \in Spellings :
              CreditShare(s, j, w) \/ FindBlock(s, j, w) \/ RejectShare(s, j, w)
  BY <1>1 DEF RejectShare
<1>2. CASE \E s \in Sessions :
              Subscribe(s) \/ Resend(s) \/ Destroy(s) \/ Destroyed(s)
  BY <1>2 DEF Subscribe, Resend, Destroy, Destroyed
<1>3. CASE \E m \in sends : BuildJob(m) \/ SendGivenUp(m)
  BY <1>3 DEF BuildJob, SendGivenUp
<1>4. CASE \E m \in sends : \E w \in BOOLEAN : AddJob(m, w)
  BY <1>4 DEF AddJob
<1>5. CASE Advance \/ UNCHANGED vars
  BY <1>5 DEF Advance, vars
<1> QED BY <1>1, <1>2, <1>3, <1>4, <1>5 DEF Next

(* What an accepted submission and the end of a block's awaits change.     *)
LEMMA JudgingLeaves ==
    ASSUME NEW s \in Sessions, NEW j \in JobIds, NEW w \in Spellings,
           CreditShare(s, j, w) \/ FindBlock(s, j, w)
    PROVE  /\ UNCHANGED <<now, registryCore, firstStale>>
           /\ jobs[j].template \in DOMAIN blocks
           /\ Accepted' \subseteq Accepted \cup {Judged(s, j, w)}
           /\ IsTemplateStale(jobs[j].template)
                => UNCHANGED <<found, freshCredits>>
           /\ ~IsTemplateStale(jobs[j].template)
                => \/ UNCHANGED found /\ Counted(Judged(s, j, w))
                   \/ FindBlock(s, j, w) /\ UNCHANGED freshCredits
<1> USE DEF registryCore, registryVars, historyVars, IsJudgeable
<1>1. CASE CreditShare(s, j, w)
  BY <1>1 DEF CreditShare, Accepted, Counted, Put
<1>2. CASE FindBlock(s, j, w)
  <2>1. UNCHANGED freshCredits
    BY <1>2 DEF FindBlock
  <2>2. \A b \in found' : b \in found \/ b.share = Judged(s, j, w)
    BY <1>2 DEF FindBlock
  <2> QED BY <1>2, <2>1, <2>2 DEF FindBlock, Accepted
<1> QED BY <1>1, <1>2

LEMMA BlockEndLeaves ==
    ASSUME NEW b \in found, BlockCredited(b) \/ BlockNotCredited(b)
    PROVE  /\ UNCHANGED <<now, registryCore, firstStale, lateCredit,
                          miningSubmissionHashes>>
           /\ found' = found \ {b}
           /\ Accepted' \subseteq Accepted
           /\ Counted(b.share) \/ UNCHANGED freshCredits
BY DEF BlockCredited, BlockNotCredited, Counted, Put, Accepted, registryCore,
       registryVars, historyVars

(* Every template id in use was handed out.                                *)
LEMMA IdsBehindAlways == Spec => []IdsBehind
<1>1. Init => IdsBehind
  BY EmptyIsMap DEF Init, IdsBehind, Accepted
<1>2. TypeOK /\ IdsBehind /\ [Next]_vars => IdsBehind'
  <2> SUFFICES ASSUME TypeOK, IdsBehind, [Next]_vars PROVE IdsBehind'
    OBVIOUS
  <2> USE DEF IdsBehind
  <2>0. latestJobTemplateId \in Nat
    BY RegistryAssumption DEF TypeOK
  <2>1. ASSUME NEW c \in BOOLEAN, EmitTemplate(c) PROVE IdsBehind'
    <3>1. latestJobTemplateId' = latestJobTemplateId + 1
      BY <2>1 DEF EmitTemplate
    <3>2. DOMAIN blocks' \subseteq DOMAIN blocks \cup {latestJobTemplateId}
      BY <2>1, EmitMaps
    <3>3. DOMAIN firstStale' \subseteq DOMAIN firstStale \cup DOMAIN blocks
      BY <2>1, MarkMissingIsMap DEF EmitTemplate, TypeOK
    <3>4. Accepted' = Accepted
      BY <2>1 DEF EmitTemplate, creditVars, Accepted
    <3>5. \A t \in DOMAIN blocks \cup DOMAIN firstStale : t \in Nat
      BY DEF TypeOK, IsMap, TemplateIds
    <3>6. \A share \in Accepted : share.template \in Nat
      BY DEF TypeOK, IsMap, TemplateIds, Accepted, Submission, Found
    <3> QED BY <2>0, <3>1, <3>2, <3>3, <3>4, <3>5, <3>6
  <2>2. ASSUME NEW s \in Sessions, NEW j \in JobIds, NEW w \in Spellings,
               CreditShare(s, j, w) \/ FindBlock(s, j, w)
        PROVE  IdsBehind'
    <3>1. Judged(s, j, w).template = jobs[j].template
      BY DEF Judged
    <3>2. \A share \in Accepted' : share \in Accepted \/ share = Judged(s, j, w)
      BY <2>2, JudgingLeaves
    <3>3. /\ UNCHANGED <<latestJobTemplateId, blocks, firstStale>>
          /\ jobs[j].template \in DOMAIN blocks
      BY <2>2, JudgingLeaves DEF registryCore
    <3> QED BY <3>1, <3>2, <3>3
  <2>3. ASSUME NEW b \in found, BlockCredited(b) \/ BlockNotCredited(b)
        PROVE  IdsBehind'
    BY <2>3, BlockEndLeaves DEF registryCore
  <2>4. CASE UNCHANGED <<registryCore, historyCore>>
    BY <2>4 DEF registryCore, historyCore, Accepted
  <2> QED BY <2>1, <2>2, <2>3, <2>4, StepKinds
<1> QED BY <1>1, <1>2, RegistryTyped, PTL DEF Spec

(* Templates grow stale from the oldest on, the newest is fresh, and no    *)
(* mark outlives its template.                                             *)
THEOREM StaleFromTheOldestAlways == Spec => []StaleFromTheOldest
<1>1. Init => StaleFromTheOldest
  BY EmptyIsMap DEF Init, StaleFromTheOldest
<1>2. TypeOK /\ IdsBehind /\ StaleFromTheOldest /\ [Next]_vars
        => StaleFromTheOldest'
  <2> SUFFICES ASSUME TypeOK, IdsBehind, StaleFromTheOldest, [Next]_vars
               PROVE  StaleFromTheOldest'
    OBVIOUS
  <2>1. ASSUME NEW c \in BOOLEAN, EmitTemplate(c) PROVE StaleFromTheOldest'
    <3>0. /\ latestJobTemplateId \in Nat
          /\ \A t \in DOMAIN blocks : t \in Nat
          /\ latestJobTemplateId' = latestJobTemplateId + 1
      BY <2>1, RegistryAssumption
         DEF EmitTemplate, TypeOK, IsMap, TemplateIds
    <3>1. /\ DOMAIN blocks' = LiveTemplates \cup {latestJobTemplateId}
          /\ LiveTemplates \subseteq DOMAIN blocks
          /\ DOMAIN staleTemplateSinceMs' =
               (DOMAIN staleTemplateSinceMs \cup (IF c THEN DOMAIN blocks ELSE {}))
                 \ (DOMAIN blocks \ LiveTemplates)
      BY <2>1, EmitMaps
    <3> SUFFICES ASSUME NEW t \in DOMAIN staleTemplateSinceMs'
                 PROVE  /\ t \in DOMAIN blocks'
                        /\ t + 1 < latestJobTemplateId'
                        /\ \A u \in DOMAIN blocks' :
                             u < t => u \in DOMAIN staleTemplateSinceMs'
      BY DEF StaleFromTheOldest
    <3>2. t \in DOMAIN blocks /\ t \in LiveTemplates
      BY <3>1 DEF StaleFromTheOldest
    <3>3. t < latestJobTemplateId
      BY <3>2 DEF IdsBehind
    <3>4. ASSUME NEW u \in DOMAIN blocks', u < t
          PROVE  u \in DOMAIN staleTemplateSinceMs'
      <4>1. u \in LiveTemplates
        BY <3>0, <3>1, <3>2, <3>3, <3>4
      <4>2. CASE c
        BY <3>1, <4>1, <4>2
      <4>3. CASE ~c
        <5>1. t \in DOMAIN staleTemplateSinceMs
          BY <3>1, <4>3
        <5> QED BY <3>1, <3>4, <4>1, <5>1 DEF StaleFromTheOldest
      <4> QED BY <4>2, <4>3
    <3> QED BY <3>0, <3>1, <3>2, <3>3, <3>4
  <2>2. CASE UNCHANGED registryCore
    BY <2>2 DEF registryCore, StaleFromTheOldest
  <2> QED BY <2>1, <2>2, StepKinds, JudgingLeaves, BlockEndLeaves
<1> QED BY <1>1, <1>2, RegistryTyped, IdsBehindAlways, PTL DEF Spec

(* A submission whose fingerprint is new and whose template is not stale   *)
(* has not been accepted before.                                           *)
LEMMA NewIsNotAccepted ==
    ASSUME FreshRemembered, NEW s \in Sessions, NEW j \in JobIds,
           NEW w \in Spellings, RememberNew(s, j, w), IsJudgeable(s, j),
           ~IsTemplateStale(jobs[j].template)
    PROVE  Judged(s, j, w) \notin Accepted
<1>1. /\ Judged(s, j, w).template = jobs[j].template
      /\ Judged(s, j, w).session = s /\ Judged(s, j, w).id = j
      /\ Judged(s, j, w).spelling = w
  BY DEF Judged
<1> QED BY <1>1 DEF FreshRemembered, RememberNew, IsJudgeable, IsTemplateStale

(* Counting a submission for the first time.                               *)
LEMMA CountedFirst ==
    ASSUME NEW share, share \notin DOMAIN freshCredits, Counted(share)
    PROVE  /\ DOMAIN freshCredits' = DOMAIN freshCredits \cup {share}
           /\ freshCredits'[share] = 1
           /\ \A x \in DOMAIN freshCredits : freshCredits'[x] = freshCredits[x]
<1>1. Count(freshCredits, share) = 0
  BY DEF Count
<1> QED BY <1>1 DEF Counted, Put

(* A fresh submission is counted once: its fingerprint is forgotten only   *)
(* in the step that marks its template stale.                              *)
THEOREM FreshSubmissionCountedOnceAlways == Spec => []FreshSubmissionCountedOnce
<1> DEFINE Inv == FreshSubmissionCountedOnce /\ FreshRemembered
<1>1. Init => Inv
  BY EmptyIsMap DEF Init, FreshSubmissionCountedOnce, FreshRemembered, Accepted
<1>2. TypeOK /\ IdsBehind /\ Inv /\ [Next]_vars => Inv'
  <2> SUFFICES ASSUME TypeOK, IdsBehind, Inv, [Next]_vars PROVE Inv'
    OBVIOUS
  <2>0. \A share \in Accepted :
          share.template \in Nat /\ share.session \in Sessions
    BY DEF TypeOK, IsMap, Submission, TemplateIds, Found, Accepted
  <2>1. ASSUME NEW c \in BOOLEAN, EmitTemplate(c) PROVE Inv'
    <3>1. UNCHANGED <<found, freshCredits>> /\ Accepted' = Accepted
      BY <2>1 DEF EmitTemplate, creditVars, Accepted
    <3>2. FreshSubmissionCountedOnce'
      BY <3>1 DEF FreshSubmissionCountedOnce
    <3> SUFFICES ASSUME NEW share \in Accepted,
                        share.template \in DOMAIN blocks' \ DOMAIN staleTemplateSinceMs'
                 PROVE  Fingerprint(share.id, share.spelling)
                          \in miningSubmissionHashes'[share.session]
      BY <3>1, <3>2 DEF FreshRemembered
    <3>3. /\ DOMAIN blocks' = LiveTemplates \cup {latestJobTemplateId}
          /\ LiveTemplates \subseteq DOMAIN blocks
          /\ DOMAIN staleTemplateSinceMs' =
               (DOMAIN staleTemplateSinceMs \cup (IF c THEN DOMAIN blocks ELSE {}))
                 \ (DOMAIN blocks \ LiveTemplates)
      BY <2>1, EmitMaps
    <3>4. share.template # latestJobTemplateId
      <4>1. share.template < latestJobTemplateId
        BY DEF IdsBehind
      <4> QED BY <2>0, <4>1, RegistryAssumption DEF TypeOK
    <3>5. share.template \in DOMAIN blocks \ DOMAIN staleTemplateSinceMs /\ ~c
      BY <3>3, <3>4
    <3>6. miningSubmissionHashes' = miningSubmissionHashes
      BY <2>1, <3>5 DEF EmitTemplate, TypeOK
    <3> QED BY <3>5, <3>6 DEF FreshRemembered
  <2>2. ASSUME NEW s \in Sessions, NEW j \in JobIds, NEW w \in Spellings,
               RememberNew(s, j, w)
        PROVE  /\ \A r \in Sessions :
                    miningSubmissionHashes[r] \subseteq miningSubmissionHashes'[r]
               /\ Fingerprint(j, w) \in miningSubmissionHashes'[s]
    BY <2>2 DEF RememberNew, TypeOK
  <2>3. ASSUME NEW s \in Sessions, NEW j \in JobIds, NEW w \in Spellings,
               CreditShare(s, j, w) \/ FindBlock(s, j, w)
        PROVE  Inv'
    <3> DEFINE new == Judged(s, j, w)
    <3>1. RememberNew(s, j, w) /\ IsJudgeable(s, j)
      BY <2>3 DEF CreditShare, FindBlock
    <3>2. new.session = s /\ new.id = j /\ new.spelling = w
      BY DEF Judged
    <3>3. FreshRemembered'
      <4>1. UNCHANGED <<blocks, staleTemplateSinceMs>>
        BY <2>3, JudgingLeaves DEF registryCore
      <4>2. \A share \in Accepted' : share \in Accepted \/ share = new
        BY <2>3, JudgingLeaves
      <4> HIDE DEF new
      <4> QED BY <2>0, <2>2, <3>1, <3>2, <4>1, <4>2 DEF FreshRemembered
    <3>4. CASE IsTemplateStale(jobs[j].template)
      <4>1. UNCHANGED <<found, freshCredits>>
        BY <2>3, <3>4, JudgingLeaves
      <4> QED BY <3>3, <4>1 DEF FreshSubmissionCountedOnce
    <3>5. CASE ~IsTemplateStale(jobs[j].template)
      <4>1. new \notin Accepted
        BY <3>1, <3>5, NewIsNotAccepted
      <4>2. new \notin DOMAIN freshCredits /\ \A b \in found : b.share # new
        BY <4>1 DEF Accepted
      <4>3. CASE UNCHANGED found /\ Counted(new)
        <5> HIDE DEF new
        <5>1. /\ DOMAIN freshCredits' = DOMAIN freshCredits \cup {new}
              /\ freshCredits'[new] = 1
              /\ \A x \in DOMAIN freshCredits :
                    freshCredits'[x] = freshCredits[x]
          BY <4>2, <4>3, CountedFirst
        <5> QED BY <3>3, <4>2, <4>3, <5>1 DEF FreshSubmissionCountedOnce
      <4>4. CASE FindBlock(s, j, w) /\ UNCHANGED freshCredits
        <5> DEFINE block == [share   |-> new,
                             retired |-> jobs[j].template \in DOMAIN firstStale]
        <5>1. found' = found \cup {block}
          BY <4>4 DEF FindBlock
        <5>2. block.share = new
          OBVIOUS
        <5> HIDE DEF new, block
        <5> QED BY <3>3, <4>2, <4>4, <5>1, <5>2 DEF FreshSubmissionCountedOnce
      <4> QED BY <2>3, <3>5, <4>3, <4>4, JudgingLeaves
    <3> QED BY <3>4, <3>5
  <2>4. ASSUME NEW b \in found, BlockCredited(b) \/ BlockNotCredited(b)
        PROVE  Inv'
    <3>1. FreshRemembered'
      BY <2>4, BlockEndLeaves DEF FreshRemembered, registryCore
    <3>2. /\ b.share \notin DOMAIN freshCredits
          /\ \A c \in found \ {b} : c.share # b.share
      BY DEF FreshSubmissionCountedOnce
    <3>3. FreshSubmissionCountedOnce'
      <4>1. found' = found \ {b} /\ (Counted(b.share) \/ UNCHANGED freshCredits)
        BY <2>4, BlockEndLeaves
      <4>2. CASE Counted(b.share)
        <5>1. /\ DOMAIN freshCredits' = DOMAIN freshCredits \cup {b.share}
              /\ freshCredits'[b.share] = 1
              /\ \A x \in DOMAIN freshCredits :
                    freshCredits'[x] = freshCredits[x]
          BY <3>2, <4>2, CountedFirst
        <5> QED BY <3>2, <4>1, <5>1 DEF FreshSubmissionCountedOnce
      <4>3. CASE UNCHANGED freshCredits
        BY <4>1, <4>3 DEF FreshSubmissionCountedOnce
      <4> QED BY <4>1, <4>2, <4>3
    <3> QED BY <3>1, <3>3
  <2>5. CASE /\ \E s \in Sessions, j \in JobIds, w \in Spellings :
                  RememberNew(s, j, w)
             /\ UNCHANGED <<now, registryCore, historyCore>>
    BY <2>0, <2>2, <2>5
       DEF registryCore, historyCore, FreshRemembered, Accepted,
           FreshSubmissionCountedOnce
  <2>6. CASE UNCHANGED <<registryCore, historyCore, miningSubmissionHashes>>
    BY <2>6 DEF registryCore, historyCore, FreshRemembered, Accepted,
                FreshSubmissionCountedOnce
  <2> QED BY <2>1, <2>3, <2>4, <2>5, <2>6, StepKinds
<1> QED BY <1>1, <1>2, RegistryTyped, IdsBehindAlways, PTL DEF Spec

\* A credit after the first clearing template is in the grace window.
CreditsInTime ==
    /\ \A t \in DOMAIN lateCredit : t \in DOMAIN firstStale
    /\ NoCreditPastGrace

(* The grace window of a template is never extended, and a share that won  *)
(* a block was judged before it began.                                     *)
THEOREM NoCreditPastGraceAlways == Spec => []NoCreditPastGrace
<1> DEFINE Inv == MarksAreFirst /\ CreditsInTime
<1>1. Init => Inv
  BY EmptyIsMap DEF Init, MarksAreFirst, CreditsInTime, NoCreditPastGrace
<1>2. TypeOK /\ IdsBehind /\ StaleFromTheOldest /\ Inv /\ [Next]_vars => Inv'
  <2> SUFFICES ASSUME TypeOK, IdsBehind, StaleFromTheOldest, Inv, [Next]_vars
               PROVE  Inv'
    OBVIOUS
  <2>0. /\ now \in Nat /\ GraceMs \in Nat
        /\ \A t \in DOMAIN firstStale : firstStale[t] \in Nat /\ t \in Nat
    BY RegistryAssumption DEF TypeOK, IsMap, Times, TemplateIds
  <2>1. ASSUME NEW c \in BOOLEAN, EmitTemplate(c) PROVE Inv'
    <3>1. UNCHANGED <<found, lateCredit>>
      BY <2>1 DEF EmitTemplate, creditVars
    <3>2. /\ DOMAIN firstStale' =
               DOMAIN firstStale \cup (IF c THEN DOMAIN blocks ELSE {})
          /\ \A t \in DOMAIN firstStale' :
               firstStale'[t] = IF t \in DOMAIN firstStale THEN firstStale[t] ELSE now
      <4>1. CASE c
        BY <2>1, <4>1, MarkMissingIsMap DEF EmitTemplate, TypeOK
      <4>2. CASE ~c
        BY <2>1, <4>2 DEF EmitTemplate
      <4> QED BY <4>1, <4>2
    <3>3. /\ DOMAIN blocks' = LiveTemplates \cup {latestJobTemplateId}
          /\ LiveTemplates \subseteq DOMAIN blocks
          /\ DOMAIN staleTemplateSinceMs' =
               (DOMAIN staleTemplateSinceMs \cup (IF c THEN DOMAIN blocks ELSE {}))
                 \ (DOMAIN blocks \ LiveTemplates)
          /\ \A t \in DOMAIN staleTemplateSinceMs' :
               staleTemplateSinceMs'[t] =
                 IF t \in DOMAIN staleTemplateSinceMs
                   THEN staleTemplateSinceMs[t] ELSE now
      BY <2>1, EmitMaps
    <3>4. latestJobTemplateId \notin DOMAIN blocks \cup DOMAIN firstStale
      BY RegistryAssumption DEF IdsBehind, TypeOK
    <3>5. ASSUME NEW t \in DOMAIN staleTemplateSinceMs'
          PROVE  t \in DOMAIN firstStale' /\ staleTemplateSinceMs'[t] = firstStale'[t]
      <4>1. CASE t \in DOMAIN staleTemplateSinceMs
        BY <3>2, <3>3, <4>1 DEF MarksAreFirst
      <4>2. CASE t \notin DOMAIN staleTemplateSinceMs
        <5>1. c /\ t \in DOMAIN blocks
          BY <3>3, <4>2
        <5>2. t \notin DOMAIN firstStale
          BY <4>2, <5>1 DEF MarksAreFirst
        <5> QED BY <3>2, <3>3, <4>2, <5>1, <5>2
      <4> QED BY <4>1, <4>2
    <3>6. ASSUME NEW t \in DOMAIN blocks' \cap DOMAIN firstStale'
          PROVE  t \in DOMAIN staleTemplateSinceMs'
      <4>1. t \in LiveTemplates /\ t \in DOMAIN blocks
        BY <3>2, <3>3, <3>4
      <4> QED BY <3>2, <3>3, <4>1 DEF MarksAreFirst
    <3>7. MarksAreFirst'
      BY <3>5, <3>6 DEF MarksAreFirst
    <3>8. CreditsInTime'
      BY <3>1, <3>2 DEF CreditsInTime, NoCreditPastGrace
    <3> QED BY <3>7, <3>8
  <2>2. ASSUME NEW s \in Sessions, NEW j \in JobIds, NEW w \in Spellings,
               CreditShare(s, j, w) \/ FindBlock(s, j, w)
        PROVE  MarksAreFirst'
    BY <2>2, JudgingLeaves DEF MarksAreFirst, registryCore
  <2>3. ASSUME NEW s \in Sessions, NEW j \in JobIds, NEW w \in Spellings,
               CreditShare(s, j, w)
        PROVE  CreditsInTime'
    <3> DEFINE t == jobs[j].template
    <3>1. UNCHANGED <<firstStale, found>>
      BY <2>3 DEF CreditShare, historyVars
    <3>2. CASE t \in DOMAIN firstStale
      <4>1. /\ t \in DOMAIN blocks
            /\ t \in DOMAIN staleTemplateSinceMs
                 => now - staleTemplateSinceMs[t] <= GraceMs
        BY <2>3 DEF CreditShare, IsJudgeable, IsTemplateStale,
                    IsTemplateWithinGraceWindow
      <4>2. now <= firstStale[t] + GraceMs
        BY <2>0, <3>2, <4>1 DEF MarksAreFirst
      <4>3. /\ DOMAIN lateCredit' = DOMAIN lateCredit \cup {t}
            /\ lateCredit'[t] = now
            /\ \A u \in DOMAIN lateCredit : u # t => lateCredit'[u] = lateCredit[u]
        BY <2>3, <3>2 DEF CreditShare, Put
      <4> HIDE DEF t
      <4> QED BY <3>1, <3>2, <4>2, <4>3 DEF CreditsInTime, NoCreditPastGrace
    <3>3. CASE t \notin DOMAIN firstStale
      <4>1. UNCHANGED lateCredit
        BY <2>3, <3>3 DEF CreditShare
      <4> QED BY <3>1, <4>1 DEF CreditsInTime, NoCreditPastGrace
    <3> QED BY <3>2, <3>3
  <2>4. ASSUME NEW s \in Sessions, NEW j \in JobIds, NEW w \in Spellings,
               FindBlock(s, j, w)
        PROVE  CreditsInTime'
    <3>1. UNCHANGED <<firstStale, lateCredit>>
      BY <2>4 DEF FindBlock, historyVars
    <3>2. jobs[j].template \notin DOMAIN firstStale
      BY <2>4 DEF FindBlock, IsJudgeable, IsTemplateStale, MarksAreFirst
    <3> DEFINE block == [share   |-> Judged(s, j, w),
                         retired |-> jobs[j].template \in DOMAIN firstStale]
    <3>3. ~block.retired
      BY <3>2, Zenon
    <3>4. found' = found \cup {block}
      BY <2>4 DEF FindBlock
    <3> HIDE DEF block
    <3>5. \A b \in found' : b \in found \/ ~b.retired
      BY <3>3, <3>4
    <3> QED BY <3>1, <3>5 DEF CreditsInTime, NoCreditPastGrace
  <2>5. ASSUME NEW b \in found, BlockCredited(b) \/ BlockNotCredited(b)
        PROVE  Inv'
    BY <2>5, BlockEndLeaves
       DEF MarksAreFirst, CreditsInTime, NoCreditPastGrace, registryCore
  <2>6. CASE UNCHANGED <<registryCore, historyCore>>
    BY <2>6 DEF registryCore, historyCore, MarksAreFirst, CreditsInTime,
                NoCreditPastGrace
  <2> QED BY <2>1, <2>2, <2>3, <2>4, <2>5, <2>6, StepKinds
<1>3. Inv => NoCreditPastGrace
  BY DEF CreditsInTime
<1> QED BY <1>1, <1>2, <1>3, RegistryTyped, IdsBehindAlways,
           StaleFromTheOldestAlways, PTL DEF Spec

-----------------------------------------------------------------------------
\* Jobs are built on templates that came before them.
TemplatesComeFirst ==
    /\ \A t \in DOMAIN blocks : blocks[t] <= now /\ t < latestJobTemplateId
    /\ replay < latestJobTemplateId
    /\ \A a \in told : a.template < latestJobTemplateId
    /\ \A m \in sends :
          /\ m.template < latestJobTemplateId
          /\ m.id # NoId /\ m.template \in DOMAIN blocks
               => blocks[m.template] <= m.creation

\* The job a session was told of is there, no older than its template, as
\* long as the session is and the template is not past its TTL.
Kept(a) ==
    /\ a.id \in DOMAIN jobs
    /\ jobs[a.id].owner = a.session /\ jobs[a.id].template = a.template
    /\ jobs[a.id].creation >= blocks[a.template]

ToldIsKept ==
    \A a \in told : IsRetained(a) /\ a.id \notin overwritten => Kept(a)

\* A session that has ended its subscription does not subscribe again.
ToldOpened == \A a \in told : a.session \in opened

KeptInv == TemplatesComeFirst /\ ToldIsKept /\ ToldOpened

(* The values the steps below compute with are integers.                   *)
LEMMA RegistryIntegers ==
    ASSUME TypeOK
    PROVE  /\ now \in Int /\ latestJobTemplateId \in Int /\ latestJobId \in Int
           /\ StateTtlMs \in Int /\ replay \in Int
           /\ \A t \in DOMAIN blocks : t \in Int /\ blocks[t] \in Int
           /\ \A j \in DOMAIN jobs : j \in Int /\ jobs[j].creation \in Int
           /\ \A m \in sends :
                m.id \in Int /\ m.template \in Int /\ m.creation \in Int
           /\ \A a \in told : a.id \in Int /\ a.template \in Int
BY RegistryAssumption
   DEF TypeOK, IsMap, Times, TemplateIds, JobIds, NoId, MiningJob, Send,
       Announcement

(* The kinds of step with respect to the sends and the jobs.               *)
LEMMA SendStepKinds ==
    ASSUME TypeOK, [Next]_vars
    PROVE  \/ \E c \in BOOLEAN : EmitTemplate(c)
           \/ \E m \in sends, w \in BOOLEAN : AddJob(m, w)
           \/ \E m \in sends : BuildJob(m)
           \/ \E s \in Sessions : Subscribe(s) \/ Resend(s)
           \/ \E s \in Sessions : Destroyed(s)
           \/ /\ UNCHANGED <<registryVars, told, overwritten, replay,
                             subscribed, opened>>
              /\ sends' \subseteq sends
              /\ destroying \subseteq destroying'
              /\ now' \in {now, now + 1}
<1> USE DEF sessionVars, historyVars
<1>1. CASE Advance \/ UNCHANGED vars
  BY <1>1 DEF Advance, vars
<1>2. CASE \E s \in Sessions : Destroy(s)
  BY <1>2 DEF Destroy
<1>3. CASE \E m \in sends : SendGivenUp(m)
  BY <1>3 DEF SendGivenUp
<1>4. CASE \E s \in Sessions, j \in JobIds, w \in Spellings :
              CreditShare(s, j, w) \/ FindBlock(s, j, w) \/ RejectShare(s, j, w)
  BY <1>4 DEF CreditShare, FindBlock, RejectShare
<1>5. CASE \E b \in found : BlockCredited(b) \/ BlockNotCredited(b)
  BY <1>5 DEF BlockCredited, BlockNotCredited
<1> QED BY <1>1, <1>2, <1>3, <1>4, <1>5 DEF Next

(* The templates of the sends and of the announcements.                    *)
LEMMA TemplatesComeFirstStep ==
    ASSUME TypeOK, TypeOK', TemplatesComeFirst, [Next]_vars
    PROVE  TemplatesComeFirst'
<1> USE RegistryIntegers
    DEF TemplatesComeFirst, registryVars, sessionVars, historyVars
<1>1. ASSUME NEW c \in BOOLEAN, EmitTemplate(c) PROVE TemplatesComeFirst'
  <2>1. /\ latestJobTemplateId' = latestJobTemplateId + 1
        /\ UNCHANGED <<now, told>> /\ replay' = latestJobTemplateId
    BY <1>1 DEF EmitTemplate
  <2>2. /\ DOMAIN blocks' = LiveTemplates \cup {latestJobTemplateId}
        /\ blocks'[latestJobTemplateId] = now
        /\ \A t \in LiveTemplates : t \in DOMAIN blocks /\ blocks'[t] = blocks[t]
    <3>1. blocks' = Put(Restrict(blocks, LiveTemplates), latestJobTemplateId, now)
      BY <1>1 DEF EmitTemplate
    <3>2. \A t \in LiveTemplates : t \in DOMAIN blocks /\ t # latestJobTemplateId
      BY DEF LiveTemplates
    <3> QED BY <3>1, <3>2 DEF Put, Restrict
  <2>3. \A m \in sends' :
           m \in sends \/ (m.id = NoId /\ m.template = latestJobTemplateId)
    BY <1>1 DEF EmitTemplate, StartSends, NewSend
  <2>4. ASSUME NEW m \in sends'
        PROVE  /\ m.template < latestJobTemplateId'
               /\ m.id # NoId /\ m.template \in DOMAIN blocks'
                    => blocks'[m.template] <= m.creation
    BY <2>1, <2>2, <2>3
  <2>5. \A t \in DOMAIN blocks' : blocks'[t] <= now' /\ t < latestJobTemplateId'
    BY <2>1, <2>2
  <2> QED BY <2>1, <2>4, <2>5
<1>2. ASSUME NEW m \in sends, NEW w \in BOOLEAN, AddJob(m, w)
      PROVE  TemplatesComeFirst'
  <2>1. \A a \in told' : a \in told \/ a.template = m.template
    BY <1>2 DEF AddJob
  <2> QED BY <1>2, <2>1 DEF AddJob
<1>3. ASSUME NEW m \in sends, BuildJob(m) PROVE TemplatesComeFirst'
  <2> DEFINE built == [m EXCEPT !.id = latestJobId, !.creation = now]
  <2>1. built.template = m.template /\ built.creation = now
    BY DEF TypeOK, Send
  <2>2. /\ sends' = (sends \ {m}) \cup {built}
        /\ UNCHANGED <<now, latestJobTemplateId, blocks, replay, told>>
    BY <1>3 DEF BuildJob
  <2> HIDE DEF built
  <2> QED BY <2>1, <2>2
<1>4. ASSUME NEW s \in Sessions, Subscribe(s) \/ Resend(s)
      PROVE  TemplatesComeFirst'
  <2>1. \A m \in sends' : m \in sends \/ (m.id = NoId /\ m.template = replay)
    BY <1>4 DEF Subscribe, Resend, StartSends, Replayed, NewSend
  <2> QED BY <1>4, <2>1 DEF Subscribe, Resend
<1>5. ASSUME NEW s \in Sessions, Destroyed(s) PROVE TemplatesComeFirst'
  <2>1. replay' < latestJobTemplateId
    BY <1>5, RegistryAssumption DEF Destroyed, NoId, TypeOK
  <2> QED BY <1>5, <2>1 DEF Destroyed
<1>6. CASE /\ UNCHANGED <<registryVars, told, replay>>
           /\ sends' \subseteq sends /\ now' \in {now, now + 1}
  BY <1>6
<1> QED BY <1>1, <1>2, <1>3, <1>4, <1>5, <1>6, SendStepKinds

(* A job a session was told of stays, while session and template do.       *)
LEMMA ToldIsKeptStep ==
    ASSUME TypeOK, TypeOK', KeptInv, [Next]_vars
    PROVE  ToldIsKept' /\ ToldOpened'
<1> USE RegistryIntegers
    DEF KeptInv, ToldIsKept, ToldOpened, IsRetained, sessionVars, historyVars
<1>1. ASSUME NEW c \in BOOLEAN, EmitTemplate(c) PROVE ToldIsKept' /\ ToldOpened'
  <2>1. UNCHANGED <<now, told, overwritten, opened, subscribed, destroying>>
    BY <1>1 DEF EmitTemplate
  <2>2. /\ DOMAIN blocks' = LiveTemplates \cup {latestJobTemplateId}
        /\ \A t \in LiveTemplates : t \in DOMAIN blocks /\ blocks'[t] = blocks[t]
    <3>1. blocks' = Put(Restrict(blocks, LiveTemplates), latestJobTemplateId, now)
      BY <1>1 DEF EmitTemplate
    <3>2. \A t \in LiveTemplates : t \in DOMAIN blocks /\ t # latestJobTemplateId
      BY DEF LiveTemplates, TemplatesComeFirst
    <3> QED BY <3>1, <3>2 DEF Put, Restrict
  <2>3. DOMAIN jobs' = LiveJobs /\ \A j \in LiveJobs : jobs'[j] = jobs[j]
    BY <1>1 DEF EmitTemplate, Restrict
  <2> SUFFICES ASSUME NEW a \in told, a.id \notin overwritten,
                      a.session \in subscribed \ destroying,
                      a.template \in DOMAIN blocks',
                      now - blocks'[a.template] <= StateTtlMs
               PROVE  Kept(a)'
    BY <2>1
  <2>4. a.template \in LiveTemplates
    BY <2>2 DEF TemplatesComeFirst
  <2>5. Kept(a)
    BY <2>2, <2>4
  <2>6. a.id \in LiveJobs
    BY <2>2, <2>4, <2>5 DEF Kept, LiveJobs
  <2> QED BY <2>2, <2>3, <2>4, <2>5, <2>6 DEF Kept
<1>2. ASSUME NEW m \in sends, NEW w \in BOOLEAN, AddJob(m, w)
      PROVE  ToldIsKept' /\ ToldOpened'
  <2> DEFINE new == [session |-> m.session, id |-> m.id, template |-> m.template]
             job == [owner |-> m.session, template |-> m.template,
                     creation |-> m.creation]
  <2>0. /\ new.session = m.session /\ new.id = m.id /\ new.template = m.template
        /\ job.owner = m.session /\ job.template = m.template
        /\ job.creation = m.creation
    OBVIOUS
  <2>1. /\ UNCHANGED <<now, blocks, subscribed, opened>>
        /\ destroying \subseteq destroying'
        /\ told' \subseteq told \cup {new}
        /\ overwritten' = overwritten \cup ({m.id} \cap DOMAIN jobs)
        /\ jobs' = Put(jobs, m.id, job)
        /\ m.id # NoId
    BY <1>2 DEF AddJob
  <2> HIDE DEF new, job
  <2>2. /\ DOMAIN jobs' = DOMAIN jobs \cup {m.id}
        /\ jobs'[m.id] = job
        /\ \A j \in DOMAIN jobs : j # m.id => jobs'[j] = jobs[j]
    BY <2>1 DEF Put
  <2>3. ToldOpened'
    BY <2>0, <2>1 DEF TypeOK
  <2>4. ASSUME NEW a \in told', a.id \notin overwritten', IsRetained(a)'
        PROVE  Kept(a)'
    <3>1. CASE a = new
      BY <2>0, <2>1, <2>2, <2>4, <3>1 DEF Kept, TemplatesComeFirst
    <3>2. CASE a \in told
      <4>1. Kept(a)
        BY <2>1, <2>4, <3>2
      <4>2. a.id # m.id
        BY <2>1, <2>4, <4>1 DEF Kept
      <4> QED BY <2>1, <2>2, <4>1, <4>2 DEF Kept
    <3> QED BY <2>1, <3>1, <3>2
  <2> QED BY <2>3, <2>4
<1>3. ASSUME NEW s \in Sessions, Destroyed(s) PROVE ToldIsKept' /\ ToldOpened'
  <2>1. /\ UNCHANGED <<now, blocks, opened, told, overwritten>>
        /\ subscribed' \ destroying' \subseteq (subscribed \ destroying) \ {s}
        /\ DOMAIN jobs' = JobsOfOthers(s)
        /\ \A j \in JobsOfOthers(s) : jobs'[j] = jobs[j]
    BY <1>3 DEF Destroyed, Restrict
  <2>2. \A a \in told : Kept(a) /\ a.session # s => a.id \in JobsOfOthers(s)
    BY DEF Kept, JobsOfOthers
  <2> QED BY <2>1, <2>2 DEF Kept
<1>4. ASSUME NEW s \in Sessions, Subscribe(s) PROVE ToldIsKept' /\ ToldOpened'
  <2>1. /\ UNCHANGED <<now, blocks, destroying, told, overwritten, jobs>>
        /\ s \notin opened
        /\ subscribed' = subscribed \cup {s} /\ opened' = opened \cup {s}
    BY <1>4 DEF Subscribe, registryVars
  <2> QED BY <2>1 DEF Kept
<1>5. CASE /\ UNCHANGED <<jobs, blocks, told, overwritten, subscribed, opened>>
           /\ destroying \subseteq destroying' /\ now' \in {now, now + 1}
  BY <1>5 DEF Kept
<1> QED BY <1>1, <1>2, <1>3, <1>4, <1>5, SendStepKinds
        DEF BuildJob, Resend, registryVars

LEMMA KeptInvAlways == Spec => []KeptInv
<1>1. Init => KeptInv
  BY RegistryAssumption, EmptyIsMap
     DEF Init, KeptInv, TemplatesComeFirst, ToldIsKept, ToldOpened, NoId
<1>2. TypeOK /\ TypeOK' /\ KeptInv /\ [Next]_vars => KeptInv'
  BY TemplatesComeFirstStep, ToldIsKeptStep DEF KeptInv
<1> QED BY <1>1, <1>2, RegistryTyped, PTL DEF Spec

(***************************************************************************)
(* A job written to a session that is still open is found as its own while *)
(* its template is retained and within its TTL, unless two sends took its  *)
(* id.  No job is older than its template, so pruning by age never takes   *)
(* the job before the template; a session subscribes once, so the end of   *)
(* another session and its own late sends cannot take it either.           *)
(***************************************************************************)
THEOREM AnnouncedJobKeptAlways == Spec => []AnnouncedJobKept
<1>1. KeptInv => AnnouncedJobKept
  BY DEF KeptInv, ToldIsKept, Kept, AnnouncedJobKept
<1> QED BY <1>1, KeptInvAlways, PTL

-----------------------------------------------------------------------------
(***************************************************************************)
(* JobRegistryIds shows that AnnouncedJobIsFound fails: two sends take the *)
(* same id, since addJob counts up only after the awaits that follow       *)
(* getNextId.  SerialSpec is the registry when no two sends hold an id at  *)
(* once, everything else interleaved as before.                            *)
(***************************************************************************)
OneHoldsId(calls) ==
    \A m, n \in calls : m.id # NoId /\ n.id # NoId => m = n

SerialNext == Next /\ OneHoldsId(sends')
SerialSpec == Init /\ [][SerialNext]_vars

\* Ids of jobs are behind the counter, the id of a send is the counter.
IdsNotTaken ==
    /\ OneHoldsId(sends)
    /\ \A m \in sends : m.id # NoId => m.id = latestJobId
    /\ \A j \in DOMAIN jobs : j < latestJobId

SerialInv == IdsNotTaken /\ overwritten = {}

(* The ids of a serial registry.                                           *)
LEMMA IdsNotTakenStep ==
    ASSUME TypeOK, IdsNotTaken, [SerialNext]_vars
    PROVE  IdsNotTaken'
<1>1. OneHoldsId(sends')
  BY DEF SerialNext, IdsNotTaken, vars
<1>2. [Next]_vars
  BY DEF SerialNext
<1> USE RegistryIntegers DEF IdsNotTaken, registryVars, sessionVars, historyVars
<1>3. ASSUME UNCHANGED latestJobId, DOMAIN jobs' \subseteq DOMAIN jobs,
             \A m \in sends' : m \in sends \/ m.id \in {NoId, latestJobId}
      PROVE  IdsNotTaken'
  BY <1>1, <1>3
<1>4. ASSUME NEW c \in BOOLEAN, EmitTemplate(c) PROVE IdsNotTaken'
  <2>1. DOMAIN jobs' \subseteq DOMAIN jobs
    BY <1>4 DEF EmitTemplate, LiveJobs, Restrict
  <2>2. \A m \in sends' : m \in sends \/ m.id = NoId
    BY <1>4 DEF EmitTemplate, StartSends, NewSend
  <2> QED BY <1>3, <1>4, <2>1, <2>2 DEF EmitTemplate
<1>5. ASSUME NEW m \in sends, NEW w \in BOOLEAN, AddJob(m, w) PROVE IdsNotTaken'
  <2>1. /\ m.id = latestJobId /\ latestJobId' = latestJobId + 1
        /\ sends' = sends \ {m}
      BY <1>5 DEF AddJob
  <2>2. \A k \in sends' : k.id = NoId
      BY <1>5, <2>1 DEF AddJob, OneHoldsId
  <2>3. DOMAIN jobs' = DOMAIN jobs \cup {latestJobId}
      BY <1>5, <2>1 DEF AddJob, Put
  <2> QED BY <1>1, <2>1, <2>2, <2>3
<1>6. ASSUME NEW m \in sends, BuildJob(m) PROVE IdsNotTaken'
  <2>1. [m EXCEPT !.id = latestJobId, !.creation = now].id = latestJobId
    BY DEF TypeOK, Send
  <2> QED BY <1>3, <1>6, <2>1 DEF BuildJob
<1>7. ASSUME NEW s \in Sessions, Subscribe(s) \/ Resend(s) PROVE IdsNotTaken'
  <2>1. \A m \in sends' : m \in sends \/ m.id = NoId
    BY <1>7 DEF Subscribe, Resend, StartSends, Replayed, NewSend
  <2> QED BY <1>3, <1>7, <2>1 DEF Subscribe, Resend
<1>8. ASSUME NEW s \in Sessions, Destroyed(s) PROVE IdsNotTaken'
  <2>1. DOMAIN jobs' \subseteq DOMAIN jobs
    BY <1>8 DEF Destroyed, JobsOfOthers, Restrict
  <2> QED BY <1>3, <1>8, <2>1 DEF Destroyed
<1>9. CASE UNCHANGED registryVars /\ sends' \subseteq sends
  BY <1>3, <1>9
<1> QED BY <1>2, <1>4, <1>5, <1>6, <1>7, <1>8, <1>9, SendStepKinds

(* Where no two sends hold an id at once, no job is overwritten.           *)
LEMMA NothingOverwrittenStep ==
    ASSUME TypeOK, SerialInv, [Next]_vars
    PROVE  overwritten' = {}
<1> USE DEF SerialInv, historyVars
<1>1. ASSUME NEW m \in sends, NEW w \in BOOLEAN, AddJob(m, w)
      PROVE  overwritten' = {}
  <2>1. m.id = latestJobId /\ m.id \notin DOMAIN jobs
    BY <1>1, RegistryIntegers DEF AddJob, IdsNotTaken
  <2> QED BY <1>1, <2>1 DEF AddJob
<1> QED BY <1>1, SendStepKinds
        DEF EmitTemplate, BuildJob, Subscribe, Resend, Destroyed

(***************************************************************************)
(* Two sends that hold an id at once are the only cause of the jobs that   *)
(* are not found: where none do, no job is overwritten, and a job written  *)
(* to a session that is still open is found as its own, whatever templates *)
(* are announced and whatever other sessions, sends and destroys come in   *)
(* between.                                                                *)
(***************************************************************************)
THEOREM SerialJobsAreFound == SerialSpec => []AnnouncedJobIsFound
<1>1. Init => SerialInv
  BY RegistryAssumption, EmptyIsMap
     DEF Init, SerialInv, IdsNotTaken, OneHoldsId, NoId
<1>2. [SerialNext]_vars => [Next]_vars
  BY DEF SerialNext
<1>3. TypeOK /\ SerialInv /\ [SerialNext]_vars => SerialInv'
  BY <1>2, IdsNotTakenStep, NothingOverwrittenStep DEF SerialInv
<1>4. AnnouncedJobKept /\ SerialInv => AnnouncedJobIsFound
  BY DEF SerialInv, AnnouncedJobKept, AnnouncedJobIsFound
<1>5. SerialSpec => Spec
  BY <1>2, PTL DEF SerialSpec, Spec
<1> QED BY <1>1, <1>3, <1>4, <1>5, RegistryTyped, AnnouncedJobKeptAlways,
           PTL DEF SerialSpec
=============================================================================
