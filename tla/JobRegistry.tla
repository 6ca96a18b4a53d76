----------------------------- MODULE JobRegistry -----------------------------
(***************************************************************************)
(* The templates and jobs that the sessions of one process share           *)
(* (StratumV1JobsService), the sending of jobs and the judging of shares   *)
(* against them (StratumV1Client).                                         *)
(*                                                                         *)
(* The stream announces a template: the tap marks old templates stale,     *)
(* prunes what outlived its TTL, stores the template and calls every       *)
(* subscriber.  A subscriber's job is sent in steps, since the handler     *)
(* awaits the authorization check before it takes a job id and awaits the  *)
(* signet preparation before it stores the job.  A submission is judged in *)
(* one step, from the fingerprint to the difficulty.  It is counted in the *)
(* same step, unless it wins a block: then SUBMIT_BLOCK, the database and  *)
(* the notifications are awaited before it is counted.                     *)
(*                                                                         *)
(* A submission is what the miner wrote.  Its fingerprint is a hash of     *)
(* that, whereas its header is built from the numbers it stands for: one   *)
(* share spelled in two ways (case, leading zeros) is two submissions.     *)
(*                                                                         *)
(* The clock stands for Date.now() in the unit of the grace window.  When  *)
(* a template comes, and whether it clears jobs, is TemplateStream's       *)
(* business: here any template may.                                        *)
(***************************************************************************)
EXTENDS Integers, FiniteSets, Functions

CONSTANTS Sessions,
          Spellings,      \* what tells the submissions for one job apart
          GraceMs,        \* STRATUM_STALE_JOB_GRACE_MS
          StateTtlMs,     \* stateTtlMs
          MaxTime,        \* bound: the clock stops here
          MaxTemplates,   \* bound: templates announced
          MaxJobs,        \* bound: job ids taken
          MaxSends,       \* bound: sendNewMiningJob calls in flight
          MaxFound        \* bound: blocks being submitted

ASSUME RegistryAssumption ==
    /\ GraceMs \in Nat /\ StateTtlMs \in Nat
    /\ MaxTime \in Nat /\ MaxTemplates \in Nat
    /\ MaxJobs \in Nat /\ MaxSends \in Nat /\ MaxFound \in Nat

VARIABLES
    now,
    latestJobTemplateId, latestJobId,
    blocks,                 \* template id -> creation time
    staleTemplateSinceMs,   \* template id -> time it was marked stale
    jobs,                   \* job id -> job
    replay,                 \* newest template of the connected stream, or 0
    subscribed,             \* sessions subscribed to the stream
    opened,                 \* sessions that have subscribed once
    destroying,             \* sessions with a destroy() awaiting the database
    sends,                  \* sendNewMiningJob calls in flight
    miningSubmissionHashes, \* session -> fingerprints
    found,                  \* submissions that won a block, not yet counted
    told,                   \* history: jobs written to the sessions
    firstStale,             \* history: template id -> first clearing time
    overwritten,            \* history: ids under which two jobs were stored
    lateCredit,             \* history: template id -> time of the newest
                            \* credit at once after that
    freshCredits            \* history: submission -> credits when judged
                            \* while its template was not stale

registryVars == <<latestJobTemplateId, latestJobId, blocks,
                  staleTemplateSinceMs, jobs>>
sessionVars  == <<subscribed, opened, destroying>>
historyVars  == <<told, overwritten, firstStale>>
creditVars   == <<found, lateCredit, freshCredits>>
vars == <<now, registryVars, replay, sessionVars, sends,
          miningSubmissionHashes, historyVars, creditVars>>

Times       == 0..MaxTime
TemplateIds == 1..MaxTemplates
JobIds      == 1..MaxJobs
NoId        == 0

MiningJob    == [owner : Sessions, template : TemplateIds, creation : Times]
Announcement == [session : Sessions, id : JobIds, template : TemplateIds]
\* id is NoId until getNextId() has been called.
Send  == [session : Sessions, template : TemplateIds,
          id : JobIds \cup {NoId}, creation : Times]
Submission == [session : Sessions, id : JobIds, template : TemplateIds,
               spelling : Spellings]
\* Whether a clearing template had come before it was judged.
Found == [share : Submission, retired : BOOLEAN]

\* f is a map from some keys in K to values in V.
IsMap(f, K, V) ==
    /\ f = [k \in DOMAIN f |-> f[k]]
    /\ DOMAIN f \subseteq K
    /\ \A k \in DOMAIN f : f[k] \in V

TypeOK ==
    /\ now \in Times
    /\ latestJobTemplateId \in 1..MaxTemplates + 1
    /\ latestJobId \in Nat \ {0}
    /\ IsMap(blocks, TemplateIds, Times)
    /\ IsMap(staleTemplateSinceMs, TemplateIds, Times)
    /\ IsMap(jobs, JobIds, MiningJob)
    /\ replay \in TemplateIds \cup {NoId}
    /\ subscribed \subseteq opened /\ opened \subseteq Sessions
    /\ destroying \subseteq opened
    /\ sends \subseteq Send /\ \A m \in sends : m.session \in opened
    /\ miningSubmissionHashes \in [Sessions -> SUBSET (JobIds \X Spellings)]
    /\ found \subseteq Found
    /\ told \subseteq Announcement /\ overwritten \subseteq JobIds
    /\ IsMap(firstStale, TemplateIds, Times)
    /\ IsMap(lateCredit, TemplateIds, Times)
    /\ IsMap(freshCredits, Submission, Nat)

Empty == [k \in {} |-> 0]
Put(f, k, v) == [x \in DOMAIN f \cup {k} |-> IF x = k THEN v ELSE f[x]]

Init ==
    /\ now = 0
    /\ latestJobTemplateId = 1 /\ latestJobId = 1
    /\ blocks = Empty /\ staleTemplateSinceMs = Empty /\ jobs = Empty
    /\ replay = NoId
    /\ subscribed = {} /\ opened = {} /\ destroying = {}
    /\ sends = {}
    /\ miningSubmissionHashes = [s \in Sessions |-> {}]
    /\ told = {} /\ overwritten = {} /\ firstStale = Empty
    /\ found = {} /\ lateCredit = Empty /\ freshCredits = Empty

Advance ==
    /\ now < MaxTime
    /\ now' = now + 1
    /\ UNCHANGED <<registryVars, replay, sessionVars, sends,
                   miningSubmissionHashes, historyVars, creditVars>>

-----------------------------------------------------------------------------
(***************************************************************************)
(* A template is announced: the tap of newMiningJob$, then every           *)
(* subscriber's callback up to its first await.                            *)
(***************************************************************************)
\* since, with a mark of now on the templates in retained that have none.
MarkMissing(since, retained) ==
    [t \in DOMAIN since \cup retained |->
        IF t \in DOMAIN since THEN since[t] ELSE now]

\* Mutant: the check that a template has no mark yet is gone.
RemarkTemplatesStale(clearJobs) ==
    IF clearJobs
      THEN [t \in DOMAIN staleTemplateSinceMs \cup DOMAIN blocks |-> now]
      ELSE staleTemplateSinceMs

\* Mutant: templates are never marked.
MarkNothing(clearJobs) == staleTemplateSinceMs

MarkTemplatesStale(clearJobs) ==
    IF clearJobs THEN MarkMissing(staleTemplateSinceMs, DOMAIN blocks)
                 ELSE staleTemplateSinceMs

LiveTemplates == {t \in DOMAIN blocks : now - blocks[t] <= StateTtlMs}

\* Mutant: pruning a template leaves its mark.
AllMarks(marked) == marked

LiveMarks(marked) ==
    Restrict(marked, DOMAIN marked \ (DOMAIN blocks \ LiveTemplates))

\* Mutant: the jobs of stale templates are dropped at once.
JobsOfFreshTemplates ==
    {j \in DOMAIN jobs : jobs[j].template \notin DOMAIN staleTemplateSinceMs}

LiveJobs == {j \in DOMAIN jobs : now - jobs[j].creation <= StateTtlMs}

NewSend(s, t) == [session |-> s, template |-> t, id |-> NoId, creation |-> 0]

StartSends(new) ==
    /\ sends' = sends \cup new
    /\ Cardinality(sends') <= MaxSends

EmitTemplate(clearJobs) ==
    LET id == latestJobTemplateId
    IN  /\ subscribed # {} /\ id <= MaxTemplates
        /\ latestJobTemplateId' = id + 1
        /\ blocks' = Put(Restrict(blocks, LiveTemplates), id, now)
        /\ staleTemplateSinceMs' = LiveMarks(MarkTemplatesStale(clearJobs))
        /\ jobs' = Restrict(jobs, LiveJobs)
        /\ replay' = id
        /\ StartSends({NewSend(s, id) : s \in subscribed})
        /\ miningSubmissionHashes' =
             [s \in Sessions |-> IF clearJobs /\ s \in subscribed
                                   THEN {} ELSE miningSubmissionHashes[s]]
        /\ firstStale' = IF clearJobs
                           THEN MarkMissing(firstStale, DOMAIN blocks)
                           ELSE firstStale
        /\ UNCHANGED <<now, latestJobId, sessionVars, told, overwritten,
                       creditVars>>

-----------------------------------------------------------------------------
(***************************************************************************)
(* Sessions.  initStratum subscribes once; shareReplay hands it the newest *)
(* template of a connected stream.  checkDifficulty sends that template    *)
(* again.  destroy() awaits the database before it removes the jobs and    *)
(* unsubscribes, and may be called more than once.                         *)
(***************************************************************************)
\* Mutant: a stream that has emitted nothing yet is not told apart.
ReplayedAlways(s) == {NewSend(s, replay)}

Replayed(s) == IF replay = NoId THEN {} ELSE {NewSend(s, replay)}

Subscribe(s) ==
    /\ s \notin opened
    /\ subscribed' = subscribed \cup {s} /\ opened' = opened \cup {s}
    /\ StartSends(Replayed(s))
    /\ UNCHANGED <<now, registryVars, replay, destroying,
                   miningSubmissionHashes, historyVars, creditVars>>

Resend(s) ==
    /\ s \in subscribed /\ replay # NoId
    /\ StartSends(Replayed(s))
    /\ UNCHANGED <<now, registryVars, replay, sessionVars,
                   miningSubmissionHashes, historyVars, creditVars>>

Destroy(s) ==
    /\ s \in opened
    /\ destroying' = destroying \cup {s}
    /\ UNCHANGED <<now, registryVars, replay, subscribed, opened, sends,
                   miningSubmissionHashes, historyVars, creditVars>>

JobsOfOthers(s) == {j \in DOMAIN jobs : jobs[j].owner # s}

Destroyed(s) ==
    /\ s \in destroying
    /\ destroying' = destroying \ {s}
    /\ subscribed' = subscribed \ {s}
    /\ jobs' = Restrict(jobs, JobsOfOthers(s))
    /\ replay' = IF subscribed \subseteq {s} THEN NoId ELSE replay
    /\ UNCHANGED <<now, latestJobTemplateId, latestJobId, blocks,
                   staleTemplateSinceMs, opened, sends,
                   miningSubmissionHashes, historyVars, creditVars>>

-----------------------------------------------------------------------------
(***************************************************************************)
(* sendNewMiningJob.  At most one call per session, template and step is   *)
(* kept apart.                                                             *)
(***************************************************************************)
\* The session is authorized: the job is built with the next id.
BuildJob(m) ==
    /\ m \in sends /\ m.id = NoId /\ latestJobId <= MaxJobs
    /\ sends' = (sends \ {m})
                  \cup {[m EXCEPT !.id = latestJobId, !.creation = now]}
    /\ UNCHANGED <<now, registryVars, replay, sessionVars,
                   miningSubmissionHashes, historyVars, creditVars>>

\* Not authorized, or the check or the signet preparation failed.
SendGivenUp(m) ==
    /\ m \in sends
    /\ sends' = sends \ {m}
    /\ UNCHANGED <<now, registryVars, replay, sessionVars,
                   miningSubmissionHashes, historyVars, creditVars>>

\* addJob stores the job; the write succeeds on an open socket only, and
\* destroys the session when it fails.
AddJob(m, written) ==
    /\ m \in sends /\ m.id # NoId
    /\ written => m.session \in subscribed \ destroying
    /\ sends' = sends \ {m}
    /\ jobs' = Put(jobs, m.id, [owner |-> m.session, template |-> m.template,
                                creation |-> m.creation])
    /\ latestJobId' = latestJobId + 1
    /\ overwritten' = overwritten \cup ({m.id} \cap DOMAIN jobs)
    /\ IF written
         THEN /\ told' = told \cup {[session |-> m.session, id |-> m.id,
                                     template |-> m.template]}
              /\ UNCHANGED destroying
         ELSE /\ destroying' = destroying \cup {m.session}
              /\ UNCHANGED told
    /\ UNCHANGED <<now, latestJobTemplateId, blocks, staleTemplateSinceMs,
                   replay, subscribed, opened, miningSubmissionHashes,
                   firstStale, creditVars>>

-----------------------------------------------------------------------------
(***************************************************************************)
(* handleMiningSubmission after its awaits, for a job the session was      *)
(* told of.  It may run after the session was closed.  A submission whose  *)
(* fingerprint is known is refused and changes nothing.                    *)
(***************************************************************************)
IsTold(s, j) == \E a \in told : a.session = s /\ a.id = j

IsTemplateWithinGraceWindow(t) == now - staleTemplateSinceMs[t] <= GraceMs

IsTemplateStale(t) == t \in DOMAIN staleTemplateSinceMs

IsJudgeable(s, j) ==
    /\ j \in DOMAIN jobs /\ jobs[j].owner = s
    /\ jobs[j].template \in DOMAIN blocks
    /\ IsTemplateStale(jobs[j].template)
         => IsTemplateWithinGraceWindow(jobs[j].template)

Count(f, k) == IF k \in DOMAIN f THEN f[k] ELSE 0

\* What submission.hash() hashes: the strings as they came, and the job id.
Fingerprint(j, w) == <<j, w>>

\* Tested and remembered in one step.
RememberNew(s, j, w) ==
    /\ IsTold(s, j) /\ Fingerprint(j, w) \notin miningSubmissionHashes[s]
    /\ miningSubmissionHashes' =
         [miningSubmissionHashes EXCEPT ![s] = @ \cup {Fingerprint(j, w)}]

Judged(s, j, w) ==
    [session |-> s, id |-> j, template |-> jobs[j].template, spelling |-> w]

Counted(share) ==
    freshCredits' = Put(freshCredits, share, Count(freshCredits, share) + 1)

\* No block: judged and counted.
CreditShare(s, j, w) ==
    /\ RememberNew(s, j, w)
    /\ IsJudgeable(s, j)
    /\ lateCredit' = IF jobs[j].template \in DOMAIN firstStale
                       THEN Put(lateCredit, jobs[j].template, now)
                       ELSE lateCredit
    /\ IF IsTemplateStale(jobs[j].template) THEN UNCHANGED freshCredits
                                            ELSE Counted(Judged(s, j, w))
    /\ UNCHANGED <<now, registryVars, replay, sessionVars, sends, found,
                   historyVars>>

\* It meets the network's difficulty: SUBMIT_BLOCK is sent.
FindBlock(s, j, w) ==
    /\ RememberNew(s, j, w)
    /\ IsJudgeable(s, j) /\ ~IsTemplateStale(jobs[j].template)
    /\ Cardinality(found) < MaxFound
    /\ found' = found \cup
         {[share   |-> Judged(s, j, w),
           retired |-> jobs[j].template \in DOMAIN firstStale]}
    /\ UNCHANGED <<now, registryVars, replay, sessionVars, sends,
                   historyVars, lateCredit, freshCredits>>

\* The node has answered; if it accepted the block, that was saved and
\* notified and the bests were reset.
BlockCredited(b) ==
    /\ b \in found
    /\ found' = found \ {b}
    /\ Counted(b.share)
    /\ UNCHANGED <<now, registryVars, replay, sessionVars, sends,
                   miningSubmissionHashes, historyVars, lateCredit>>

\* One of the awaits failed: the handler ends before it counts the share.
BlockNotCredited(b) ==
    /\ b \in found
    /\ found' = found \ {b}
    /\ UNCHANGED <<now, registryVars, replay, sessionVars, sends,
                   miningSubmissionHashes, historyVars, lateCredit,
                   freshCredits>>

\* The job cannot be judged, or the difficulty is too low: the fingerprint
\* is remembered all the same.
RejectShare(s, j, w) ==
    /\ RememberNew(s, j, w)
    /\ UNCHANGED <<now, registryVars, replay, sessionVars, sends,
                   historyVars, creditVars>>

Next ==
    \/ Advance
    \/ \E clearJobs \in BOOLEAN : EmitTemplate(clearJobs)
    \/ \E s \in Sessions :
         Subscribe(s) \/ Resend(s) \/ Destroy(s) \/ Destroyed(s)
    \/ \E m \in sends :
         \/ BuildJob(m) \/ SendGivenUp(m)
         \/ \E written \in BOOLEAN : AddJob(m, written)
    \/ \E s \in Sessions, j \in JobIds, w \in Spellings :
         CreditShare(s, j, w) \/ FindBlock(s, j, w) \/ RejectShare(s, j, w)
    \/ \E b \in found : BlockCredited(b) \/ BlockNotCredited(b)

Spec == Init /\ [][Next]_vars

-----------------------------------------------------------------------------
(***************************************************************************)
(* A submission for a template that is not stale is credited once, or is   *)
(* on its way to that, although the fingerprints that would refuse it when *)
(* it is sent again are cleared on every clearing template, the one that   *)
(* its own block brings about included, before it is counted: clearing and *)
(* marking the old templates stale are one step.  The code does not give   *)
(* this of the share: spelled in another way it is another submission.     *)
(***************************************************************************)
FreshSubmissionCountedOnce ==
    /\ \A share \in DOMAIN freshCredits : freshCredits[share] = 1
    /\ \A b \in found : b.share \notin DOMAIN freshCredits
    /\ \A b, c \in found : b.share = c.share => b = c

(***************************************************************************)
(* No share of a template is credited later than the grace window after    *)
(* the first clearing template that followed it, however many clearing     *)
(* templates come in the meantime.  The exception is a share that won a    *)
(* block, which is credited when its awaits are over, perhaps past the     *)
(* window: but that was judged before any clearing template followed its.  *)
(***************************************************************************)
NoCreditPastGrace ==
    /\ \A t \in DOMAIN lateCredit : lateCredit[t] <= firstStale[t] + GraceMs
    /\ \A b \in found : ~b.retired

(***************************************************************************)
(* Templates grow stale from the oldest on: none is stale while an older   *)
(* one that is retained counts as fresh, the newest never is, and pruning  *)
(* leaves no mark without its template.                                    *)
(***************************************************************************)
StaleFromTheOldest ==
    \A t \in DOMAIN staleTemplateSinceMs :
        /\ t \in DOMAIN blocks
        /\ t + 1 < latestJobTemplateId
        /\ \A u \in DOMAIN blocks : u < t => u \in DOMAIN staleTemplateSinceMs

(***************************************************************************)
(* "Keep stale jobs/templates briefly to absorb in-flight submit races":   *)
(* a job written to a session that is still open is found as its own, on   *)
(* its template, as long as that is retained and within its TTL, stale or  *)
(* not, whatever templates, clean-ups, sends and ends of other sessions    *)
(* come in between.  The one exception is an id that two sends took: there *)
(* the job stored first is overwritten (see AnnouncedJobIsFound).          *)
(***************************************************************************)
IsRetained(a) ==
    /\ a.session \in subscribed \ destroying
    /\ a.template \in DOMAIN blocks
    /\ now - blocks[a.template] <= StateTtlMs

AnnouncedJobKept ==
    \A a \in told :
        IsRetained(a) /\ a.id \notin overwritten =>
            /\ a.id \in DOMAIN jobs
            /\ jobs[a.id].owner = a.session
            /\ jobs[a.id].template = a.template

(***************************************************************************)
(* What the comment in handleMiningSubmission says of a job that is not    *)
(* found, that it "was removed by a new block notification (or expired)":  *)
(* a job written to a session that is still open is found as its own while *)
(* its template is retained and fresh.  The code does not keep it: two     *)
(* sends may take the same id.                                             *)
(***************************************************************************)
AnnouncedJobIsFound ==
    \A a \in told :
        IsRetained(a) /\ ~IsTemplateStale(a.template)
        => a.id \in DOMAIN jobs /\ jobs[a.id].owner = a.session
=============================================================================
