--------------------------- MODULE TemplateStream ---------------------------
(***************************************************************************)
(* The block-template stream every mining session listens to               *)
(* (newMiningJob$ of StratumV1JobsService, fed by BitcoinRpcService).      *)
(*                                                                         *)
(* The node is polled for its height; a height above the last one seen is  *)
(* published on newBlock$.  Each publication and each 60-second interval   *)
(* number starts a getblocktemplate load, and switchMap abandons the load  *)
(* that was in flight.  A completed load is announced as a template, with  *)
(* clearJobs when its interval number is the one already announced (so the *)
(* load must have come from newBlock$), or swallowed when the announcement *)
(* before it was a clearing one.  The tap that marks and prunes the        *)
(* registry on each announcement is in JobRegistry.                        *)
(*                                                                         *)
(* One process, NODE_APP_INSTANCE unset: each load asks the node.          *)
(***************************************************************************)
EXTENDS Integers, FiniteSets

CONSTANTS Sessions,       \* sessions that may subscribe to newMiningJob$
          MaxHeight,      \* bound: the chain stops growing here
          MaxTick,        \* bound: interval numbers that are told apart
          MaxPolls        \* bound: getmininginfo calls in flight

ASSUME StreamAssumption ==
    /\ MaxHeight \in Nat /\ MaxPolls \in Nat
    /\ MaxTick \in Nat

VARIABLES
    tip,                  \* the node: height of its best block
    polls,                \* heights of getmininginfo answers on their way
    hasPublishedMiningInfo,
    blockHeight,          \* last height published on newBlock$
    subscribers,          \* sessions subscribed to newMiningJob$ (refCount)
    tick,                 \* newest interval number of this connection
    loads,                \* getBlockTemplate calls that switchMap listens to
    lastIntervalCount,
    skipNext,
    process,              \* "up" or "down"
    announced,            \* history: tip of the newest announced template
    swallowed,            \* history: loads swallowed since an announcement
    freshFrom             \* history: lowest tip announced since the last
                          \* clearing announcement, i.e. not marked stale

pollVars   == <<polls, hasPublishedMiningInfo, blockHeight>>
streamVars == <<subscribers, tick, loads>>
flagVars   == <<lastIntervalCount, skipNext>>
histVars   == <<announced, swallowed, freshFrom>>
vars == <<tip, pollVars, streamVars, flagVars, process, histVars>>

Heights == 0..MaxHeight
NoTip   == -1                        \* nothing announced, nothing answered
Ticks   == 0..MaxTick + 3
Start   == -1                        \* startWith(-1)
Unset   == -2                        \* lastIntervalCount before any template

Load == [tick : Ticks \cup {Start}, answer : Heights \cup {NoTip}]

TypeOK ==
    /\ tip \in Heights
    /\ polls \subseteq Heights
    /\ hasPublishedMiningInfo \in BOOLEAN
    /\ blockHeight \in Heights
    /\ subscribers \subseteq Sessions
    /\ tick \in Ticks \cup {Start}
    /\ loads \subseteq Load
    /\ lastIntervalCount \in Ticks \cup {Start, Unset}
    /\ skipNext \in BOOLEAN
    /\ process \in {"up", "down"}
    /\ announced \in Heights \cup {NoTip}
    /\ swallowed \in Nat
    /\ freshFrom \in Heights \cup {NoTip}

Init ==
    /\ tip = 0
    /\ polls = {} /\ hasPublishedMiningInfo = FALSE /\ blockHeight = 0
    /\ subscribers = {} /\ tick = Start /\ loads = {}
    /\ lastIntervalCount = Unset /\ skipNext = FALSE
    /\ process = "up"
    /\ announced = NoTip /\ swallowed = 0 /\ freshFrom = NoTip

NewLoad(t) == [tick |-> t, answer |-> NoTip]

\* Mutant: mergeMap, the load in flight goes on.
MergeWith(t) == loads \cup {NewLoad(t)}

\* switchMap drops the load in flight when it starts another.
SwitchTo(t) == {NewLoad(t)}

(***************************************************************************)
(* The node and pollMiningInfo.  In interval mode a poll starts every      *)
(* 500 ms whether or not the one before it was answered, so answers may    *)
(* arrive out of order.  A failed poll is caught and yields null.          *)
(***************************************************************************)
BlockFound ==
    /\ tip < MaxHeight
    /\ tip' = tip + 1
    /\ UNCHANGED <<pollVars, streamVars, flagVars, process, histVars>>

Poll ==
    /\ process = "up"
    /\ Cardinality(polls \cup {tip}) <= MaxPolls
    /\ polls' = polls \cup {tip}
    /\ UNCHANGED <<tip, hasPublishedMiningInfo, blockHeight, streamVars,
                   flagVars, process, histVars>>

PollFails(h) ==
    /\ h \in polls
    /\ polls' = polls \ {h}
    /\ UNCHANGED <<tip, hasPublishedMiningInfo, blockHeight, streamVars,
                   flagVars, process, histVars>>

\* Mutant: any other height counts as new.
IsOtherHeight(h) == ~hasPublishedMiningInfo \/ h # blockHeight

IsNewHeight(h) == ~hasPublishedMiningInfo \/ h > blockHeight

PollAnswered(h) ==
    /\ h \in polls
    /\ polls' = polls \ {h}
    /\ IF IsNewHeight(h)
         THEN /\ hasPublishedMiningInfo' = TRUE
              /\ blockHeight' = h
              /\ loads' = IF subscribers # {} THEN SwitchTo(tick) ELSE loads
         ELSE UNCHANGED <<hasPublishedMiningInfo, blockHeight, loads>>
    /\ UNCHANGED <<tip, subscribers, tick, flagVars, process, histVars>>

(***************************************************************************)
(* Subscriptions.  The first one connects the source: the interval starts  *)
(* again at -1 and the last published height is replayed.  When the last   *)
(* one goes, the source is disconnected; lastIntervalCount and skipNext    *)
(* are fields of the service and stay as they were.                        *)
(***************************************************************************)
Subscribe(s) ==
    /\ process = "up" /\ s \notin subscribers
    /\ subscribers' = subscribers \cup {s}
    /\ IF subscribers = {}
         THEN /\ tick' = Start
              /\ loads' = IF hasPublishedMiningInfo THEN SwitchTo(Start)
                                                    ELSE {}
         ELSE UNCHANGED <<tick, loads>>
    /\ UNCHANGED <<tip, pollVars, flagVars, process, histVars>>

Unsubscribe(s) ==
    /\ s \in subscribers
    /\ subscribers' = subscribers \ {s}
    /\ loads' = IF subscribers = {s} THEN {} ELSE loads
    /\ UNCHANGED <<tip, pollVars, tick, flagVars, process, histVars>>

\* Interval numbers are only compared with lastIntervalCount.  The first
\* ones after a connection are exact: they restart, and may meet the number
\* remembered from an earlier connection.  Above MaxTick, a number nothing
\* remembers stands for the next one.
LateTicks == MaxTick + 1..MaxTick + 3

NextTick ==
    IF tick < MaxTick
      THEN tick + 1
      ELSE CHOOSE t \in LateTicks : t \notin {tick, lastIntervalCount}

\* Mutant: withLatestFrom, only a published height starts a load.
TickWithoutLoad ==
    /\ subscribers # {}
    /\ tick' = NextTick
    /\ UNCHANGED <<tip, pollVars, subscribers, loads, flagVars, process,
                   histVars>>

Tick ==
    /\ subscribers # {}
    /\ tick' = NextTick
    /\ loads' = IF hasPublishedMiningInfo THEN SwitchTo(NextTick) ELSE loads
    /\ UNCHANGED <<tip, pollVars, subscribers, flagVars, process, histVars>>

(***************************************************************************)
(* A load: the node composes the template on its tip of that moment, and   *)
(* the answer reaches the stream later.                                    *)
(***************************************************************************)
\* Mutant: the height of the next block is taken for the tip.
NodeAnswersHeight(l) ==
    /\ l \in loads /\ l.answer = NoTip
    /\ loads' = (loads \ {l}) \cup {[l EXCEPT !.answer = tip + 1]}
    /\ UNCHANGED <<tip, pollVars, subscribers, tick, flagVars, process,
                   histVars>>

NodeAnswers(l) ==
    /\ l \in loads /\ l.answer = NoTip
    /\ loads' = (loads \ {l}) \cup {[l EXCEPT !.answer = tip]}
    /\ UNCHANGED <<tip, pollVars, subscribers, tick, flagVars, process,
                   histVars>>

IsClearing(l) == lastIntervalCount = l.tick

\* Mutant: skipNext is left set.
SwallowAgain(l) ==
    /\ l \in loads /\ l.answer # NoTip
    /\ ~IsClearing(l) /\ skipNext
    /\ loads' = loads \ {l}
    /\ swallowed' = swallowed + 1
    /\ UNCHANGED <<tip, pollVars, subscribers, tick, flagVars, process,
                   announced, freshFrom>>

Swallow(l) ==
    /\ l \in loads /\ l.answer # NoTip
    /\ ~IsClearing(l) /\ skipNext
    /\ skipNext' = FALSE
    /\ loads' = loads \ {l}
    /\ swallowed' = swallowed + 1
    /\ UNCHANGED <<tip, pollVars, subscribers, tick, lastIntervalCount,
                   process, announced, freshFrom>>

AnnounceTemplate(l) ==
    /\ l \in loads /\ l.answer # NoTip
    /\ IsClearing(l) \/ ~skipNext
    /\ skipNext' = IsClearing(l)
    /\ lastIntervalCount' = l.tick
    /\ loads' = loads \ {l}
    /\ announced' = l.answer
    /\ swallowed' = 0
    /\ freshFrom' = IF IsClearing(l) \/ freshFrom = NoTip THEN l.answer
                                                         ELSE freshFrom
    /\ UNCHANGED <<tip, pollVars, subscribers, tick, process>>

\* A rejected load errors the shared stream; no subscriber has an error
\* handler, so rxjs rethrows it and the process exits.
LoadFails ==
    /\ loads # {}
    /\ process' = "down"
    /\ polls' = {} /\ subscribers' = {} /\ loads' = {}
    /\ UNCHANGED <<tip, hasPublishedMiningInfo, blockHeight, tick, flagVars,
                   histVars>>

\* A new process: every field at its initial value, an empty registry.
Restart ==
    /\ process = "down"
    /\ process' = "up"
    /\ hasPublishedMiningInfo' = FALSE /\ blockHeight' = 0
    /\ tick' = Start
    /\ lastIntervalCount' = Unset /\ skipNext' = FALSE
    /\ swallowed' = 0 /\ freshFrom' = NoTip
    /\ UNCHANGED <<tip, polls, subscribers, loads, announced>>

Next ==
    \/ BlockFound
    \/ Poll
    \/ \E h \in Heights : PollFails(h) \/ PollAnswered(h)
    \/ \E s \in Sessions : Subscribe(s) \/ Unsubscribe(s)
    \/ Tick
    \/ \E l \in loads : NodeAnswers(l) \/ Swallow(l) \/ AnnounceTemplate(l)
    \/ LoadFails
    \/ Restart

\* The interval timer runs.  A load ends within the RPC timeout, far below
\* the 60 seconds between ticks, so ticks cannot abandon every load: a load
\* that is answered again and again is in the end delivered.
Fairness ==
    /\ WF_vars(Tick)
    /\ WF_vars(\E l \in loads : NodeAnswers(l))
    /\ SF_vars(\E l \in loads : Swallow(l))
    /\ SF_vars(\E l \in loads : AnnounceTemplate(l))

Spec     == Init /\ [][Next]_vars
FairSpec == Spec /\ Fairness

-----------------------------------------------------------------------------
Feed == INSTANCE TemplateFeed WITH
            MaxHeight <- MaxHeight, tip <- tip, announced <- announced

(***************************************************************************)
(* The stream implements TemplateFeed: sessions never hear of an older tip *)
(* after a newer one, although loads of several intervals and publications *)
(* are started, abandoned and answered late (switchMap, lines 72-83).      *)
(***************************************************************************)
ImplementsFeed == Feed!FeedSpec

(***************************************************************************)
(* Getmininginfo answers that overtake one another never make the height   *)
(* published on newBlock$ fall back while the process is up (the check in  *)
(* pollMiningInfo runs after the await).                                   *)
(***************************************************************************)
PublishedNeverFallsBack ==
    [][process = "up" /\ process' = "up" => blockHeight' >= blockHeight]_vars

(***************************************************************************)
(* skipNext never costs the sessions more than one completed load between  *)
(* two announcements, whatever blocks, ticks and reconnections come first. *)
(***************************************************************************)
SwallowsAtMostOne == swallowed <= 1

(***************************************************************************)
(* A published block reaches the sessions that stay: while someone is      *)
(* subscribed and the process lives, a template on that block or a later   *)
(* one is announced in the end (the next tick makes up for a load that was *)
(* swallowed).                                                             *)
(***************************************************************************)
PublishedBlockAnnounced ==
    \A h \in Heights :
        (hasPublishedMiningInfo /\ blockHeight = h /\ subscribers # {})
            ~> (announced >= h \/ subscribers = {})

(***************************************************************************)
(* What the comment in handleMiningSubmission says of jobs, "removed by a  *)
(* new block notification": once no load is in flight, no template below   *)
(* the published block still counts as fresh.  The code does not keep it.  *)
(***************************************************************************)
NewBlockRetiresOldTemplates ==
    (process = "up" /\ subscribers # {} /\ loads = {} /\ freshFrom # NoTip)
        => freshFrom >= blockHeight
=============================================================================
