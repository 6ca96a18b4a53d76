------------------------ MODULE TemplateStreamProofs ------------------------
(***************************************************************************)
(* Safety of TemplateStream for every set of sessions and every bound:     *)
(* types, at most one swallowed load between announcements, published      *)
(* heights that never fall back, and the stream as an implementation of    *)
(* TemplateFeed.                                                           *)
(***************************************************************************)
EXTENDS TemplateStream, TLAPS

\* The invariant behind ImplementsFeed: switchMap listens to one load at a
\* time, and an answered load lies between the announced tip and the node's.
LoadsInOrder ==
    /\ announced <= tip
    /\ \A l \in loads : l.answer # NoTip => announced <= l.answer /\ l.answer <= tip
    /\ \A k, l \in loads : k = l

\* skipNext is the one swallow the stream still owes.
SwallowDebt == swallowed = 0 \/ (swallowed = 1 /\ ~skipNext)

\* Before the first publication the remembered height is the initial one.
NothingPublished == ~hasPublishedMiningInfo => blockHeight = 0

-----------------------------------------------------------------------------
(* The next interval number is an interval number, not yet remembered when *)
(* it is past the exact ones.                                              *)
LEMMA NextTickIsTick ==
    ASSUME tick \in Ticks \cup {Start}
    PROVE  NextTick \in Ticks
<1>1. CASE tick < MaxTick
  BY <1>1, StreamAssumption DEF NextTick, Ticks, Start
<1>2. CASE ~(tick < MaxTick)
  <2>1. \E t \in LateTicks : t \notin {tick, lastIntervalCount}
    <3>1. /\ MaxTick + 1 \in LateTicks
          /\ MaxTick + 2 \in LateTicks
          /\ MaxTick + 3 \in LateTicks
      BY StreamAssumption DEF LateTicks
    <3>2. /\ MaxTick + 1 # MaxTick + 2
          /\ MaxTick + 1 # MaxTick + 3
          /\ MaxTick + 2 # MaxTick + 3
      BY StreamAssumption
    <3> QED BY <3>1, <3>2
  <2>2. NextTick \in LateTicks
    BY <1>2, <2>1 DEF NextTick
  <2> QED BY <2>2, StreamAssumption DEF LateTicks, Ticks
<1> QED BY <1>1, <1>2

(* A load started by an interval number or by the connection is a Load.    *)
LEMMA SwitchToIsLoads ==
    ASSUME NEW t \in Ticks \cup {Start}
    PROVE  /\ SwitchTo(t) \subseteq Load
           /\ \A l \in SwitchTo(t) : l.answer = NoTip
           /\ \A k, l \in SwitchTo(t) : k = l
BY DEF SwitchTo, NewLoad, Load

(* Type correctness of the stream in every state.                          *)
THEOREM StreamTyped == Spec => []TypeOK
<1>1. Init => TypeOK
  <2> SUFFICES ASSUME Init PROVE TypeOK
    OBVIOUS
  <2>1. hasPublishedMiningInfo \in BOOLEAN /\ skipNext \in BOOLEAN
    BY Zenon DEF Init
  <2>2. 0 \in Heights
    BY StreamAssumption DEF Heights
  <2> QED BY <2>1, <2>2 DEF Init, TypeOK
<1>2. TypeOK /\ [Next]_vars => TypeOK'
  <2> SUFFICES ASSUME TypeOK, [Next]_vars PROVE TypeOK'
    OBVIOUS
  <2> USE DEF TypeOK
  <2>1. CASE BlockFound
    BY <2>1, StreamAssumption
       DEF BlockFound, pollVars, streamVars, flagVars, histVars, Heights
  <2>2. CASE Poll
    BY <2>2 DEF Poll, streamVars, flagVars, histVars
  <2>3. ASSUME NEW h \in Heights, PollFails(h) PROVE TypeOK'
    BY <2>3 DEF PollFails, streamVars, flagVars, histVars
  <2>4. ASSUME NEW h \in Heights, PollAnswered(h) PROVE TypeOK'
    BY <2>4, SwitchToIsLoads DEF PollAnswered, flagVars, histVars
  <2>5. ASSUME NEW s \in Sessions, Subscribe(s) PROVE TypeOK'
    <3>1. Start \in Ticks \cup {Start}
      OBVIOUS
    <3> QED BY <2>5, <3>1, SwitchToIsLoads
            DEF Subscribe, pollVars, flagVars, histVars
  <2>6. ASSUME NEW s \in Sessions, Unsubscribe(s) PROVE TypeOK'
    BY <2>6 DEF Unsubscribe, pollVars, flagVars, histVars
  <2>7. CASE Tick
    BY <2>7, NextTickIsTick, SwitchToIsLoads
       DEF Tick, pollVars, flagVars, histVars
  <2>8. ASSUME NEW l \in loads, NodeAnswers(l) PROVE TypeOK'
    <3>1. [l EXCEPT !.answer = tip] \in Load
      BY DEF Load
    <3> QED BY <2>8, <3>1 DEF NodeAnswers, pollVars, flagVars, histVars
  <2>9. ASSUME NEW l \in loads, Swallow(l) PROVE TypeOK'
    <3>1. skipNext' \in BOOLEAN
      BY <2>9, Zenon DEF Swallow
    <3> QED BY <2>9, <3>1 DEF Swallow, pollVars
  <2>10. ASSUME NEW l \in loads, AnnounceTemplate(l) PROVE TypeOK'
    <3>1. l.tick \in Ticks \cup {Start} /\ l.answer \in Heights
      BY <2>10 DEF AnnounceTemplate, Load
    <3> QED BY <2>10, <3>1 DEF AnnounceTemplate, pollVars, IsClearing
  <2>11. CASE LoadFails
    BY <2>11 DEF LoadFails, flagVars, histVars
  <2>12. CASE Restart
    <3>1. hasPublishedMiningInfo' \in BOOLEAN /\ skipNext' \in BOOLEAN
      BY <2>12, Zenon DEF Restart
    <3>2. 0 \in Heights
      BY StreamAssumption DEF Heights
    <3> QED BY <2>12, <3>1, <3>2 DEF Restart
  <2>13. CASE UNCHANGED vars
    BY <2>13 DEF vars, pollVars, streamVars, flagVars, histVars
  <2> QED BY <2>1, <2>2, <2>3, <2>4, <2>5, <2>6, <2>7, <2>8, <2>9, <2>10,
             <2>11, <2>12, <2>13 DEF Next
<1> QED BY <1>1, <1>2, PTL DEF Spec

(* No sequence of blocks, ticks, cancelled loads and reconnections makes   *)
(* skipNext cost two completed loads in a row.                             *)
THEOREM AtMostOneSwallowed == Spec => []SwallowsAtMostOne
<1>1. Init => SwallowDebt
  BY DEF Init, SwallowDebt
<1>2. TypeOK /\ SwallowDebt /\ [Next]_vars => SwallowDebt'
  <2> SUFFICES ASSUME TypeOK, SwallowDebt, [Next]_vars PROVE SwallowDebt'
    OBVIOUS
  <2> USE DEF SwallowDebt
  <2>1. ASSUME NEW l \in loads, Swallow(l) PROVE SwallowDebt'
    BY <2>1 DEF Swallow
  <2>2. ASSUME NEW l \in loads, AnnounceTemplate(l) PROVE SwallowDebt'
    BY <2>2 DEF AnnounceTemplate
  <2>3. CASE Restart
    BY <2>3 DEF Restart
  <2>4. CASE UNCHANGED <<skipNext, swallowed>>
    BY <2>4
  <2> QED BY <2>1, <2>2, <2>3, <2>4
          DEF Next, BlockFound, Poll, PollFails, PollAnswered, Subscribe,
              Unsubscribe, Tick, NodeAnswers, LoadFails, vars, flagVars,
              histVars
<1>3. SwallowDebt => SwallowsAtMostOne
  BY DEF SwallowDebt, SwallowsAtMostOne
<1> QED BY <1>1, <1>2, <1>3, StreamTyped, PTL DEF Spec

(* Poll answers that overtake one another never lower the published        *)
(* height of a living process.                                             *)
THEOREM PublishedHeightRises == Spec => PublishedNeverFallsBack
<1>1. Init => NothingPublished
  BY DEF Init, NothingPublished
<1>2. NothingPublished /\ [Next]_vars => NothingPublished'
  BY DEF NothingPublished, Next, BlockFound, Poll, PollFails, PollAnswered,
         Subscribe, Unsubscribe, Tick, NodeAnswers, Swallow,
         AnnounceTemplate, LoadFails, Restart, vars, pollVars
<1>3. TypeOK /\ NothingPublished /\ [Next]_vars
        => [process = "up" /\ process' = "up" => blockHeight' >= blockHeight]_vars
  <2> SUFFICES ASSUME TypeOK, NothingPublished, [Next]_vars,
                      process = "up", process' = "up"
               PROVE  blockHeight' >= blockHeight
    OBVIOUS
  <2>0. blockHeight \in Nat
    BY StreamAssumption DEF TypeOK, Heights
  <2>1. ASSUME NEW h \in Heights, PollAnswered(h)
        PROVE  blockHeight' >= blockHeight
    <3>1. h \in Nat
      BY StreamAssumption DEF Heights
    <3> QED BY <2>0, <2>1, <3>1
            DEF PollAnswered, IsNewHeight, NothingPublished
  <2>2. CASE UNCHANGED blockHeight
    BY <2>0, <2>2
  <2> QED BY <2>1, <2>2
          DEF Next, BlockFound, Poll, PollFails, Subscribe, Unsubscribe, Tick,
              NodeAnswers, Swallow, AnnounceTemplate, LoadFails, Restart,
              vars, pollVars
<1> QED BY <1>1, <1>2, <1>3, StreamTyped, PTL DEF Spec, PublishedNeverFallsBack

(* The stream implements TemplateFeed: no announced template is on an      *)
(* older tip than the one before it.                                       *)
THEOREM StreamImplementsFeed == Spec => ImplementsFeed
<1>1. Init => Feed!FeedInit
  BY DEF Init, Feed!FeedInit, NoTip
<1>2. Init => LoadsInOrder
  BY DEF Init, LoadsInOrder, NoTip
<1>3. TypeOK /\ LoadsInOrder /\ [Next]_vars
        => LoadsInOrder' /\ [Feed!FeedNext]_(Feed!feedVars)
  <2> SUFFICES ASSUME TypeOK, LoadsInOrder, [Next]_vars
               PROVE  LoadsInOrder' /\ [Feed!FeedNext]_(Feed!feedVars)
    OBVIOUS
  <2> DEFINE Kept == UNCHANGED <<tip, announced>>
  <2>0. /\ tip \in Int /\ announced \in Int
        /\ \A l \in loads : l.answer \in Int
    BY StreamAssumption DEF TypeOK, Heights, NoTip, Load
  <2>1. CASE BlockFound
    <3>1. tip' = tip + 1 /\ UNCHANGED <<announced, loads>> /\ tip < MaxHeight
      BY <2>1 DEF BlockFound, streamVars, histVars
    <3>2. LoadsInOrder'
      BY <2>0, <3>1 DEF LoadsInOrder
    <3>3. Feed!BlockFound
      BY <3>1 DEF Feed!BlockFound
    <3> QED BY <3>2, <3>3 DEF Feed!FeedNext
  <2>2. ASSUME NEW l \in loads, AnnounceTemplate(l)
        PROVE  LoadsInOrder' /\ Feed!FeedNext
    <3>1. /\ l.answer \in Heights /\ announced <= l.answer /\ l.answer <= tip
          /\ announced' = l.answer /\ tip' = tip /\ loads' = {}
      BY <2>2 DEF AnnounceTemplate, LoadsInOrder, TypeOK, Load
    <3>2. LoadsInOrder'
      BY <2>0, <3>1 DEF LoadsInOrder
    <3>3. Feed!Announce(l.answer)
      BY <3>1 DEF Feed!Announce
    <3> QED BY <3>1, <3>2, <3>3 DEF Feed!FeedNext, Heights
  <2>3. ASSUME NEW l \in loads, NodeAnswers(l) PROVE LoadsInOrder' /\ Kept
    <3>1. Kept
      BY <2>3 DEF NodeAnswers, histVars
    <3>2. loads' = {[l EXCEPT !.answer = tip]}
      BY <2>3 DEF NodeAnswers, LoadsInOrder
    <3>3. [l EXCEPT !.answer = tip].answer = tip
      BY DEF TypeOK, Load
    <3> QED BY <2>0, <3>1, <3>2, <3>3 DEF LoadsInOrder
  <2>4. CASE Kept /\ loads' \subseteq loads
    BY <2>4 DEF LoadsInOrder, Feed!feedVars
  <2>5. ASSUME NEW t, loads' = SwitchTo(t), Kept PROVE LoadsInOrder' /\ Kept
    <3>1. loads' = {NewLoad(t)} /\ NewLoad(t).answer = NoTip
      BY <2>5 DEF SwitchTo, NewLoad
    <3> QED BY <2>5, <3>1 DEF LoadsInOrder
  <2>6. CASE Poll \/ \E h \in Heights : PollFails(h) \/ PollAnswered(h)
    <3>1. Kept
      BY <2>6 DEF Poll, PollFails, PollAnswered, histVars
    <3>2. loads' \subseteq loads \/ loads' = SwitchTo(tick)
      BY <2>6 DEF Poll, PollFails, PollAnswered, streamVars
    <3> QED BY <2>4, <2>5, <3>1, <3>2 DEF Feed!feedVars
  <2>7. CASE \E s \in Sessions : Subscribe(s) \/ Unsubscribe(s)
    <3>1. Kept
      BY <2>7 DEF Subscribe, Unsubscribe, histVars
    <3>2. loads' \subseteq loads \/ loads' = SwitchTo(Start)
      BY <2>7 DEF Subscribe, Unsubscribe
    <3> QED BY <2>4, <2>5, <3>1, <3>2 DEF Feed!feedVars
  <2>8. CASE Tick
    BY <2>4, <2>5, <2>8 DEF Tick, histVars, Feed!feedVars
  <2>9. CASE \E l \in loads : Swallow(l)
    BY <2>4, <2>9 DEF Swallow, Feed!feedVars
  <2>10. CASE LoadFails \/ Restart \/ UNCHANGED vars
    BY <2>4, <2>10
       DEF LoadFails, Restart, vars, streamVars, histVars, Feed!feedVars
  <2> QED BY <2>1, <2>2, <2>3, <2>6, <2>7, <2>8, <2>9, <2>10
          DEF Next, Feed!feedVars
<1> QED BY <1>1, <1>2, <1>3, StreamTyped, PTL
        DEF Spec, ImplementsFeed, Feed!FeedSpec
-----------------------------------------------------------------------------
\* A load is only listened to while someone is subscribed.
SourceConnected == subscribers = {} => loads = {}

\* Heights the process knows of are heights the node had reached.
HeightsReached == blockHeight <= tip /\ \A h \in polls : h <= tip

\* The answer of the load that is listened to is no older than the height
\* published: a publication abandons the loads started before it.
AnswersReachPublished ==
    \A l \in loads : l.answer # NoTip => blockHeight <= l.answer

LoadsReachPublished ==
    SourceConnected /\ HeightsReached /\ AnswersReachPublished

(* What is listened to reaches the published height in every state.        *)
LEMMA LoadsReachPublishedAlways == Spec => []LoadsReachPublished
<1> DEFINE Inv == LoadsReachPublished
<1> USE DEF LoadsReachPublished
<1>1. Init => Inv
  BY DEF Init, SourceConnected, HeightsReached, AnswersReachPublished
<1>2. TypeOK /\ Inv /\ [Next]_vars => Inv'
  <2> SUFFICES ASSUME TypeOK, Inv, [Next]_vars PROVE Inv'
    OBVIOUS
  <2> USE DEF SourceConnected, HeightsReached, AnswersReachPublished
  <2>0. /\ tip \in Nat /\ blockHeight \in Nat
        /\ polls \subseteq Nat
        /\ \A l \in loads : l \in Load /\ l.answer \in Int
    BY StreamAssumption DEF TypeOK, Heights, NoTip, Load
  <2>1. CASE BlockFound
    BY <2>0, <2>1 DEF BlockFound, pollVars, streamVars
  <2>2. CASE Poll
    BY <2>0, <2>2 DEF Poll, streamVars
  <2>3. ASSUME NEW h \in Heights, PollFails(h) PROVE Inv'
    BY <2>3 DEF PollFails, streamVars
  <2>4. ASSUME NEW h \in Heights, PollAnswered(h) PROVE Inv'
    <3>1. h <= tip /\ polls' \subseteq polls
      BY <2>4 DEF PollAnswered
    <3>2. UNCHANGED <<tip, subscribers>>
      BY <2>4 DEF PollAnswered
    <3>3. CASE UNCHANGED <<blockHeight, loads>>
      BY <3>1, <3>2, <3>3
    <3>4. CASE blockHeight' = h /\ subscribers # {} /\ loads' = SwitchTo(tick)
      <4>1. \A l \in loads' : l.answer = NoTip
        BY <3>4 DEF SwitchTo, NewLoad
      <4> QED BY <3>1, <3>2, <3>4, <4>1
    <3>5. CASE blockHeight' = h /\ subscribers = {} /\ loads' = loads
      BY <3>1, <3>2, <3>5
    <3> QED BY <2>4, <3>3, <3>4, <3>5 DEF PollAnswered
  <2>5. ASSUME NEW t, loads' \subseteq SwitchTo(t) \cup loads, subscribers' # {},
               UNCHANGED <<tip, polls, blockHeight>>
        PROVE  Inv'
    <3>1. \A l \in SwitchTo(t) : l.answer = NoTip
      BY DEF SwitchTo, NewLoad
    <3> QED BY <2>5, <3>1
  <2>6. ASSUME NEW s \in Sessions, Subscribe(s) PROVE Inv'
    BY <2>5, <2>6 DEF Subscribe, pollVars
  <2>7. ASSUME NEW s \in Sessions, Unsubscribe(s) PROVE Inv'
    BY <2>7 DEF Unsubscribe, pollVars
  <2>8. CASE Tick
    BY <2>5, <2>8 DEF Tick, pollVars
  <2>9. ASSUME NEW l \in loads, NodeAnswers(l) PROVE Inv'
    <3>1. [l EXCEPT !.answer = tip].answer = tip
      BY <2>0 DEF Load
    <3> QED BY <2>0, <2>9, <3>1 DEF NodeAnswers, pollVars
  <2>10. CASE \E l \in loads : Swallow(l) \/ AnnounceTemplate(l)
    BY <2>10 DEF Swallow, AnnounceTemplate, pollVars
  <2>11. CASE LoadFails
    BY <2>11 DEF LoadFails
  <2>12. CASE Restart
    BY <2>0, <2>12 DEF Restart
  <2>13. CASE UNCHANGED vars
    BY <2>13 DEF vars, pollVars, streamVars
  <2> QED BY <2>1, <2>2, <2>3, <2>4, <2>6, <2>7, <2>8, <2>9, <2>10, <2>11,
             <2>12, <2>13 DEF Next
<1> QED BY <1>1, <1>2, StreamTyped, PTL DEF Spec

(***************************************************************************)
(* A template that is announced is never below the height already          *)
(* published on newBlock$, however long its load was under way: the map of *)
(* lines 84-119 takes no heed of the height, the switchMap before it does. *)
(* It is the safety half of PublishedBlockAnnounced: the announcement that *)
(* comes after a publication is one of that block or of a later one.       *)
(***************************************************************************)
AnnouncedReachesPublished ==
    [][\A l \in loads : AnnounceTemplate(l) => announced' >= blockHeight]_vars

THEOREM AnnouncedReachesPublishedAlways == Spec => AnnouncedReachesPublished
<1>1. TypeOK /\ LoadsReachPublished
        => [\A l \in loads : AnnounceTemplate(l) => announced' >= blockHeight]_vars
  <2> SUFFICES ASSUME TypeOK, LoadsReachPublished,
                      NEW l \in loads, AnnounceTemplate(l)
               PROVE  announced' >= blockHeight
    OBVIOUS
  <2> QED BY StreamAssumption
          DEF AnnounceTemplate, LoadsReachPublished, AnswersReachPublished,
              TypeOK, Heights, Load, NoTip
<1> QED BY <1>1, LoadsReachPublishedAlways, StreamTyped, PTL
        DEF Spec, AnnouncedReachesPublished

\* The load that is listened to is of the newest interval number, and there
\* is none before a height is known.
LoadsOfInterval ==
    /\ \A l \in loads : l.tick = tick
    /\ ~hasPublishedMiningInfo => loads = {}
    /\ process = "down" => subscribers = {}

(***************************************************************************)
(* When a new block does retire what it follows (TemplateStreamClear shows *)
(* that it need not): once the newest interval number has been announced,  *)
(* the next load is not swallowed, and its announcement leaves nothing     *)
(* below the published height fresh.  What is left to go wrong is the time *)
(* between a tick and its announcement, which is the whole interval when   *)
(* skipNext swallows the load of the tick.                                 *)
(***************************************************************************)
RetiredWhenIntervalKnown ==
    [][lastIntervalCount = tick =>
          \A l \in loads :
              /\ ~Swallow(l)
              /\ AnnounceTemplate(l) => freshFrom' >= blockHeight]_vars

THEOREM RetiredWhenIntervalKnownAlways == Spec => RetiredWhenIntervalKnown
<1> DEFINE Retired ==
               lastIntervalCount = tick =>
                  \A l \in loads :
                      /\ ~Swallow(l)
                      /\ AnnounceTemplate(l) => freshFrom' >= blockHeight
<1>1. Init => LoadsOfInterval
  BY DEF Init, LoadsOfInterval
<1>2. TypeOK /\ LoadsReachPublished /\ LoadsOfInterval /\ [Next]_vars
        => LoadsOfInterval'
  <2> SUFFICES ASSUME TypeOK, SourceConnected, LoadsOfInterval, [Next]_vars
               PROVE  LoadsOfInterval'
    BY DEF LoadsReachPublished
  <2> USE DEF LoadsOfInterval, SourceConnected
  <2>1. \A t : \A l \in SwitchTo(t) : l.tick = t
    BY DEF SwitchTo, NewLoad
  <2>2. CASE BlockFound \/ Poll \/ UNCHANGED vars
    BY <2>2 DEF BlockFound, Poll, vars, pollVars, streamVars
  <2>3. ASSUME NEW h \in Heights, PollFails(h) \/ PollAnswered(h)
        PROVE  LoadsOfInterval'
    BY <2>1, <2>3 DEF PollFails, PollAnswered, streamVars
  <2>4. ASSUME NEW s \in Sessions, Subscribe(s) \/ Unsubscribe(s)
        PROVE  LoadsOfInterval'
    BY <2>1, <2>4 DEF Subscribe, Unsubscribe, pollVars
  <2>5. CASE Tick
    BY <2>1, <2>5 DEF Tick, pollVars
  <2>6. ASSUME NEW l \in loads, NodeAnswers(l) PROVE LoadsOfInterval'
    <3>1. [l EXCEPT !.answer = tip].tick = l.tick
      BY DEF TypeOK, Load
    <3> QED BY <2>6, <3>1 DEF NodeAnswers, pollVars
  <2>7. CASE \E l \in loads : Swallow(l) \/ AnnounceTemplate(l)
    BY <2>7 DEF Swallow, AnnounceTemplate, pollVars
  <2>8. CASE LoadFails \/ Restart
    BY <2>8 DEF LoadFails, Restart
  <2> QED BY <2>2, <2>3, <2>4, <2>5, <2>6, <2>7, <2>8 DEF Next
<1>3. TypeOK /\ LoadsReachPublished /\ LoadsOfInterval => [Retired]_vars
  <2> SUFFICES ASSUME TypeOK, LoadsReachPublished, LoadsOfInterval,
                      lastIntervalCount = tick, NEW l \in loads
               PROVE  /\ ~Swallow(l)
                      /\ AnnounceTemplate(l) => freshFrom' >= blockHeight
    OBVIOUS
  <2>1. IsClearing(l)
    BY DEF LoadsOfInterval, IsClearing
  <2>2. ~Swallow(l)
    BY <2>1 DEF Swallow
  <2>3. ASSUME AnnounceTemplate(l) PROVE freshFrom' >= blockHeight
    <3>1. freshFrom' = l.answer /\ l.answer # NoTip
      BY <2>1, <2>3 DEF AnnounceTemplate
    <3> QED BY <3>1, StreamAssumption
            DEF LoadsReachPublished, AnswersReachPublished, TypeOK, Heights,
                Load, NoTip
  <2> QED BY <2>2, <2>3
<1> QED BY <1>1, <1>2, <1>3, LoadsReachPublishedAlways, StreamTyped, PTL
        DEF Spec, RetiredWhenIntervalKnown
=============================================================================
