---------------------------- MODULE TemplateFeed ----------------------------
(***************************************************************************)
(* What the block-template stream promises the sessions, apart from how it *)
(* is computed: templates are announced one at a time, each on a tip the   *)
(* node had reached when it was announced, and never on an older tip than  *)
(* the template before it.  TemplateStream is shown to implement this.     *)
(***************************************************************************)
EXTENDS Integers

CONSTANT MaxHeight        \* the chain stops growing at this height

VARIABLES tip,            \* height of the node's best block
          announced       \* tip of the newest announced template, -1 if none

feedVars == <<tip, announced>>

FeedInit == tip = 0 /\ announced = -1

BlockFound == tip < MaxHeight /\ tip' = tip + 1 /\ UNCHANGED announced

Announce(h) ==
    /\ announced <= h /\ h <= tip
    /\ announced' = h
    /\ UNCHANGED tip

FeedNext == BlockFound \/ \E h \in 0..MaxHeight : Announce(h)

FeedSpec == FeedInit /\ [][FeedNext]_feedVars
=============================================================================
