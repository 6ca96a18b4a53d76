---------------------------- MODULE TemplateSource ----------------------------
(***************************************************************************)
(* What getBlockTemplate promises each clustered process, apart from the   *)
(* table the processes share: a process that asked for the template of a   *)
(* height is given one composed on a tip the node has reached, at that     *)
(* height or above.  TemplateLock is shown to implement this.              *)
(***************************************************************************)
EXTENDS Integers

CONSTANTS Process, MaxHeight

VARIABLES tip,            \* height of the node's best block
          asked,          \* per process: the height it asks for, -1 if none
          given           \* per process: tip of the template it was last
                          \* given for that height, -1 if none

sourceVars == <<tip, asked, given>>

SourceInit ==
    /\ tip = 0
    /\ asked = [p \in Process |-> -1]
    /\ given = [p \in Process |-> -1]

Grow == tip < MaxHeight /\ tip' = tip + 1 /\ UNCHANGED <<asked, given>>

Ask(p, h) ==
    /\ asked[p] < h /\ h <= tip
    /\ asked' = [asked EXCEPT ![p] = h]
    /\ given' = [given EXCEPT ![p] = -1]
    /\ UNCHANGED tip

Give(p, on) ==
    /\ asked[p] >= 0
    /\ asked[p] <= on /\ on <= tip
    /\ given' = [given EXCEPT ![p] = on]
    /\ UNCHANGED <<tip, asked>>

\* The process ends and another takes its place.
Restart(p) ==
    /\ asked' = [asked EXCEPT ![p] = -1]
    /\ given' = [given EXCEPT ![p] = -1]
    /\ UNCHANGED tip

SourceNext ==
    \/ Grow
    \/ \E p \in Process : \/ Restart(p)
                          \/ \E h \in 0..MaxHeight : Ask(p, h) \/ Give(p, h)

SourceSpec == SourceInit /\ [][SourceNext]_sourceVars
=============================================================================
