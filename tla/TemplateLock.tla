----------------------------- MODULE TemplateLock -----------------------------
(***************************************************************************)
(* The clustered processes (NODE_APP_INSTANCE set) that fetch block        *)
(* templates through the shared table rpc_block_entity: getBlockTemplate   *)
(* of BitcoinRpcService with RpcBlockService, driven by the newBlock$ and  *)
(* interval of newMiningJob$, and the daily deleteOldBlocks of instance 0. *)
(*                                                                         *)
(* A call of getBlockTemplate reads the row of its height; a complete row  *)
(* is used as it is, or refreshed by the process that locked it; an        *)
(* incomplete one is locked, loaded from the node and saved.  lockBlock is *)
(* TypeORM's save(): it selects the row and then inserts it, or updates    *)
(* the columns that differ.  Only an insertion that meets a row inserted   *)
(* meanwhile throws, and sends the call to waitForBlock.  switchMap stops  *)
(* listening to a call that a height or an interval number overtakes, but  *)
(* the call runs on: it is a stray, and still locks and saves.             *)
(***************************************************************************)
EXTENDS Integers, FiniteSets

CONSTANTS Process,        \* values of NODE_APP_INSTANCE
          MaxHeight,      \* bound: the chain stops growing here
          MaxStray        \* bound: stray calls that still run

ASSUME LockAssumption ==
    /\ MaxHeight \in Nat /\ MaxStray \in Nat

VARIABLES
    tip,                  \* the node: height of its best block
    rows,                 \* rpc_block_entity, per height
    asked,                \* per process: height last published on newBlock$
    calls,                \* per process: getBlockTemplate calls that run
    newestBlock,          \* deleteOldBlocks between its two queries
    given                 \* history, per process: tip of the template it was
                          \* last given for the height it asks for

vars == <<tip, rows, asked, calls, newestBlock, given>>

Heights == 0..MaxHeight
None    == -1                        \* no height, no data, nothing given

NoRow   == [lockedBy |-> {}, data |-> None]
Row     == [lockedBy : {{p} : p \in Process}, data : Heights \cup {None}]
Columns == {"lockedBy", "data"}
Stages  == {"getBlock", "lockBlock", "insert", "update", "waitForBlock",
            "load", "saveBlock"}
Call    == [height : Heights, live : BOOLEAN, stage : Stages,
            differ : SUBSET Columns, got : Heights \cup {None}]

TypeOK ==
    /\ tip \in Heights
    /\ rows \in [Heights -> Row \cup {NoRow}]
    /\ asked \in [Process -> Heights \cup {None}]
    /\ calls \in [Process -> SUBSET Call]
    /\ newestBlock \in Heights \cup {None}
    /\ given \in [Process -> Heights \cup {None}]

Init ==
    /\ tip = 0
    /\ rows = [h \in Heights |-> NoRow]
    /\ asked = [p \in Process |-> None]
    /\ calls = [p \in Process |-> {}]
    /\ newestBlock = None
    /\ given = [p \in Process |-> None]

(***************************************************************************)
(* The node, and what starts a call: a height that is published (the race  *)
(* of the polls is in TemplateStream) and each interval number.            *)
(***************************************************************************)
BlockFound ==
    /\ tip < MaxHeight
    /\ tip' = tip + 1
    /\ UNCHANGED <<rows, asked, calls, newestBlock, given>>

NewCall(h) == [height |-> h, live |-> TRUE, stage |-> "getBlock",
               differ |-> {}, got |-> None]

\* The call switchMap leaves becomes a stray.  When more than MaxStray would
\* run in the cluster, some of this process fail at once.
Strays(p) == {[c EXCEPT !.live = FALSE] : c \in calls[p]}

StraysOfOthers(p) ==
    UNION {{<<q, c>> : c \in {d \in calls[q] : ~d.live}} : q \in Process \ {p}}

StartCall(p, h) ==
    \E left \in SUBSET Strays(p) :
        /\ left = {} \/ Cardinality(left) + Cardinality(StraysOfOthers(p))
                         <= MaxStray
        /\ calls' = [calls EXCEPT ![p] = left \cup {NewCall(h)}]

Publish(p, h) ==
    /\ asked[p] < h /\ h <= tip
    /\ asked' = [asked EXCEPT ![p] = h]
    /\ StartCall(p, h)
    /\ given' = [given EXCEPT ![p] = None]
    /\ UNCHANGED <<tip, rows, newestBlock>>

Tick(p) ==
    /\ asked[p] # None
    /\ StartCall(p, asked[p])
    /\ UNCHANGED <<tip, rows, asked, newestBlock, given>>

-----------------------------------------------------------------------------
(***************************************************************************)
(* The steps of a call, from one await to the next.                        *)
(***************************************************************************)
Becomes(p, c, d) ==
    /\ calls' = [calls EXCEPT ![p] = (@ \ {c}) \cup {d}]
    /\ UNCHANGED given

\* The promise resolves; only the call switchMap listens to is heard.
Resolves(p, c, on) ==
    /\ calls' = [calls EXCEPT ![p] = @ \ {c}]
    /\ given' = IF c.live THEN [given EXCEPT ![p] = on] ELSE given

IsComplete(h) == rows[h].data # None

\* line 115: the row is complete and ours, complete and another's, or not.
GetBlock(p, c) ==
    LET row == rows[c.height] IN
    /\ c.stage = "getBlock"
    /\ \/ /\ IsComplete(c.height) /\ row.lockedBy = {p}
          /\ Becomes(p, c, [c EXCEPT !.stage = "load"])
       \/ /\ IsComplete(c.height) /\ row.lockedBy # {p}
          /\ Resolves(p, c, row.data)
       \/ /\ ~IsComplete(c.height)
          /\ Becomes(p, c, [c EXCEPT !.stage = "lockBlock"])
    /\ UNCHANGED <<tip, rows, asked, newestBlock>>

\* The columns in which the row differs from {data: null, lockedBy: p}.
Differ(p, row) == {k \in Columns : row[k] # IF k = "data" THEN None ELSE {p}}

\* Mutant: a true insertion, which meets the row of a process that ended.
LockByInsert(p, c) ==
    /\ c.stage = "lockBlock"
    /\ Becomes(p, c, [c EXCEPT !.stage = "insert"])
    /\ UNCHANGED <<tip, rows, asked, newestBlock>>

\* The SELECT of save().
LockBlock(p, c) ==
    LET row == rows[c.height] IN
    /\ c.stage = "lockBlock"
    /\ Becomes(p, c, IF row = NoRow
                     THEN [c EXCEPT !.stage = "insert"]
                     ELSE [c EXCEPT !.stage = "update",
                                    !.differ = Differ(p, row)])
    /\ UNCHANGED <<tip, rows, asked, newestBlock>>

InsertRow(p, c) ==
    /\ c.stage = "insert"
    /\ IF rows[c.height] = NoRow
       THEN /\ rows' = [rows EXCEPT ![c.height] =
                            [lockedBy |-> {p}, data |-> None]]
            /\ Becomes(p, c, [c EXCEPT !.stage = "load"])
       ELSE /\ Becomes(p, c, [c EXCEPT !.stage = "waitForBlock"])
            /\ UNCHANGED rows
    /\ UNCHANGED <<tip, asked, newestBlock>>

\* The UPDATE of save(), which changes nothing when the row was deleted.
UpdateRow(p, c) ==
    LET row == rows[c.height] IN
    /\ c.stage = "update"
    /\ rows' = IF row = NoRow THEN rows
               ELSE [rows EXCEPT ![c.height] =
                   [lockedBy |-> IF "lockedBy" \in c.differ THEN {p}
                                 ELSE row.lockedBy,
                    data     |-> IF "data" \in c.differ THEN None
                                 ELSE row.data]]
    /\ Becomes(p, c, [c EXCEPT !.stage = "load", !.differ = {}])
    /\ UNCHANGED <<tip, asked, newestBlock>>

\* What waitForBlock returns is overwritten at line 135.
WaitForBlock(p, c) ==
    /\ c.stage = "waitForBlock"
    /\ IsComplete(c.height)
    /\ Becomes(p, c, [c EXCEPT !.stage = "load"])
    /\ UNCHANGED <<tip, rows, asked, newestBlock>>

LoadBlockTemplate(p, c) ==
    /\ c.stage = "load"
    /\ Becomes(p, c, [c EXCEPT !.stage = "saveBlock", !.got = tip])
    /\ UNCHANGED <<tip, rows, asked, newestBlock>>

\* Mutant: the template is saved under the height published last.
SavedUnderPublished(p, c) == asked[p]

SavedUnder(p, c) == c.height

\* Mutant: saveBlock by save(), which inserts the row again when it is gone.
Upserted(h, got) == [rows EXCEPT ![h].data = got]

\* The UPDATE of saveBlock, which changes nothing when the row was deleted.
Updated(h, got) ==
    IF rows[h] = NoRow THEN rows ELSE [rows EXCEPT ![h].data = got]

SaveBlock(p, c) ==
    /\ c.stage = "saveBlock"
    /\ rows' = Updated(SavedUnder(p, c), c.got)
    /\ Resolves(p, c, c.got)
    /\ UNCHANGED <<tip, asked, newestBlock>>

\* Any query or request of a stray may fail, which nobody hears.
StrayFails(p, c) ==
    /\ ~c.live
    /\ calls' = [calls EXCEPT ![p] = @ \ {c}]
    /\ UNCHANGED <<tip, rows, asked, newestBlock, given>>

\* A live call that fails errors the stream and ends the process, as any
\* other end does; the process manager starts it again.  If it was instance 0,
\* a clean-up between its two queries is lost with it.
Crash(p) ==
    /\ asked[p] # None
    /\ asked' = [asked EXCEPT ![p] = None]
    /\ calls' = [calls EXCEPT ![p] = {}]
    /\ given' = [given EXCEPT ![p] = None]
    /\ newestBlock' \in {newestBlock, None}
    /\ UNCHANGED <<tip, rows>>

-----------------------------------------------------------------------------
(***************************************************************************)
(* deleteOldBlocks: the greatest height is selected, then the rows below   *)
(* it are deleted.                                                         *)
(***************************************************************************)
Filled == {h \in Heights : rows[h] # NoRow}

SelectNewest ==
    /\ newestBlock = None
    /\ \E h \in Filled : /\ \A k \in Filled : k <= h
                         /\ h > 0       \* no row is below height 0
                         /\ newestBlock' = h
    /\ UNCHANGED <<tip, rows, asked, calls, given>>

\* Mutant: the newest row is deleted too.
IsOldOrNewest(h) == h <= newestBlock

IsOld(h) == h < newestBlock

DeleteOld ==
    /\ newestBlock # None
    /\ rows' = [h \in Heights |-> IF IsOld(h) THEN NoRow ELSE rows[h]]
    /\ newestBlock' = None
    /\ UNCHANGED <<tip, asked, calls, given>>

-----------------------------------------------------------------------------
Step(p, c) ==
    \/ GetBlock(p, c)     \/ LockBlock(p, c)    \/ InsertRow(p, c)
    \/ UpdateRow(p, c)    \/ WaitForBlock(p, c) \/ LoadBlockTemplate(p, c)
    \/ SaveBlock(p, c)

Next ==
    \/ BlockFound
    \/ \E p \in Process :
         \/ Tick(p) \/ Crash(p)
         \/ \E h \in Heights : Publish(p, h)
         \/ \E c \in calls[p] : Step(p, c) \/ StrayFails(p, c)
    \/ SelectNewest \/ DeleteOld

(***************************************************************************)
(* The node is polled and answers in the end, the interval runs, and a     *)
(* call's queries and requests end long before the 60 seconds of the       *)
(* interval, so that ticks cannot overtake every call.  No stray, no row   *)
(* and no other process is assumed to make progress, and a call that waits *)
(* for a block is not assumed to get it.                                   *)
(***************************************************************************)
Live(p) == {c \in calls[p] : c.live}

Fairness ==
    /\ <>[][\A p \in Process : ~Crash(p)]_vars
    /\ \A p \in Process :
          /\ WF_vars(Tick(p))
          /\ WF_vars(\E h \in Heights : Publish(p, h))
          /\ WF_vars(\E c \in Live(p) : GetBlock(p, c))
          /\ SF_vars(\E c \in Live(p) : LockBlock(p, c))
          /\ SF_vars(\E c \in Live(p) : InsertRow(p, c) \/ UpdateRow(p, c))
          /\ SF_vars(\E c \in Live(p) : LoadBlockTemplate(p, c))
          /\ SF_vars(\E c \in Live(p) : SaveBlock(p, c))

Spec     == Init /\ [][Next]_vars
FairSpec == Spec /\ Fairness

-----------------------------------------------------------------------------
Source == INSTANCE TemplateSource WITH
              Process <- Process, MaxHeight <- MaxHeight,
              tip <- tip, asked <- asked, given <- given

(***************************************************************************)
(* The table implements TemplateSource: whatever strays save late, locks   *)
(* are stolen or cleared and rows are deleted, a process that asked for a  *)
(* height never mines on a template below it.                              *)
(***************************************************************************)
ImplementsSource == Source!SourceSpec

(***************************************************************************)
(* deleteOldBlocks, whose two queries other processes come between, only   *)
(* removes a row when a row above it stays.                                *)
(***************************************************************************)
NewestRowKept ==
    [][\A h \in Filled : rows'[h] = NoRow
           => \E k \in Filled : k > h /\ rows'[k] # NoRow]_vars

(***************************************************************************)
(* No lock holds the cluster up for ever: once the chain and the crashes   *)
(* rest, every process is given a template for the node's height, also     *)
(* when the process that locked the row ended before it saved it.          *)
(***************************************************************************)
ClusterCatchesUp ==
    <>[](\A p \in Process : asked[p] = tip /\ given[p] # None)
=============================================================================
