-------------------------- MODULE TemplateLockProofs --------------------------
(***************************************************************************)
(* Safety of TemplateLock for every set of processes, every chain length   *)
(* and any number of strays: types, the clean-up keeps the newest row, and *)
(* the shared table as an implementation of TemplateSource.                *)
(***************************************************************************)
EXTENDS TemplateLock, TLAPS

\* What is in the table is a template at the height of its row or above, and
\* on a tip the node has reached.
RowsSound ==
    \A h \in Heights : IsComplete(h) => h <= rows[h].data /\ rows[h].data <= tip

\* A call asks for a height the node has reached, and holds a template of
\* that height or above when it saves; the live one asks for the last height
\* published.
CallSound(p, c) ==
    /\ c.height <= tip
    /\ c.stage = "saveBlock" => c.got # None
    /\ c.got # None => c.height <= c.got /\ c.got <= tip
    /\ c.live => c.height = asked[p]

CallsSound == \A p \in Process : \A c \in calls[p] : CallSound(p, c)

\* A height is published once the node has reached it.
AskedReached == \A p \in Process : asked[p] <= tip

SourceInv == TypeOK /\ AskedReached /\ RowsSound /\ CallsSound

-----------------------------------------------------------------------------
(* Starting a call keeps the calls calls.                                  *)
LEMMA StartCallTyped ==
    ASSUME TypeOK, NEW p \in Process, NEW h \in Heights, StartCall(p, h)
    PROVE  calls' \in [Process -> SUBSET Call]
<1>1. NewCall(h) \in Call
  BY DEF NewCall, Call, Stages, Columns
<1>2. calls[p] \subseteq Call
  BY DEF TypeOK
<1>3. Strays(p) \subseteq Call
  BY <1>2 DEF Strays, Call
<1>4. PICK left \in SUBSET Strays(p) :
          calls' = [calls EXCEPT ![p] = left \cup {NewCall(h)}]
  BY DEF StartCall
<1>5. left \cup {NewCall(h)} \in SUBSET Call
  BY <1>1, <1>3
<1> QED BY <1>4, <1>5 DEF TypeOK

(* A step of a call leaves a call, or none.                                *)
LEMMA BecomesTyped ==
    ASSUME TypeOK, NEW p \in Process, NEW c, NEW d \in Call, Becomes(p, c, d)
    PROVE  /\ calls' \in [Process -> SUBSET Call]
           /\ given' \in [Process -> Heights \cup {None}]
BY DEF Becomes, TypeOK

LEMMA ResolvesTyped ==
    ASSUME TypeOK, NEW p \in Process, NEW c, NEW on \in Heights \cup {None},
           Resolves(p, c, on)
    PROVE  /\ calls' \in [Process -> SUBSET Call]
           /\ given' \in [Process -> Heights \cup {None}]
<1>1. calls' \in [Process -> SUBSET Call]
  BY DEF Resolves, TypeOK
<1>2. given' \in [Process -> Heights \cup {None}]
  BY DEF Resolves, TypeOK
<1> QED BY <1>1, <1>2

(* A row that is written is a row.                                         *)
LEMMA RowTyped ==
    ASSUME NEW f \in [Heights -> Row \cup {NoRow}], NEW h \in Heights,
           NEW r \in Row
    PROVE  [f EXCEPT ![h] = r] \in [Heights -> Row \cup {NoRow}]
OBVIOUS

LEMMA StepTyped ==
    ASSUME TypeOK, NEW p \in Process, NEW c \in calls[p],
           Step(p, c) \/ StrayFails(p, c)
    PROVE  TypeOK'
<1>1. c \in Call
  BY DEF TypeOK
<1>2. c.height \in Heights /\ c.got \in Heights \cup {None}
  BY <1>1 DEF Call
<1>3. rows[c.height] \in Row \cup {NoRow}
  BY <1>2 DEF TypeOK
<1>4. rows[c.height].data \in Heights \cup {None}
  BY <1>3 DEF Row, NoRow
<1>5. \A s \in Stages : [c EXCEPT !.stage = s] \in Call
  BY <1>1 DEF Call
<1>6. /\ "load" \in Stages /\ "lockBlock" \in Stages /\ "insert" \in Stages
      /\ "waitForBlock" \in Stages /\ "update" \in Stages
      /\ "saveBlock" \in Stages
  BY DEF Stages
<1>7. CASE GetBlock(p, c)
  <2>1. \/ \E d \in Call : Becomes(p, c, d)
        \/ Resolves(p, c, rows[c.height].data)
    BY <1>5, <1>6, <1>7 DEF GetBlock
  <2>2. /\ calls' \in [Process -> SUBSET Call]
        /\ given' \in [Process -> Heights \cup {None}]
    BY <2>1, <1>4, BecomesTyped, ResolvesTyped
  <2> QED BY <1>7, <2>2 DEF GetBlock, TypeOK
<1>8. CASE LockBlock(p, c)
  <2>1. Differ(p, rows[c.height]) \in SUBSET Columns
    BY DEF Differ
  <2>2. [c EXCEPT !.stage = "update",
                  !.differ = Differ(p, rows[c.height])] \in Call
    BY <1>1, <1>6, <2>1 DEF Call
  <2>3. \E d \in Call : Becomes(p, c, d)
    BY <1>5, <1>6, <1>8, <2>2 DEF LockBlock
  <2>4. /\ calls' \in [Process -> SUBSET Call]
        /\ given' \in [Process -> Heights \cup {None}]
    BY <2>3, BecomesTyped
  <2> QED BY <1>8, <2>4 DEF LockBlock, TypeOK
<1>9. CASE InsertRow(p, c)
  <2>1. [lockedBy |-> {p}, data |-> None] \in Row
    BY DEF Row
  <2>2. rows' \in [Heights -> Row \cup {NoRow}]
    BY <1>2, <1>9, <2>1, RowTyped DEF InsertRow, TypeOK
  <2>3. \E d \in Call : Becomes(p, c, d)
    BY <1>5, <1>6, <1>9 DEF InsertRow
  <2>4. /\ calls' \in [Process -> SUBSET Call]
        /\ given' \in [Process -> Heights \cup {None}]
    BY <2>3, BecomesTyped
  <2> QED BY <1>9, <2>2, <2>4 DEF InsertRow, TypeOK
<1>10. CASE UpdateRow(p, c)
  <2> DEFINE row == rows[c.height]
             new == [lockedBy |-> IF "lockedBy" \in c.differ THEN {p}
                                  ELSE row.lockedBy,
                     data     |-> IF "data" \in c.differ THEN None
                                  ELSE row.data]
  <2>1. row # NoRow => new \in Row
    BY <1>3 DEF Row
  <2>2. rows' = IF row = NoRow THEN rows ELSE [rows EXCEPT ![c.height] = new]
    BY <1>10 DEF UpdateRow
  <2>3. rows' \in [Heights -> Row \cup {NoRow}]
    <3> HIDE DEF new
    <3> QED BY <1>2, <2>1, <2>2, RowTyped DEF TypeOK
  <2>4. [c EXCEPT !.stage = "load", !.differ = {}] \in Call
    BY <1>1, <1>6 DEF Call
  <2>5. /\ calls' \in [Process -> SUBSET Call]
        /\ given' \in [Process -> Heights \cup {None}]
    BY <1>10, <2>4, BecomesTyped DEF UpdateRow
  <2> QED BY <1>10, <2>3, <2>5 DEF UpdateRow, TypeOK
<1>11. CASE WaitForBlock(p, c)
  <2>1. /\ calls' \in [Process -> SUBSET Call]
        /\ given' \in [Process -> Heights \cup {None}]
    BY <1>5, <1>6, <1>11, BecomesTyped DEF WaitForBlock
  <2> QED BY <1>11, <2>1 DEF WaitForBlock, TypeOK
<1>12. CASE LoadBlockTemplate(p, c)
  <2>1. [c EXCEPT !.stage = "saveBlock", !.got = tip] \in Call
    BY <1>1, <1>6 DEF Call, TypeOK
  <2>2. /\ calls' \in [Process -> SUBSET Call]
        /\ given' \in [Process -> Heights \cup {None}]
    BY <1>12, <2>1, BecomesTyped DEF LoadBlockTemplate
  <2> QED BY <1>12, <2>2 DEF LoadBlockTemplate, TypeOK
<1>13. CASE SaveBlock(p, c)
  <2>1. /\ calls' \in [Process -> SUBSET Call]
        /\ given' \in [Process -> Heights \cup {None}]
    BY <1>2, <1>13, ResolvesTyped DEF SaveBlock
  <2>2. rows[c.height] # NoRow
            => [rows[c.height] EXCEPT !.data = c.got] \in Row
    BY <1>2, <1>3 DEF Row
  <2>3. rows' = IF rows[c.height] = NoRow THEN rows
                ELSE [rows EXCEPT ![c.height] =
                          [rows[c.height] EXCEPT !.data = c.got]]
    BY <1>2, <1>13 DEF SaveBlock, Updated, SavedUnder, TypeOK
  <2>4. rows' \in [Heights -> Row \cup {NoRow}]
    BY <1>2, <2>2, <2>3, RowTyped DEF TypeOK
  <2> QED BY <1>13, <2>1, <2>4 DEF SaveBlock, TypeOK
<1>14. CASE StrayFails(p, c)
  BY <1>14 DEF StrayFails, TypeOK
<1> QED BY <1>7, <1>8, <1>9, <1>10, <1>11, <1>12, <1>13, <1>14 DEF Step

(* Type correctness: whatever is deleted, cleared or saved late, a row that *)
(* exists has an owner, and a call runs on with fields of its own.          *)
THEOREM LockTyped == Spec => []TypeOK
<1>1. Init => TypeOK
  BY LockAssumption DEF Init, TypeOK, Heights, None, NoRow
<1>2. TypeOK /\ [Next]_vars => TypeOK'
  <2> SUFFICES ASSUME TypeOK, [Next]_vars PROVE TypeOK'
    OBVIOUS
  <2>1. CASE BlockFound
    BY <2>1, LockAssumption DEF BlockFound, TypeOK, Heights
  <2>2. ASSUME NEW p \in Process, Tick(p) PROVE TypeOK'
    <3>1. asked[p] \in Heights
      BY <2>2 DEF Tick, TypeOK
    <3>2. calls' \in [Process -> SUBSET Call]
      BY <2>2, <3>1, StartCallTyped DEF Tick
    <3> QED BY <2>2, <3>2 DEF Tick, TypeOK
  <2>3. ASSUME NEW p \in Process, NEW h \in Heights, Publish(p, h)
        PROVE  TypeOK'
    <3>1. calls' \in [Process -> SUBSET Call]
      BY <2>3, StartCallTyped DEF Publish
    <3> QED BY <2>3, <3>1 DEF Publish, TypeOK
  <2>4. ASSUME NEW p \in Process, Crash(p) PROVE TypeOK'
    BY <2>4 DEF Crash, TypeOK
  <2>5. ASSUME NEW p \in Process, NEW c \in calls[p],
               Step(p, c) \/ StrayFails(p, c)
        PROVE  TypeOK'
    BY <2>5, StepTyped
  <2>6. CASE SelectNewest
    BY <2>6 DEF SelectNewest, TypeOK, Filled
  <2>7. CASE DeleteOld
    BY <2>7 DEF DeleteOld, TypeOK
  <2>8. CASE UNCHANGED vars
    BY <2>8 DEF vars, TypeOK
  <2> QED BY <2>1, <2>2, <2>3, <2>4, <2>5, <2>6, <2>7, <2>8 DEF Next
<1> QED BY <1>1, <1>2, PTL DEF Spec

-----------------------------------------------------------------------------
\* What deleteOldBlocks selected is still there when it deletes.
NewestThere == newestBlock # None => newestBlock \in Filled

(* A step of a call never removes a row.                                   *)
LEMMA StepKeepsRows ==
    ASSUME TypeOK, NEW p \in Process, NEW c \in calls[p],
           Step(p, c) \/ StrayFails(p, c),
           NEW h \in Filled
    PROVE  rows'[h] # NoRow
<1>1. c.height \in Heights /\ h \in Heights /\ rows[h] # NoRow
  BY DEF TypeOK, Call, Filled
<1>2. \A r, s : {r} # {} /\ [lockedBy |-> {r}, data |-> s] # NoRow
  <2>1. \A r : {r} # {}
    OBVIOUS
  <2>2. \A r, s : [lockedBy |-> {r}, data |-> s].lockedBy # NoRow.lockedBy
    BY <2>1 DEF NoRow
  <2> QED BY <2>1, <2>2
<1>3. rows[h] \in Row
  BY <1>1 DEF TypeOK
<1>4. rows[h].lockedBy # {}
  BY <1>3 DEF Row
<1>5. CASE InsertRow(p, c)
  BY <1>1, <1>2, <1>5 DEF InsertRow, TypeOK
<1>6. CASE UpdateRow(p, c)
  <2>1. CASE h = c.height /\ rows[c.height] # NoRow
    <3>1. rows'[h].lockedBy = IF "lockedBy" \in c.differ THEN {p}
                              ELSE rows[h].lockedBy
      BY <1>1, <1>6, <2>1 DEF UpdateRow, TypeOK
    <3>2. rows'[h].lockedBy # {}
      BY <1>4, <3>1
    <3> QED BY <3>2 DEF NoRow
  <2>2. CASE ~(h = c.height /\ rows[c.height] # NoRow)
    BY <1>1, <1>6, <2>2 DEF UpdateRow, TypeOK
  <2> QED BY <2>1, <2>2
<1>7. CASE SaveBlock(p, c)
  <2>1. rows'[h].lockedBy = rows[h].lockedBy
    BY <1>1, <1>7 DEF SaveBlock, Updated, SavedUnder, TypeOK
  <2> QED BY <1>4, <2>1 DEF NoRow
<1> QED BY <1>1, <1>5, <1>6, <1>7
        DEF Step, GetBlock, LockBlock, WaitForBlock, LoadBlockTemplate,
            StrayFails

(* deleteOldBlocks only removes a row when a row above it stays, whatever  *)
(* the processes do between its two queries.                               *)
THEOREM NewestKept == Spec => NewestRowKept
<1>1. Init => NewestThere
  BY DEF Init, NewestThere
<1>2. TypeOK /\ NewestThere /\ [Next]_vars
        => /\ NewestThere'
           /\ [\A h \in Filled : rows'[h] = NoRow
                  => \E k \in Filled : k > h /\ rows'[k] # NoRow]_vars
  <2> SUFFICES ASSUME TypeOK, NewestThere, [Next]_vars
               PROVE  /\ NewestThere'
                      /\ \/ \A h \in Filled : rows'[h] = NoRow
                               => \E k \in Filled : k > h /\ rows'[k] # NoRow
                         \/ UNCHANGED vars
    OBVIOUS
  <2>1. ASSUME \A h \in Filled : rows'[h] # NoRow,
               newestBlock' \in {newestBlock, None}
        PROVE  /\ NewestThere'
               /\ \A h \in Filled : rows'[h] = NoRow
                     => \E k \in Filled : k > h /\ rows'[k] # NoRow
    BY <2>1 DEF NewestThere, Filled
  <2>2. CASE UNCHANGED vars
    BY <2>2 DEF vars, NewestThere, Filled
  <2>3. CASE BlockFound
    BY <2>1, <2>3 DEF BlockFound, Filled
  <2>4. ASSUME NEW p \in Process,
               Tick(p) \/ Crash(p) \/ \E h \in Heights : Publish(p, h)
        PROVE  /\ \A h \in Filled : rows'[h] # NoRow
               /\ newestBlock' \in {newestBlock, None}
    BY <2>4 DEF Tick, Crash, Publish, Filled
  <2>5. ASSUME NEW p \in Process, NEW c \in calls[p],
               Step(p, c) \/ StrayFails(p, c)
        PROVE  /\ \A h \in Filled : rows'[h] # NoRow
               /\ newestBlock' \in {newestBlock, None}
    <3>1. newestBlock' = newestBlock
      BY <2>5 DEF Step, GetBlock, LockBlock, InsertRow, UpdateRow,
                  WaitForBlock, LoadBlockTemplate, SaveBlock, StrayFails
    <3> QED BY <2>5, <3>1, StepKeepsRows
  <2>6. CASE SelectNewest
    BY <2>6 DEF SelectNewest, NewestThere, Filled
  <2>7. CASE DeleteOld
    <3>1. newestBlock \in Filled /\ newestBlock' = None
      BY <2>7 DEF DeleteOld, NewestThere
    <3>2. rows'[newestBlock] # NoRow
      BY <2>7, <3>1 DEF DeleteOld, IsOld, Filled, Heights
    <3>3. \A h \in Filled : rows'[h] = NoRow => newestBlock > h
      BY <2>7, <3>1 DEF DeleteOld, IsOld, Filled, Heights
    <3> QED BY <3>1, <3>2, <3>3 DEF NewestThere
  <2> QED BY <2>1, <2>2, <2>3, <2>4, <2>5, <2>6, <2>7 DEF Next
<1> QED BY <1>1, <1>2, LockTyped, PTL DEF Spec, NewestRowKept

-----------------------------------------------------------------------------
(* Starting a call at a height the node has reached and the process asks   *)
(* for keeps the calls sound: those left are strays.                       *)
LEMMA StartCallSound ==
    ASSUME TypeOK, CallsSound, NEW p \in Process, NEW h \in Heights,
           StartCall(p, h), h <= tip, tip' = tip, asked' \in [Process -> Int],
           asked'[p] = h, \A q \in Process \ {p} : asked'[q] = asked[q]
    PROVE  CallsSound'
<1>1. PICK left \in SUBSET Strays(p) :
          calls' = [calls EXCEPT ![p] = left \cup {NewCall(h)}]
  BY DEF StartCall
<1>2. SUFFICES ASSUME NEW q \in Process, NEW c \in calls'[q]
               PROVE  CallSound(q, c)'
  BY DEF CallsSound
<1>3. CASE q # p
  <2>1. c \in calls[q] /\ CallSound(q, c)
    BY <1>1, <1>3 DEF TypeOK, CallsSound
  <2> QED BY <1>3, <2>1 DEF CallSound
<1>4. CASE q = p
  <2>1. c \in left \cup {NewCall(h)}
    BY <1>1, <1>4 DEF TypeOK
  <2>2. CASE c = NewCall(h)
    BY <1>4, <2>2 DEF NewCall, CallSound
  <2>3. CASE c \in left
    <3>1. PICK d \in calls[p] : c = [d EXCEPT !.live = FALSE]
      BY <2>3 DEF Strays
    <3>2. d \in Call /\ CallSound(p, d)
      BY DEF TypeOK, CallsSound
    <3>3. /\ c.height = d.height /\ c.stage = d.stage /\ c.got = d.got
          /\ c.live = FALSE
      BY <3>1, <3>2 DEF Call
    <3> QED BY <3>2, <3>3 DEF CallSound
  <2> QED BY <2>1, <2>2, <2>3
<1> QED BY <1>3, <1>4

(* A call that goes on keeps the calls sound when it stays sound itself.   *)
LEMMA BecomesSound ==
    ASSUME TypeOK, CallsSound, NEW p \in Process, NEW c \in calls[p], NEW d,
           Becomes(p, c, d), CallSound(p, d), UNCHANGED <<tip, asked>>
    PROVE  CallsSound'
<1>1. SUFFICES ASSUME NEW q \in Process, NEW e \in calls'[q]
               PROVE  CallSound(q, e)'
  BY DEF CallsSound
<1>2. e \in calls[q] \/ (q = p /\ e = d)
  BY DEF Becomes, TypeOK
<1>3. CallSound(q, e)
  BY <1>2 DEF CallsSound
<1> QED BY <1>3 DEF CallSound

(* A step that takes calls away and leaves the rest alone keeps them sound. *)
LEMMA FewerCallsSound ==
    ASSUME CallsSound, UNCHANGED asked, tip <= tip', tip \in Int, tip' \in Int,
           TypeOK, \A q \in Process : calls'[q] \subseteq calls[q]
    PROVE  CallsSound'
<1>1. SUFFICES ASSUME NEW q \in Process, NEW e \in calls'[q]
               PROVE  CallSound(q, e)'
  BY DEF CallsSound
<1>2. e \in calls[q] /\ CallSound(q, e) /\ e \in Call
  BY DEF CallsSound, TypeOK
<1>3. e.height \in Int /\ e.got \in Int
  BY <1>2 DEF Call, Heights, None
<1> QED BY <1>2, <1>3 DEF CallSound

(* A step of a call keeps table and calls sound, and is a Give of the      *)
(* source or changes nothing the source shows.                             *)
LEMMA StepSound ==
    ASSUME SourceInv, NEW p \in Process, NEW c \in calls[p],
           Step(p, c) \/ StrayFails(p, c)
    PROVE  RowsSound' /\ CallsSound' /\ [Source!SourceNext]_(Source!sourceVars)
<1> USE DEF SourceInv
<1>1. c \in Call /\ CallSound(p, c)
  BY DEF TypeOK, CallsSound
<1>2. c.height \in Heights /\ c.got \in Heights \cup {None}
  BY <1>1 DEF Call
<1>3. tip \in Heights /\ asked[p] \in Heights \cup {None}
  BY DEF TypeOK
<1>4. UNCHANGED <<tip, asked>>
  BY DEF Step, GetBlock, LockBlock, InsertRow, UpdateRow, WaitForBlock,
         LoadBlockTemplate, SaveBlock, StrayFails
<1>5. ASSUME UNCHANGED rows PROVE RowsSound'
  BY <1>4, <1>5 DEF RowsSound, IsComplete
<1>6. ASSUME NEW d, Becomes(p, c, d) PROVE UNCHANGED Source!sourceVars
  BY <1>4, <1>6 DEF Becomes, Source!sourceVars
<1>7. ASSUME NEW s \in Stages, s # "saveBlock"
      PROVE  CallSound(p, [c EXCEPT !.stage = s])
  BY <1>1, <1>7 DEF Call, CallSound
<1>8. ASSUME NEW on \in Heights, c.height <= on, on <= tip, Resolves(p, c, on)
      PROVE  CallsSound' /\ [Source!SourceNext]_(Source!sourceVars)
  <2>1. CallsSound'
    <3>1. \A q \in Process : calls'[q] \subseteq calls[q]
      BY <1>8 DEF Resolves, TypeOK
    <3> QED BY <1>3, <1>4, <3>1, FewerCallsSound DEF Heights
  <2>2. CASE c.live
    <3>1. asked[p] = c.height
      BY <1>1, <2>2 DEF CallSound
    <3>2. given' = [given EXCEPT ![p] = on]
      BY <1>8, <2>2 DEF Resolves
    <3>3. Source!Give(p, on)
      BY <1>2, <1>4, <1>8, <3>1, <3>2 DEF Source!Give, Heights
    <3>4. on \in 0..MaxHeight
      BY <1>8 DEF Heights
    <3> QED BY <2>1, <3>3, <3>4 DEF Source!SourceNext
  <2>3. CASE ~c.live
    BY <1>4, <1>8, <2>1, <2>3 DEF Resolves, Source!sourceVars
  <2> QED BY <2>2, <2>3
<1>9. CASE GetBlock(p, c)
  <2>1. RowsSound'
    BY <1>5, <1>9 DEF GetBlock
  <2>2. CASE Becomes(p, c, [c EXCEPT !.stage = "load"])
    <3>1. CallsSound'
      BY <1>4, <1>7, <2>2, BecomesSound DEF Stages
    <3> QED BY <1>6, <2>1, <2>2, <3>1
  <2>3. CASE Becomes(p, c, [c EXCEPT !.stage = "lockBlock"])
    <3>1. CallsSound'
      BY <1>4, <1>7, <2>3, BecomesSound DEF Stages
    <3> QED BY <1>6, <2>1, <2>3, <3>1
  <2>4. CASE IsComplete(c.height) /\ Resolves(p, c, rows[c.height].data)
    <3>1. /\ rows[c.height].data \in Heights
          /\ c.height <= rows[c.height].data /\ rows[c.height].data <= tip
      <4>1. rows[c.height] \in Row \cup {NoRow}
        BY <1>2 DEF TypeOK
      <4>2. rows[c.height].data \in Heights
        BY <2>4, <4>1 DEF IsComplete, Row, NoRow
      <4> QED BY <1>2, <2>4, <4>2 DEF RowsSound
    <3> QED BY <1>8, <2>1, <2>4, <3>1
  <2> QED BY <1>9, <2>2, <2>3, <2>4 DEF GetBlock
<1>10. CASE LockBlock(p, c)
  <2>1. CallSound(p, [c EXCEPT !.stage = "update",
                               !.differ = Differ(p, rows[c.height])])
    BY <1>1 DEF Call, CallSound
  <2>2. CallsSound'
    BY <1>4, <1>7, <1>10, <2>1, BecomesSound DEF LockBlock, Stages
  <2> QED BY <1>5, <1>6, <1>10, <2>2 DEF LockBlock
<1>11. CASE InsertRow(p, c)
  <2>1. CallsSound'
    BY <1>4, <1>7, <1>11, BecomesSound DEF InsertRow, Stages
  <2>2. RowsSound'
    <3>1. CASE UNCHANGED rows
      BY <1>5, <3>1
    <3>2. CASE rows' = [rows EXCEPT ![c.height] =
                            [lockedBy |-> {p}, data |-> None]]
      BY <1>2, <1>4, <3>2 DEF RowsSound, IsComplete, TypeOK
    <3> QED BY <1>11, <3>1, <3>2 DEF InsertRow
  <2> QED BY <1>6, <1>11, <2>1, <2>2 DEF InsertRow
<1>12. CASE UpdateRow(p, c)
  <2>1. CallSound(p, [c EXCEPT !.stage = "load", !.differ = {}])
    BY <1>1 DEF Call, CallSound
  <2>2. CallsSound'
    BY <1>4, <1>12, <2>1, BecomesSound DEF UpdateRow
  <2>3. \A h \in Heights : rows'[h].data \in {rows[h].data, None}
    BY <1>2, <1>12 DEF UpdateRow, TypeOK
  <2>4. RowsSound'
    BY <1>4, <2>3 DEF RowsSound, IsComplete
  <2> QED BY <1>6, <1>12, <2>2, <2>4 DEF UpdateRow
<1>13. CASE WaitForBlock(p, c)
  <2>1. CallsSound'
    BY <1>4, <1>7, <1>13, BecomesSound DEF WaitForBlock, Stages
  <2> QED BY <1>5, <1>6, <1>13, <2>1 DEF WaitForBlock
<1>14. CASE LoadBlockTemplate(p, c)
  <2>1. CallSound(p, [c EXCEPT !.stage = "saveBlock", !.got = tip])
    BY <1>1, <1>2, <1>3 DEF Call, CallSound, Heights, None
  <2>2. CallsSound'
    BY <1>4, <1>14, <2>1, BecomesSound DEF LoadBlockTemplate
  <2> QED BY <1>5, <1>6, <1>14, <2>2 DEF LoadBlockTemplate
<1>15. CASE SaveBlock(p, c)
  <2>1. c.got \in Heights /\ c.height <= c.got /\ c.got <= tip
    BY <1>1, <1>2, <1>15 DEF SaveBlock, CallSound
  <2>2. CallsSound' /\ [Source!SourceNext]_(Source!sourceVars)
    BY <1>8, <1>15, <2>1 DEF SaveBlock
  <2>3. RowsSound'
    <3>1. \A h \in Heights \ {c.height} : rows'[h] = rows[h]
      BY <1>15 DEF SaveBlock, Updated, SavedUnder, TypeOK
    <3>2. rows'[c.height].data \in {rows[c.height].data, c.got}
      <4>1. rows[c.height] \in Row \cup {NoRow}
        BY <1>2 DEF TypeOK
      <4> QED BY <1>2, <1>15, <4>1
              DEF SaveBlock, Updated, SavedUnder, TypeOK, Row, NoRow
    <3> QED BY <1>4, <2>1, <3>1, <3>2 DEF RowsSound, IsComplete
  <2> QED BY <2>2, <2>3
<1>16. CASE StrayFails(p, c)
  <2>1. \A q \in Process : calls'[q] \subseteq calls[q]
    BY <1>16 DEF StrayFails, TypeOK
  <2>2. CallsSound'
    BY <1>3, <1>4, <2>1, FewerCallsSound DEF Heights
  <2> QED BY <1>5, <1>16, <2>2 DEF StrayFails, Source!sourceVars
<1> QED BY <1>9, <1>10, <1>11, <1>12, <1>13, <1>14, <1>15, <1>16 DEF Step

(* A height asked for stays reached.                                       *)
LEMMA AskedStaysReached ==
    ASSUME TypeOK, AskedReached, [Next]_vars
    PROVE  AskedReached'
<1>1. /\ tip \in Int
      /\ \A p \in Process : asked[p] \in Int
  BY DEF TypeOK, Heights, None
<1>2. CASE BlockFound
  BY <1>1, <1>2 DEF BlockFound, AskedReached
<1>3. ASSUME NEW p \in Process, NEW h \in Heights, Publish(p, h)
      PROVE  AskedReached'
  BY <1>3 DEF Publish, AskedReached, TypeOK
<1>4. ASSUME NEW p \in Process, Crash(p) PROVE AskedReached'
  BY <1>4 DEF Crash, AskedReached, TypeOK, Heights, None
<1>5. CASE UNCHANGED <<tip, asked>>
  BY <1>5 DEF AskedReached
<1>6. ASSUME NEW p \in Process, NEW c, Step(p, c) \/ StrayFails(p, c)
      PROVE  UNCHANGED <<tip, asked>>
  BY <1>6 DEF Step, GetBlock, LockBlock, InsertRow, UpdateRow, WaitForBlock,
              LoadBlockTemplate, SaveBlock, StrayFails
<1>7. CASE UNCHANGED vars
  BY <1>5, <1>7 DEF vars
<1> QED BY <1>2, <1>3, <1>4, <1>5, <1>6, <1>7
        DEF Next, Tick, SelectNewest, DeleteOld

(* The shared table implements TemplateSource: a process is given a        *)
(* template at the height it asks for or above, on a tip the node has      *)
(* reached, whatever strays save late and whoever locks, clears or deletes. *)
THEOREM LockImplementsSource == Spec => ImplementsSource
<1>1. Init => Source!SourceInit
  BY DEF Init, Source!SourceInit, None
<1>2. Init => AskedReached /\ RowsSound /\ CallsSound
  BY DEF Init, AskedReached, RowsSound, CallsSound, IsComplete, NoRow, None
<1>3. SourceInv /\ [Next]_vars
        => RowsSound' /\ CallsSound' /\ [Source!SourceNext]_(Source!sourceVars)
  <2> SUFFICES ASSUME SourceInv, [Next]_vars
               PROVE  /\ RowsSound' /\ CallsSound'
                      /\ [Source!SourceNext]_(Source!sourceVars)
    OBVIOUS
  <2> USE DEF SourceInv
  <2>1. /\ tip \in Heights
        /\ asked \in [Process -> Heights \cup {None}]
        /\ \A h \in Heights : rows[h].data \in Heights \cup {None}
    <3>1. \A h \in Heights : rows[h] \in Row \cup {NoRow}
      BY DEF TypeOK
    <3> QED BY <3>1 DEF TypeOK, Row, NoRow
  <2>2. ASSUME UNCHANGED rows, tip' \in Int, tip <= tip' PROVE RowsSound'
    BY <2>1, <2>2 DEF RowsSound, IsComplete, Heights, None
  <2>3. CASE BlockFound
    <3>1. RowsSound'
      BY <2>1, <2>2, <2>3 DEF BlockFound, Heights
    <3>2. CallsSound'
      BY <2>1, <2>3, FewerCallsSound DEF BlockFound, Heights
    <3>3. Source!Grow
      BY <2>3 DEF BlockFound, Source!Grow
    <3> QED BY <3>1, <3>2, <3>3 DEF Source!SourceNext
  <2>4. ASSUME NEW p \in Process, NEW h \in Heights, Publish(p, h)
        PROVE  /\ RowsSound' /\ CallsSound'
               /\ [Source!SourceNext]_(Source!sourceVars)
    <3>1. RowsSound'
      BY <2>1, <2>2, <2>4 DEF Publish, Heights
    <3>2. CallsSound'
      <4>1. /\ asked' \in [Process -> Int] /\ asked'[p] = h
            /\ \A q \in Process \ {p} : asked'[q] = asked[q]
        BY <2>1, <2>4 DEF Publish, Heights, None
      <4> QED BY <2>4, <4>1, StartCallSound DEF Publish
    <3>3. Source!Ask(p, h)
      BY <2>4 DEF Publish, Source!Ask, None
    <3>4. h \in 0..MaxHeight
      BY DEF Heights
    <3> QED BY <3>1, <3>2, <3>3, <3>4 DEF Source!SourceNext
  <2>5. ASSUME NEW p \in Process, Tick(p)
        PROVE  /\ RowsSound' /\ CallsSound'
               /\ [Source!SourceNext]_(Source!sourceVars)
    <3>1. RowsSound'
      BY <2>1, <2>2, <2>5 DEF Tick, Heights
    <3>2. asked[p] <= tip
      BY DEF AskedReached
    <3>3. CallsSound'
      <4>1. /\ asked[p] \in Heights /\ asked' \in [Process -> Int]
            /\ asked'[p] = asked[p]
            /\ \A q \in Process \ {p} : asked'[q] = asked[q]
        BY <2>1, <2>5 DEF Tick, Heights, None
      <4> QED BY <2>5, <3>2, <4>1, StartCallSound DEF Tick
    <3> QED BY <2>5, <3>1, <3>3 DEF Tick, Source!sourceVars
  <2>6. ASSUME NEW p \in Process, Crash(p)
        PROVE  /\ RowsSound' /\ CallsSound'
               /\ [Source!SourceNext]_(Source!sourceVars)
    <3>1. RowsSound'
      BY <2>1, <2>2, <2>6 DEF Crash, Heights
    <3>2. CallsSound'
      <4>1. SUFFICES ASSUME NEW q \in Process, NEW e \in calls'[q]
                     PROVE  CallSound(q, e)'
        BY DEF CallsSound
      <4>2. q # p /\ e \in calls[q] /\ asked'[q] = asked[q] /\ tip' = tip
        BY <2>6 DEF Crash, TypeOK
      <4>3. CallSound(q, e)
        BY <4>2 DEF CallsSound
      <4> QED BY <4>2, <4>3 DEF CallSound
    <3>3. Source!Restart(p)
      BY <2>6 DEF Crash, Source!Restart, None
    <3> QED BY <3>1, <3>2, <3>3 DEF Source!SourceNext
  <2>7. ASSUME NEW p \in Process, NEW c \in calls[p],
               Step(p, c) \/ StrayFails(p, c)
        PROVE  /\ RowsSound' /\ CallsSound'
               /\ [Source!SourceNext]_(Source!sourceVars)
    BY <2>7, StepSound
  <2>8. CASE SelectNewest
    BY <2>8 DEF SelectNewest, RowsSound, IsComplete, CallsSound, CallSound,
                Source!sourceVars
  <2>9. CASE DeleteOld
    <3>1. \A h \in Heights : rows'[h].data \in {rows[h].data, None}
      BY <2>9 DEF DeleteOld, NoRow
    <3>2. RowsSound'
      BY <2>9, <3>1 DEF DeleteOld, RowsSound, IsComplete
    <3> QED BY <2>9, <3>2 DEF DeleteOld, CallsSound, CallSound,
                              Source!sourceVars
  <2>10. CASE UNCHANGED vars
    BY <2>10 DEF vars, RowsSound, IsComplete, CallsSound, CallSound,
                 Source!sourceVars
  <2> QED BY <2>3, <2>4, <2>5, <2>6, <2>7, <2>8, <2>9, <2>10 DEF Next
<1> QED BY <1>1, <1>2, <1>3, AskedStaysReached, LockTyped, PTL
        DEF Spec, SourceInv, ImplementsSource, Source!SourceSpec
=============================================================================
