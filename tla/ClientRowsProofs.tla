--------------------------- MODULE ClientRowsProofs ---------------------------
(***************************************************************************)
(* Safety of ClientRows for every number of sessions, difficulties and     *)
(* handlers at a time.                                                     *)
(***************************************************************************)
EXTENDS ClientRows, TLAPS

-----------------------------------------------------------------------------
(* Rows: what an operation on a row keeps.                                 *)
LEMMA RowFacts ==
    /\ NoRow.best = None /\ NoRow \notin Row /\ None \notin Bests
    /\ \A row \in Row \cup {NoRow} : row.best = None <=> row = NoRow
    /\ \A row \in Row : row.best \in Bests
    /\ NewRow \in Row /\ NewRow.best = 0
<1>1. /\ None \notin Bests /\ 0 \in Bests
      /\ 0 \in 0..MaxIdle /\ 0 \in 0..MaxMarked
  BY RowsAssumption DEF None, Bests
<1>2. NoRow.best = None
  BY DEF NoRow
<1>3. \A row \in Row : row.best \in Bests
  BY DEF Row
<1>4. NewRow \in Row /\ NewRow.best = 0
  BY <1>1 DEF NewRow, Row
<1> QED BY <1>1, <1>2, <1>3, <1>4

LEMMA RowKept ==
    ASSUME NEW row \in Row
    PROVE  /\ Older(row) \in Row /\ Older(row).best = row.best
           /\ Marked(row) \in Row /\ Marked(row).best = row.best
<1> DEFINE idle   == Lower(row.idle + 1, MaxIdle)
           marked == IF row.live THEN 0 ELSE Lower(row.marked + 1, MaxMarked)
<1>1. row = [live |-> row.live, idle |-> row.idle, marked |-> row.marked,
             best |-> row.best]
      /\ row.live \in BOOLEAN /\ row.idle \in 0..MaxIdle
      /\ row.marked \in 0..MaxMarked /\ row.best \in Bests
  BY DEF Row
<1>2. /\ idle \in 0..MaxIdle
      /\ Lower(row.marked + 1, MaxMarked) \in 0..MaxMarked
      /\ 0 \in 0..MaxIdle /\ 0 \in 0..MaxMarked
  BY <1>1, RowsAssumption DEF Lower
<1>3. marked \in 0..MaxMarked
  BY <1>2
<1>4. Older(row) = [row EXCEPT !.idle = idle, !.marked = marked]
  BY DEF Older
<1>5. Marked(row) \in Row /\ Marked(row).best = row.best
  BY <1>2 DEF Marked, Row
<1> HIDE DEF idle, marked
<1> QED BY <1>1, <1>2, <1>3, <1>4, <1>5 DEF Row

LEMMA RowRevived ==
    ASSUME NEW row \in Row \cup {NoRow}
    PROVE  /\ Revived(row) \in Row \cup {NoRow}
           /\ Revived(row).best = row.best
<1>1. CASE row = NoRow
  BY <1>1 DEF Revived
<1>2. CASE row # NoRow
  <2>1. /\ row = [live |-> row.live, idle |-> row.idle,
                  marked |-> row.marked, best |-> row.best]
        /\ row.best \in Bests /\ 0 \in 0..MaxIdle /\ 0 \in 0..MaxMarked
    BY <1>2, RowsAssumption DEF Row
  <2>2. Revived(row) = [live |-> TRUE, idle |-> 0, marked |-> 0,
                        best |-> row.best]
    BY <1>2, <2>1 DEF Revived
  <2> QED BY <2>1, <2>2 DEF Row
<1> QED BY <1>1, <1>2

(* A handler that goes on is the same share at another stage.              *)
LEMMA CallAt ==
    ASSUME NEW c \in Call, NEW stage \in Stages
    PROVE  /\ [c EXCEPT !.stage = stage] \in Call
           /\ [c EXCEPT !.stage = stage].session = c.session
           /\ [c EXCEPT !.stage = stage].best = c.best
           /\ [c EXCEPT !.stage = stage].stage = stage
BY DEF Call

LEMMA CallsTyped ==
    ASSUME calls \subseteq Call, NEW c \in calls,
           Ends(c) \/ (\E stage \in Stages : At(c, stage)) \/ Compare(c)
    PROVE  calls' \subseteq Call
<1>1. Ends(c) => calls' \subseteq Call
  BY DEF Ends
<1>2. ASSUME NEW stage \in Stages, At(c, stage) PROVE calls' \subseteq Call
  BY <1>2, CallAt DEF At
<1>3. Compare(c) => At(c, "rowBest") \/ Ends(c)
  BY DEF Compare
<1>4. "rowBest" \in Stages
  BY DEF Stages
<1> QED BY <1>1, <1>2, <1>3, <1>4

-----------------------------------------------------------------------------
(***************************************************************************)
(* Every reachable state is well typed.                                    *)
(***************************************************************************)
THEOREM RowsTyped == Spec => []TypeOK
<1>1. Init => TypeOK
  <2> SUFFICES ASSUME Init PROVE TypeOK
    OBVIOUS
  <2>1. 0 \in Bests /\ None \in {None}
    BY RowsAssumption DEF Bests
  <2> QED BY <2>1 DEF Init, TypeOK
<1>2. TypeOK /\ [Next]_vars => TypeOK'
  <2> SUFFICES ASSUME TypeOK, [Next]_vars PROVE TypeOK'
    OBVIOUS
  <2> USE DEF memVars, rowVars, histVars
  <2>0. /\ 0 \in Bests /\ 1..MaxBest \subseteq Bests
        /\ \A a, b \in Bests : Higher(a, b) \in Bests
        /\ \A s \in Sessions : rows[s] = NoRow \/ rows[s] \in Row
    BY RowsAssumption DEF Bests, Higher, TypeOK
  <2>1. CASE Minute
    <3>1. rows' \in [Sessions -> Row \cup {NoRow}]
      BY <2>0, <2>1, RowKept DEF Minute
    <3> QED BY <2>1, <3>1 DEF Minute, TypeOK
  <2>2. CASE InsertClients
    BY <2>2 DEF InsertClients, TypeOK
  <2>3. ASSUME NEW b \in batches, Inserted(b) PROVE TypeOK'
    <3>1. rows' \in [Sessions -> Row \cup {NoRow}]
      BY <2>0, <2>3, RowFacts DEF Inserted
    <3> QED BY <2>3, <3>1 DEF Inserted, TypeOK
  <2>4. ASSUME NEW b \in batches, InsertFails(b) PROVE TypeOK'
    BY <2>4 DEF InsertFails, TypeOK
  <2>5. CASE KillDeadClients
    <3>1. rows' \in [Sessions -> Row \cup {NoRow}]
      <4>1. ~NoRow.live
        BY DEF NoRow
      <4> QED BY <2>0, <2>5, <4>1, RowKept DEF KillDeadClients
    <3> QED BY <2>5, <3>1 DEF KillDeadClients, TypeOK
  <2>6. CASE DeleteOldClients
    BY <2>0, <2>6 DEF DeleteOldClients, TypeOK
  <2>7. ASSUME NEW s \in Sessions, FirstSubmission(s) PROVE TypeOK'
    BY <2>0, <2>7 DEF FirstSubmission, TypeOK
  <2>8. ASSUME NEW s \in Sessions, Share(s) PROVE TypeOK'
    <3>1. PICK d \in 1..MaxBest, block \in BOOLEAN : Credit(s, d, block)
      BY <2>8 DEF Share
    <3> DEFINE c == [session |-> s, best |-> d,
                     stage |-> IF block THEN "reset" ELSE "addShares"]
    <3>2. c \in Call
      BY DEF Call, Stages
    <3>3. d \in Bests /\ Higher(reached[s], d) \in Bests
      BY <2>0 DEF TypeOK
    <3>4. expected' \in Bests
      BY <2>0, <3>1, <3>3 DEF Credit, TypeOK
    <3>5. calls' = calls \cup {c}
          /\ reached' = [reached EXCEPT ![s] = Higher(@, d)]
          /\ disturbed' \in BOOLEAN
          /\ UNCHANGED <<memVars, rowVars, settings, early, lost, forgotten>>
      BY <3>1 DEF Credit, TypeOK
    <3> HIDE DEF c
    <3> QED BY <3>2, <3>3, <3>4, <3>5 DEF TypeOK
  <2>9. ASSUME NEW s \in Sessions, Destroy(s) PROVE TypeOK'
    BY <2>9 DEF Destroy, TypeOK
  <2>10. ASSUME NEW s \in Sessions, SoftDelete(s) PROVE TypeOK'
    <3>1. rows' \in [Sessions -> Row \cup {NoRow}]
      BY <2>0, <2>10, RowKept DEF SoftDelete, TypeOK
    <3> QED BY <2>10, <3>1 DEF SoftDelete, TypeOK
  <2>11. ASSUME NEW s \in Sessions, LastHandlerEnds(s) PROVE TypeOK'
    BY <2>11 DEF LastHandlerEnds, TypeOK
  <2>12. ASSUME NEW c \in calls, Step(c) PROVE TypeOK'
    <3>0. c \in Call /\ c.session \in Sessions /\ c.best \in Bests
      BY <2>0 DEF TypeOK, Call
    <3>1. CASE ResetBests(c)
      BY <2>0, <3>1, CallsTyped DEF ResetBests, TypeOK, Stages
    <3>2. CASE SharesAdded(c)
      BY <3>2, CallsTyped DEF SharesAdded, TypeOK, Stages
    <3>3. CASE Heartbeat(c)
      <4>1. rows' \in [Sessions -> Row \cup {NoRow}]
        BY <3>0, <3>3, RowRevived DEF Heartbeat, TypeOK
      <4>2. calls' \subseteq Call
        BY <3>3, CallsTyped DEF Heartbeat, TypeOK
      <4> QED BY <3>3, <4>1, <4>2 DEF Heartbeat, TypeOK
    <3>4. CASE WriteRowBest(c)
      <4>1. rows' \in [Sessions -> Row \cup {NoRow}]
        BY <2>0, <3>0, <3>4, RowsAssumption DEF WriteRowBest, TypeOK, Row
      <4>2. calls' \subseteq Call
        BY <3>4, CallsTyped DEF WriteRowBest, TypeOK, Stages
      <4>3. early' \subseteq Sessions
        BY <3>0, <3>4 DEF WriteRowBest, TypeOK
      <4> QED BY <3>4, <4>1, <4>2, <4>3 DEF WriteRowBest, TypeOK
    <3>5. CASE RowBestWritten(c)
      <4>1. calls' \subseteq Call
        BY <3>5, CallsTyped DEF RowBestWritten, TypeOK, Stages
      <4> QED BY <3>0, <3>5, <4>1 DEF RowBestWritten, NewBest, TypeOK
    <3>6. CASE GetSettings(c)
      BY <3>6, CallsTyped DEF GetSettings, TypeOK, Stages
    <3>7. CASE CreateNew(c)
      BY <3>7, CallsTyped DEF CreateNew, TypeOK, Stages
    <3>8. CASE InsertSettings(c)
      BY <2>0, <3>8, CallsTyped DEF InsertSettings, TypeOK, Stages
    <3>9. CASE UpdateAddressBest(c)
      BY <3>0, <3>9, CallsTyped DEF UpdateAddressBest, TypeOK
    <3>10. CASE BookkeepingFails(c)
      BY <3>10, CallsTyped DEF BookkeepingFails, TypeOK
    <3>11. CASE CallFails(c)
      BY <3>11, CallsTyped DEF CallFails, TypeOK
    <3> QED BY <2>12, <3>1, <3>2, <3>3, <3>4, <3>5, <3>6, <3>7, <3>8, <3>9,
               <3>10, <3>11 DEF Step
  <2>13. CASE UNCHANGED vars
    BY <2>13 DEF vars, TypeOK
  <2> QED BY <2>1, <2>2, <2>3, <2>4, <2>5, <2>6, <2>7, <2>8, <2>9, <2>10, <2>11,
             <2>12, <2>13 DEF Next
<1> QED BY <1>1, <1>2, PTL DEF Spec

-----------------------------------------------------------------------------
\* Sessions whose row is still to be inserted.
Pending == insertQueue \cup UNION batches

\* A row is inserted once: by the one batch its session was queued for, and
\* shares are counted of sessions that were queued.
InsertedOnce ==
    /\ \A s \in Sessions : s \in Pending => rows[s].best = None
    /\ \A s \in insertQueue : s \notin UNION batches
    /\ \A a, b \in batches : a # b => a \cap b = {}
    /\ \A s \in Sessions : entity[s] = None =>
         /\ s \notin Pending /\ s \notin early
         /\ rows[s].best = None /\ reached[s] = 0
    /\ \A c \in calls : entity[c.session] # None

\* The row of s holds best n, or will once it is inserted, unless the best
\* was written too early.
RowFits(s, n) ==
    s \notin early => /\ rows[s].best # None => rows[s].best = n
                      /\ s \in Pending => n = 0

AtRest(s) ==
    entity[s] # None => entity[s] = reached[s] /\ RowFits(s, entity[s])

\* The best of the address, 0 as long as there is none.
AddressBest == IF settings = None THEN 0 ELSE settings

\* How far the handler of c, alone, has brought the best difficulties.
Unjudged == {"reset", "addShares", "heartbeat"}
InMemory == {"getSettings", "createNew", "insertSettings", "addressBest"}

Booked(c) ==
    LET s == c.session
        raises == c.best > entity[s] IN
    /\ RowFits(s, IF c.stage = "rowBestDone" THEN c.best ELSE entity[s])
    /\ c.stage \in Unjudged => reached[s] = Higher(entity[s], c.best)
    /\ c.stage = "reset" => expected = IF raises THEN c.best ELSE 0
    /\ c.stage \in {"addShares", "heartbeat"} =>
         expected = IF raises THEN Higher(AddressBest, c.best) ELSE AddressBest
    /\ c.stage \notin Unjudged =>
         reached[s] = c.best /\ expected = Higher(AddressBest, c.best)
    /\ c.stage \in InMemory => entity[s] = c.best
    /\ c.stage \in {"createNew", "insertSettings"} => settings = None
    /\ c.stage = "addressBest" => settings # None /\ expected = c.best

BooksKept ==
    /\ \A c, d \in calls : c = d
    /\ \A c \in calls : Booked(c)
    /\ \A s \in Sessions : (\A c \in calls : c.session # s) => AtRest(s)
    /\ calls = {} => expected = AddressBest

RowsInv == InsertedOnce /\ (~disturbed => BooksKept)

-----------------------------------------------------------------------------
LEMMA OnceKept ==
    ASSUME InsertedOnce, UNCHANGED <<insertQueue, batches>>,
           \A s \in Sessions : rows[s].best = None => rows'[s].best = None,
           \A s \in Sessions : entity'[s] = None => entity[s] = None,
           \A s \in Sessions : entity[s] = None =>
              (s \in early' => s \in early) /\ reached'[s] = reached[s],
           \A c \in calls' : entity'[c.session] # None
    PROVE  InsertedOnce'
BY DEF InsertedOnce, Pending

(* Steps of anyone but a share or its handler.                             *)
LEMMA BooksUntouched ==
    ASSUME BooksKept, UNCHANGED <<entity, settings, calls, reached, expected>>,
           \A s \in Sessions, n \in Bests : RowFits(s, n) => RowFits(s, n)',
           TypeOK, InsertedOnce
    PROVE  BooksKept'
<1>1. \A s \in Sessions : AtRest(s) => AtRest(s)'
  BY DEF AtRest, TypeOK
<1>2. ASSUME NEW c \in calls, entity[c.session] # None, Booked(c) PROVE Booked(c)'
  <2>1. c \in Call /\ c.session \in Sessions /\ c.best \in Bests
    BY RowsAssumption DEF TypeOK, Call, Bests
  <2>2. entity[c.session] \in Bests
    BY <1>2, <2>1 DEF TypeOK
  <2> QED BY <1>2, <2>1, <2>2 DEF Booked, AddressBest
<1>3. \A c \in calls : entity[c.session] # None
  BY DEF InsertedOnce
<1> QED BY <1>1, <1>2, <1>3 DEF BooksKept, AddressBest

(* A step of the only handler concerns its own session.                    *)
LEMMA OthersUntouched ==
    ASSUME TypeOK, BooksKept, NEW c \in calls,
           UNCHANGED <<insertQueue, batches>>,
           \A s \in Sessions \ {c.session} :
              /\ entity'[s] = entity[s] /\ reached'[s] = reached[s]
              /\ rows'[s].best = rows[s].best /\ (s \in early' <=> s \in early)
    PROVE  /\ calls = {c} /\ Booked(c)
           /\ \A s \in Sessions \ {c.session} : AtRest(s)'
<1>1. calls = {c} /\ Booked(c)
  BY DEF BooksKept
<1>2. \A s \in Sessions \ {c.session} : AtRest(s)
  BY <1>1 DEF BooksKept
<1> QED BY <1>1, <1>2 DEF AtRest, RowFits, Pending

LEMMA HandlerGoesOn ==
    ASSUME NEW c \in Call, calls = {c}, NEW stage \in Stages, At(c, stage),
           \A s \in Sessions \ {c.session} : AtRest(s)',
           Booked([c EXCEPT !.stage = stage])'
    PROVE  BooksKept'
<1> DEFINE d == [c EXCEPT !.stage = stage]
<1>1. calls' = {d} /\ d.session = c.session
  BY CallAt DEF At
<1> HIDE DEF d
<1>2. Booked(d)'
  BY DEF d
<1>3. \A s \in Sessions : (\A k \in calls' : k.session # s) => AtRest(s)'
  BY <1>1
<1> QED BY <1>1, <1>2, <1>3 DEF BooksKept

LEMMA HandlerEnds ==
    ASSUME NEW c \in Call, calls = {c}, Ends(c),
           \A s \in Sessions \ {c.session} : AtRest(s)',
           AtRest(c.session)', expected' = AddressBest'
    PROVE  BooksKept'
<1>1. calls' = {}
  BY DEF Ends
<1> QED BY <1>1 DEF BooksKept

(* What a share does after its bookkeeping: it goes on only with a new     *)
(* best.                                                                   *)
LEMMA Compared ==
    ASSUME TypeOK, InsertedOnce, BooksKept, NEW c \in calls, Compare(c),
           c.stage \in {"addShares", "heartbeat"},
           UNCHANGED <<insertQueue, batches, entity, settings, reached,
                       expected, early>>,
           \A s \in Sessions : rows'[s].best = rows[s].best
    PROVE  BooksKept'
<1> DEFINE s == c.session
<1>1. c \in Call /\ s \in Sessions /\ c.best \in Nat /\ c.best >= 1
      /\ entity[s] \in Nat
  BY RowsAssumption DEF TypeOK, Call, InsertedOnce, Bests
<1>2. /\ calls = {c} /\ Booked(c)
      /\ \A t \in Sessions \ {s} : AtRest(t)'
  BY OthersUntouched
<1>3. RowFits(s, entity[s])'
  BY <1>1, <1>2 DEF Booked, RowFits, Pending
<1>4. AddressBest' = AddressBest
  BY DEF AddressBest
<1>5. CASE c.best > entity[s]
  <2> DEFINE d == [c EXCEPT !.stage = "rowBest"]
  <2>1. At(c, "rowBest") /\ "rowBest" \in Stages
    BY <1>5 DEF Compare, Stages
  <2>2. d.session = s /\ d.best = c.best /\ d.stage = "rowBest"
    BY <1>1, <2>1, CallAt
  <2> HIDE DEF d
  <2>3. /\ reached[s] = c.best
        /\ expected = Higher(AddressBest, c.best)
    BY <1>1, <1>2, <1>5 DEF Booked, Higher, Unjudged
  <2>4. Booked(d)'
    BY <1>1, <1>3, <1>4, <1>5, <2>2, <2>3 DEF Booked, Unjudged, InMemory
  <2> QED BY <1>1, <1>2, <2>1, <2>4, HandlerGoesOn DEF d
<1>6. CASE ~(c.best > entity[s])
  <2>1. Ends(c)
    BY <1>6 DEF Compare
  <2>2. reached[s] = entity[s] /\ expected = AddressBest
    BY <1>1, <1>2, <1>6 DEF Booked, Higher, Unjudged
  <2>3. AtRest(s)'
    BY <1>1, <1>3, <2>2 DEF AtRest
  <2> QED BY <1>1, <1>2, <1>4, <2>1, <2>2, <2>3, HandlerEnds
<1> QED BY <1>5, <1>6

-----------------------------------------------------------------------------
(* A row is inserted once, whatever overlaps or fails.                     *)
LEMMA InsertedOnceKept ==
    TypeOK /\ InsertedOnce /\ [Next]_vars => InsertedOnce'
<1> SUFFICES ASSUME TypeOK, InsertedOnce, [Next]_vars PROVE InsertedOnce'
  OBVIOUS
<1> USE DEF memVars, rowVars, histVars
<1>0. /\ \A s \in Sessions : rows[s] = NoRow \/ rows[s] \in Row
      /\ \A c \in calls : c \in Call /\ c.session \in Sessions
                          /\ c.best # None /\ entity[c.session] # None
  BY RowsAssumption DEF TypeOK, Call, InsertedOnce, None
<1>1. CASE Minute
  <2>1. \A s \in Sessions : rows[s].best = None => rows'[s].best = None
    BY <1>0, <1>1, RowFacts, RowKept DEF Minute
  <2> QED BY <1>0, <1>1, <2>1, OnceKept DEF Minute
<1>2. CASE InsertClients
  BY <1>2 DEF InsertClients, InsertedOnce, Pending
<1>3. ASSUME NEW b \in batches, Inserted(b) PROVE InsertedOnce'
  <2>1. \A s \in Sessions : s \in Pending' => s \in Pending /\ s \notin b
    BY <1>3 DEF Inserted, InsertedOnce, Pending
  <2>2. \A s \in Sessions \ b : rows'[s] = rows[s]
    BY <1>3 DEF Inserted
  <2>3. \A s \in Sessions : entity[s] = None => s \notin b
    BY <1>3 DEF InsertedOnce, Pending
  <2> QED BY <1>3, <2>1, <2>2, <2>3 DEF Inserted, InsertedOnce
<1>4. ASSUME NEW b \in batches, InsertFails(b) PROVE InsertedOnce'
  BY <1>4 DEF InsertFails, InsertedOnce, Pending
<1>5. CASE KillDeadClients
  <2>1. \A s \in Sessions : rows[s].best = None => rows'[s].best = None
    <3>1. ~NoRow.live
      BY DEF NoRow
    <3> QED BY <1>0, <1>5, <3>1, RowFacts, RowKept DEF KillDeadClients
  <2> QED BY <1>0, <1>5, <2>1, OnceKept DEF KillDeadClients
<1>6. CASE DeleteOldClients
  <2>1. \A s \in Sessions : rows[s].best = None => rows'[s].best = None
    BY <1>6, RowFacts DEF DeleteOldClients
  <2> QED BY <1>0, <1>6, <2>1, OnceKept DEF DeleteOldClients
<1>7. ASSUME NEW s \in Sessions, FirstSubmission(s) PROVE InsertedOnce'
  <2>1. /\ entity[s] = None /\ entity' = [entity EXCEPT ![s] = 0]
        /\ insertQueue' = insertQueue \cup {s} /\ 0 # None
        /\ UNCHANGED <<batches, rows, calls, reached, early>>
    BY <1>7 DEF FirstSubmission, None
  <2>2. \A t \in Sessions : t \in Pending' => t \in Pending \/ t = s
    BY <2>1 DEF Pending
  <2> QED BY <1>0, <2>1, <2>2 DEF InsertedOnce, Pending, TypeOK
<1>8. ASSUME NEW s \in Sessions, Share(s) PROVE InsertedOnce'
  <2>1. PICK d \in 1..MaxBest, block \in BOOLEAN : Credit(s, d, block)
    BY <1>8 DEF Share
  <2>2. \A c \in calls' : c \in calls \/ c.session = s
    BY <2>1 DEF Credit
  <2>3. /\ entity[s] # None
        /\ \A t \in Sessions \ {s} : reached'[t] = reached[t]
        /\ UNCHANGED <<entity, rows, insertQueue, batches, early>>
    BY <2>1 DEF Credit, TypeOK
  <2> QED BY <1>0, <2>2, <2>3, OnceKept
<1>9. ASSUME NEW s \in Sessions, Destroy(s) PROVE InsertedOnce'
  BY <1>0, <1>9, OnceKept DEF Destroy
<1>10. ASSUME NEW s \in Sessions, SoftDelete(s) PROVE InsertedOnce'
  <2>1. \A t \in Sessions : rows[t].best = None => rows'[t].best = None
    BY <1>0, <1>10, RowFacts DEF SoftDelete, TypeOK
  <2> QED BY <1>0, <1>10, <2>1, OnceKept DEF SoftDelete
<1>11. ASSUME NEW s \in Sessions, LastHandlerEnds(s) PROVE InsertedOnce'
  BY <1>0, <1>11, OnceKept DEF LastHandlerEnds
<1>12. ASSUME NEW c \in calls, Step(c) PROVE InsertedOnce'
  <2>1. \A k \in calls' : \E j \in calls : k.session = j.session
    <3>1. ASSUME NEW stage \in Stages, At(c, stage)
          PROVE  \A k \in calls' : \E j \in calls : k.session = j.session
      <4> DEFINE d == [c EXCEPT !.stage = stage]
      <4>1. d.session = c.session
        BY <1>0, CallAt
      <4>2. calls' = (calls \ {c}) \cup {d}
        BY <3>1 DEF At
      <4> HIDE DEF d
      <4> QED BY <4>1, <4>2
    <3>2. Ends(c) => \A k \in calls' : \E j \in calls : k.session = j.session
      BY DEF Ends
    <3>3. Compare(c) => At(c, "rowBest") \/ Ends(c)
      BY DEF Compare
    <3>4. Ends(c) \/ \E stage \in Stages : At(c, stage)
      BY <1>12, <3>3 DEF Step, ResetBests, SharesAdded, Heartbeat, WriteRowBest,
         RowBestWritten, GetSettings, CreateNew, InsertSettings,
         UpdateAddressBest, BookkeepingFails, CallFails, Stages
    <3> QED BY <3>1, <3>2, <3>4
  <2>2. UNCHANGED <<insertQueue, batches, reached>>
    BY <1>12 DEF Step, ResetBests, SharesAdded, Heartbeat, WriteRowBest,
       RowBestWritten, GetSettings, CreateNew, InsertSettings,
       UpdateAddressBest, BookkeepingFails, CallFails
  <2>3. \A s \in Sessions : entity'[s] = None => entity[s] = None
    <3>1. entity' = entity \/ entity' = [entity EXCEPT ![c.session] = c.best]
      BY <1>12 DEF Step, ResetBests, SharesAdded, Heartbeat, WriteRowBest,
         RowBestWritten, NewBest, GetSettings, CreateNew, InsertSettings,
         UpdateAddressBest, BookkeepingFails, CallFails
    <3> QED BY <1>0, <3>1 DEF TypeOK
  <2>4. \A s \in Sessions : rows[s].best = None => rows'[s].best = None
    <3>1. \/ rows' = rows
          \/ rows' = [rows EXCEPT ![c.session] = Revived(@)]
          \/ /\ rows[c.session] # NoRow
             /\ rows' = [rows EXCEPT ![c.session].best = c.best,
                                     ![c.session].idle = 0]
      BY <1>12 DEF Step, ResetBests, SharesAdded, Heartbeat, WriteRowBest,
         RowBestWritten, GetSettings, CreateNew, InsertSettings,
         UpdateAddressBest, BookkeepingFails, CallFails
    <3>2. CASE rows' = [rows EXCEPT ![c.session] = Revived(@)]
      BY <1>0, <3>2, RowRevived DEF TypeOK
    <3>3. ASSUME rows[c.session] # NoRow,
                 rows' = [rows EXCEPT ![c.session].best = c.best,
                                      ![c.session].idle = 0]
          PROVE  \A s \in Sessions : rows[s].best = None => rows'[s].best = None
      <4>1. rows[c.session].best # None
        BY <1>0, <3>3, RowFacts
      <4>2. \A s \in Sessions \ {c.session} : rows'[s] = rows[s]
        BY <3>3 DEF TypeOK
      <4> QED BY <4>1, <4>2
    <3> QED BY <3>1, <3>2, <3>3
  <2>5. early' = early \/ early' = early \cup {c.session}
        \/ early' = early \ {c.session}
    BY <1>12 DEF Step, ResetBests, SharesAdded, Heartbeat, WriteRowBest,
       RowBestWritten, GetSettings, CreateNew, InsertSettings,
       UpdateAddressBest, BookkeepingFails, CallFails
  <2>6. \A k \in calls' : entity'[k.session] # None
    BY <1>0, <2>1, <2>3
  <2> QED BY <1>0, <2>2, <2>3, <2>4, <2>5, <2>6, OnceKept
<1>13. CASE UNCHANGED vars
  BY <1>13 DEF vars, InsertedOnce, Pending
<1> QED BY <1>1, <1>2, <1>3, <1>4, <1>5, <1>6, <1>7, <1>8, <1>9, <1>10, <1>11,
           <1>12, <1>13 DEF Next

-----------------------------------------------------------------------------
(***************************************************************************)
(* As long as handlers neither overlap nor fail, the best difficulties in  *)
(* memory, in the row and of the address agree once no handler runs; until *)
(* then, how far they agree follows from the stage of the one handler.     *)
(***************************************************************************)
THEOREM BestExactWithoutOverlapAlways == Spec => []BestExactWithoutOverlap
<1>1. Init => RowsInv
  BY RowFacts DEF Init, RowsInv, InsertedOnce, Pending, BooksKept, AtRest,
     AddressBest
<1>2. TypeOK /\ RowsInv /\ [Next]_vars => RowsInv'
  <2> SUFFICES ASSUME TypeOK, InsertedOnce, InsertedOnce', [Next]_vars,
                      ~disturbed', ~disturbed => BooksKept
               PROVE  BooksKept'
    BY InsertedOnceKept DEF RowsInv
  <2> USE DEF memVars, rowVars, histVars
  <2>0. /\ \A s \in Sessions : rows[s] = NoRow \/ rows[s] \in Row
        /\ \A s \in Sessions : reached[s] \in Nat
        /\ \A s \in Sessions : entity[s] # None => entity[s] \in Nat
        /\ 0 # None
        /\ settings # None => settings \in Nat
    BY DEF TypeOK, Bests, None
  <2>1. CASE Minute
    <3>1. \A s \in Sessions : rows'[s].best = rows[s].best
      BY <2>0, <2>1, RowFacts, RowKept DEF Minute
    <3> QED BY <2>1, <3>1, BooksUntouched DEF Minute, RowFits, Pending
  <2>2. CASE InsertClients
    BY <2>2, BooksUntouched DEF InsertClients, RowFits, Pending
  <2>3. ASSUME NEW b \in batches, Inserted(b) PROVE BooksKept'
    <3>1. ASSUME NEW s \in Sessions, NEW n \in Bests, RowFits(s, n)
          PROVE  RowFits(s, n)'
      <4>1. CASE s \in b
        <5>1. s \in Pending /\ rows'[s].best = 0
          BY <2>3, <4>1, RowFacts DEF Inserted, Pending
        <5> QED BY <2>3, <3>1, <5>1 DEF Inserted, RowFits
      <4>2. CASE s \notin b
        BY <2>3, <3>1, <4>2 DEF Inserted, RowFits, Pending
      <4> QED BY <4>1, <4>2
    <3> QED BY <2>3, <3>1, BooksUntouched DEF Inserted
  <2>4. ASSUME NEW b \in batches, InsertFails(b) PROVE BooksKept'
    BY <2>4, BooksUntouched DEF InsertFails, RowFits, Pending
  <2>5. CASE KillDeadClients
    <3>1. \A s \in Sessions : rows'[s].best = rows[s].best
      <4>1. ~NoRow.live
        BY DEF NoRow
      <4> QED BY <2>0, <2>5, <4>1, RowKept DEF KillDeadClients
    <3> QED BY <2>5, <3>1, BooksUntouched DEF KillDeadClients, RowFits, Pending
  <2>6. CASE DeleteOldClients
    <3>1. \A s \in Sessions : rows'[s].best \in {rows[s].best, None}
      BY <2>6, RowFacts DEF DeleteOldClients
    <3> QED BY <2>6, <3>1, BooksUntouched DEF DeleteOldClients, RowFits, Pending
  <2>7. ASSUME NEW s \in Sessions, FirstSubmission(s) PROVE BooksKept'
    <3>1. /\ entity[s] = None /\ entity'[s] = 0
          /\ \A t \in Sessions \ {s} : entity'[t] = entity[t]
          /\ UNCHANGED <<rows, calls, settings, reached, expected, early>>
          /\ \A t \in Sessions \ {s} : t \in Pending' => t \in Pending
      BY <2>7 DEF FirstSubmission, TypeOK, Pending
    <3>2. rows[s].best = None /\ reached[s] = 0
      BY <3>1 DEF InsertedOnce
    <3>3. AtRest(s)'
      BY <3>1, <3>2 DEF AtRest, RowFits
    <3>4. \A t \in Sessions \ {s} : AtRest(t) => AtRest(t)'
      BY <3>1 DEF AtRest, RowFits
    <3>5. ASSUME NEW c \in calls, Booked(c) PROVE Booked(c)'
      <4>1. c.session \in Sessions \ {s}
        BY <3>1 DEF InsertedOnce, TypeOK, Call
      <4> QED BY <3>1, <3>5, <4>1 DEF Booked, RowFits, AddressBest
    <3>6. BooksKept
      BY <2>7 DEF FirstSubmission
    <3> QED BY <3>1, <3>3, <3>4, <3>5, <3>6 DEF BooksKept, AddressBest
  <2>8. ASSUME NEW s \in Sessions, Share(s) PROVE BooksKept'
    <3>1. PICK d \in 1..MaxBest, block \in BOOLEAN : Credit(s, d, block)
      BY <2>8 DEF Share
    <3> DEFINE c == [session |-> s, best |-> d,
                     stage |-> IF block THEN "reset" ELSE "addShares"]
               kept == IF block THEN 0 ELSE expected
    <3>2. /\ ~disturbed /\ calls = {} /\ calls' = {c}
          /\ reached' = [reached EXCEPT ![s] = Higher(@, d)]
          /\ expected' = IF d > reached[s] THEN Higher(kept, d) ELSE kept
          /\ entity[s] # None
          /\ UNCHANGED <<memVars, rowVars, settings, early>>
      BY <3>1 DEF Credit
    <3>3. /\ c.session = s /\ c.best = d
          /\ c.stage = (IF block THEN "reset" ELSE "addShares")
      OBVIOUS
    <3> HIDE DEF c
    <3>4. /\ \A t \in Sessions : AtRest(t)
          /\ expected = AddressBest
      BY <3>2 DEF BooksKept
    <3>5. /\ entity[s] = reached[s] /\ RowFits(s, entity[s])
          /\ reached'[s] = Higher(entity[s], d)
      BY <3>2, <3>4 DEF AtRest, TypeOK
    <3>6. Booked(c)'
      <4>1. RowFits(s, entity[s])' /\ AddressBest' = AddressBest
        BY <3>2, <3>5 DEF RowFits, Pending, AddressBest
      <4>2. Higher(0, d) = d
        BY DEF Higher
      <4>3. CASE block
        BY <3>2, <3>3, <3>5, <4>1, <4>2, <4>3 DEF Booked, Unjudged, InMemory
      <4>4. CASE ~block
        BY <3>2, <3>3, <3>4, <3>5, <4>1, <4>4 DEF Booked, Unjudged, InMemory
      <4> QED BY <4>3, <4>4
    <3>7. \A t \in Sessions \ {s} : AtRest(t)'
      BY <3>2, <3>4 DEF AtRest, RowFits, Pending, TypeOK
    <3> QED BY <3>2, <3>3, <3>6, <3>7 DEF BooksKept
  <2>9. ASSUME NEW s \in Sessions, Destroy(s) PROVE BooksKept'
    BY <2>9, BooksUntouched DEF Destroy, RowFits, Pending
  <2>10. ASSUME NEW s \in Sessions, SoftDelete(s) PROVE BooksKept'
    <3>1. \A t \in Sessions : rows'[t].best = rows[t].best
      BY <2>0, <2>10, RowKept DEF SoftDelete, TypeOK
    <3> QED BY <2>10, <3>1, BooksUntouched DEF SoftDelete, RowFits, Pending
  <2>11. ASSUME NEW s \in Sessions, LastHandlerEnds(s) PROVE BooksKept'
    BY <2>11, BooksUntouched DEF LastHandlerEnds, RowFits, Pending
  <2>12. ASSUME NEW c \in calls, Step(c) PROVE BooksKept'
    <3> DEFINE s == c.session
    <3>0. /\ c \in Call /\ s \in Sessions /\ c.best \in Nat /\ c.best >= 1
          /\ c.best # None /\ BooksKept
          /\ \A a \in Nat : Higher(a, c.best) \in Nat
          /\ Higher(0, c.best) = c.best
      <4>1. c \in Call /\ c.session \in Sessions /\ c.best \in 1..MaxBest
        BY DEF TypeOK, Call
      <4>2. BooksKept
        BY <2>12 DEF Step, ResetBests, SharesAdded, Heartbeat, WriteRowBest,
           RowBestWritten, GetSettings, CreateNew, InsertSettings,
           UpdateAddressBest, BookkeepingFails, CallFails
      <4> QED BY <4>1, <4>2, RowsAssumption DEF None, Higher
    <3>a. entity[s] # None /\ entity[s] \in Nat
      BY <2>0, <3>0 DEF InsertedOnce
    <3> HIDE DEF s
    <3> USE DEF Unjudged, InMemory
    <3>1. CASE ResetBests(c)
      <4> DEFINE d == [c EXCEPT !.stage = "addShares"]
      <4>1. /\ At(c, "addShares") /\ c.stage = "reset" /\ "addShares" \in Stages
            /\ UNCHANGED <<memVars, rowVars, histVars>> /\ AddressBest' = 0
        BY <2>0, <3>1 DEF ResetBests, Stages, AddressBest
      <4>2. d.session = s /\ d.best = c.best /\ d.stage = "addShares"
        BY <3>0, <4>1, CallAt DEF s
      <4> HIDE DEF d
      <4>3. /\ calls = {c} /\ Booked(c)
            /\ \A t \in Sessions \ {c.session} : AtRest(t)'
        BY <3>0, <4>1, OthersUntouched
      <4>4. RowFits(s, entity[s])'
        BY <4>1, <4>3 DEF Booked, RowFits, Pending, s
      <4>5. Booked(d)'
        BY <3>0, <4>1, <4>2, <4>3, <4>4 DEF Booked, s
      <4> QED BY <3>0, <4>1, <4>3, <4>5, HandlerGoesOn DEF d
    <3>2. CASE SharesAdded(c)
      <4>1. CASE At(c, "heartbeat")
        <5> DEFINE d == [c EXCEPT !.stage = "heartbeat"]
        <5>1. /\ c.stage = "addShares" /\ "heartbeat" \in Stages
              /\ UNCHANGED <<memVars, rowVars, settings, histVars>>
              /\ AddressBest' = AddressBest
          BY <3>2 DEF SharesAdded, Stages, AddressBest
        <5>2. d.session = s /\ d.best = c.best /\ d.stage = "heartbeat"
          BY <3>0, <5>1, CallAt DEF s
        <5> HIDE DEF d
        <5>3. /\ calls = {c} /\ Booked(c)
              /\ \A t \in Sessions \ {c.session} : AtRest(t)'
          BY <3>0, <5>1, OthersUntouched
        <5>4. RowFits(s, entity[s])'
          BY <5>1, <5>3 DEF Booked, RowFits, Pending, s
        <5>5. Booked(d)'
          BY <5>1, <5>2, <5>3, <5>4 DEF Booked, s
        <5> QED BY <3>0, <4>1, <5>1, <5>3, <5>5, HandlerGoesOn DEF d
      <4>2. CASE Compare(c)
        BY <3>0, <3>2, <4>2, Compared DEF SharesAdded
      <4> QED BY <3>2, <4>1, <4>2 DEF SharesAdded
    <3>3. CASE Heartbeat(c)
      <4>1. \A t \in Sessions : rows'[t].best = rows[t].best
        BY <2>0, <3>0, <3>3, RowRevived DEF Heartbeat, TypeOK
      <4> QED BY <3>0, <3>3, <4>1, Compared DEF Heartbeat
    <3>4. CASE WriteRowBest(c)
      <4> DEFINE d == [c EXCEPT !.stage = "rowBestDone"]
      <4>1. /\ At(c, "rowBestDone") /\ c.stage = "rowBest"
            /\ "rowBestDone" \in Stages
            /\ UNCHANGED <<memVars, insertQueue, batches, settings, reached,
                           expected>>
            /\ AddressBest' = AddressBest
        BY <3>4 DEF WriteRowBest, Stages, AddressBest
      <4>2. d.session = s /\ d.best = c.best /\ d.stage = "rowBestDone"
        BY <3>0, <4>1, CallAt DEF s
      <4> HIDE DEF d
      <4>3. /\ rows[s] = NoRow => rows' = rows /\ early' = early \cup {s}
            /\ rows[s] # NoRow => /\ rows'[s].best = c.best
                                  /\ early' = early \ {s}
            /\ \A t \in Sessions \ {s} : rows'[t] = rows[t]
        <5>1. CASE rows[s] = NoRow
          BY <3>4, <5>1 DEF WriteRowBest, s
        <5>2. CASE rows[s] # NoRow
          <6>1. /\ rows' = [rows EXCEPT ![s].best = c.best, ![s].idle = 0]
                /\ early' = early \ {s}
            BY <3>4, <5>2 DEF WriteRowBest, s
          <6>2. rows[s] \in Row /\ rows \in [Sessions -> Row \cup {NoRow}]
            BY <2>0, <3>0, <5>2 DEF TypeOK
          <6> QED BY <3>0, <5>2, <6>1, <6>2 DEF Row
        <5> QED BY <5>1, <5>2
      <4>4. RowFits(s, c.best)'
        <5>1. rows[s] # NoRow => s \notin Pending
          BY <2>0, <3>0, RowFacts DEF InsertedOnce
        <5> QED BY <4>1, <4>3, <5>1 DEF RowFits, Pending
      <4>5. /\ calls = {c} /\ Booked(c)
            /\ \A t \in Sessions \ {c.session} : AtRest(t)'
        BY <3>0, <4>1, <4>3, OthersUntouched DEF s
      <4>6. Booked(d)'
        BY <4>1, <4>2, <4>4, <4>5 DEF Booked, s
      <4> QED BY <3>0, <4>1, <4>5, <4>6, HandlerGoesOn DEF d
    <3>5. CASE RowBestWritten(c)
      <4> DEFINE d == [c EXCEPT !.stage = "getSettings"]
      <4>1. /\ At(c, "getSettings") /\ c.stage = "rowBestDone"
            /\ "getSettings" \in Stages
            /\ UNCHANGED <<rowVars, settings, histVars>>
            /\ AddressBest' = AddressBest
        BY <3>5 DEF RowBestWritten, Stages, AddressBest
      <4>2. d.session = s /\ d.best = c.best /\ d.stage = "getSettings"
        BY <3>0, <4>1, CallAt DEF s
      <4> HIDE DEF d
      <4>3. /\ entity'[s] = c.best
            /\ \A t \in Sessions \ {s} : entity'[t] = entity[t]
        BY <3>0, <3>5 DEF RowBestWritten, NewBest, TypeOK, s
      <4>4. /\ calls = {c} /\ Booked(c)
            /\ \A t \in Sessions \ {c.session} : AtRest(t)'
        BY <3>0, <4>1, <4>3, OthersUntouched DEF s
      <4>5. RowFits(s, c.best)'
        BY <4>1, <4>4 DEF Booked, RowFits, Pending, s
      <4>6. Booked(d)'
        BY <4>1, <4>2, <4>3, <4>4, <4>5 DEF Booked, s
      <4> QED BY <3>0, <4>1, <4>4, <4>6, HandlerGoesOn DEF d
    <3>6. ASSUME c.stage \in InMemory, UNCHANGED <<memVars, rowVars, histVars>>
          PROVE  /\ calls = {c} /\ Booked(c)
                 /\ \A t \in Sessions \ {c.session} : AtRest(t)'
                 /\ RowFits(s, entity[s])' /\ AtRest(s)'
                 /\ reached[s] = c.best /\ entity[s] = c.best
                 /\ expected = Higher(AddressBest, c.best)
      <4>1. /\ calls = {c} /\ Booked(c)
            /\ \A t \in Sessions \ {c.session} : AtRest(t)'
        BY <3>0, <3>6, OthersUntouched
      <4>2. RowFits(s, entity[s])' /\ reached[s] = c.best /\ entity[s] = c.best
            /\ expected = Higher(AddressBest, c.best)
        BY <3>6, <4>1 DEF Booked, RowFits, Pending, s
      <4> QED BY <3>6, <4>1, <4>2 DEF AtRest
    <3>7. ASSUME NEW stage \in InMemory, c.stage \in InMemory, At(c, stage),
                 UNCHANGED <<memVars, rowVars, histVars>>,
                 expected = Higher(AddressBest', c.best),
                 stage \in {"createNew", "insertSettings"} => settings' = None,
                 stage = "addressBest" => settings' # None /\ expected = c.best
          PROVE  BooksKept'
      <4> DEFINE d == [c EXCEPT !.stage = stage]
      <4>1. stage \in Stages /\ d.session = s /\ d.best = c.best /\ d.stage = stage
        <5>1. stage \in Stages
          BY <3>7 DEF Stages
        <5> QED BY <3>0, <5>1, CallAt DEF s
      <4> HIDE DEF d
      <4>2. Booked(d)'
        BY <3>6, <3>7, <4>1 DEF Booked, s
      <4> QED BY <3>0, <3>6, <3>7, <4>1, <4>2, HandlerGoesOn DEF d
    <3>8. CASE GetSettings(c)
      <4>1. /\ c.stage \in InMemory /\ UNCHANGED <<memVars, rowVars, histVars>>
            /\ settings' = settings /\ AddressBest' = AddressBest
        BY <3>8 DEF GetSettings, AddressBest
      <4>2. CASE settings = None /\ At(c, "createNew")
        BY <3>6, <3>7, <4>1, <4>2
      <4>3. CASE settings # None /\ c.best > settings /\ At(c, "addressBest")
        <5>1. expected = c.best
          BY <2>0, <3>0, <3>6, <4>1, <4>3 DEF AddressBest, Higher
        <5> QED BY <3>6, <3>7, <4>1, <4>3, <5>1
      <4>4. CASE settings # None /\ c.best <= settings /\ Ends(c)
        <5>1. expected = AddressBest
          BY <2>0, <3>0, <3>6, <4>1, <4>4 DEF AddressBest, Higher
        <5> QED BY <3>0, <3>6, <4>1, <4>4, <5>1, HandlerEnds DEF s
      <4> QED BY <3>8, <4>2, <4>3, <4>4 DEF GetSettings
    <3>9. CASE CreateNew(c)
      <4>1. /\ c.stage = "createNew" /\ UNCHANGED <<memVars, rowVars, histVars>>
            /\ settings' = settings /\ AddressBest' = AddressBest
        BY <3>9 DEF CreateNew, AddressBest
      <4>2. settings = None
        BY <3>6, <4>1 DEF Booked
      <4>3. At(c, "insertSettings")
        BY <3>9, <4>2 DEF CreateNew
      <4> QED BY <3>6, <3>7, <4>1, <4>2, <4>3
    <3>10. CASE InsertSettings(c)
      <4>1. c.stage = "insertSettings" /\ UNCHANGED <<memVars, rowVars, histVars>>
        BY <3>10 DEF InsertSettings
      <4>2. settings = None /\ AddressBest = 0
        BY <3>6, <4>1 DEF Booked, AddressBest
      <4>3. settings' = 0 /\ AddressBest' = 0 /\ At(c, "addressBest")
        BY <2>0, <3>10, <4>2 DEF InsertSettings, AddressBest
      <4>4. expected = c.best
        BY <3>0, <3>6, <4>1, <4>2
      <4> QED BY <2>0, <3>0, <3>7, <4>1, <4>3, <4>4
    <3>11. CASE UpdateAddressBest(c)
      <4>1. c.stage = "addressBest" /\ UNCHANGED <<memVars, rowVars, histVars>>
            /\ Ends(c) /\ settings' = c.best
        BY <3>11 DEF UpdateAddressBest
      <4>2. expected = c.best /\ AddressBest' = c.best
        BY <3>0, <3>6, <4>1 DEF Booked, AddressBest
      <4> QED BY <3>0, <3>6, <4>1, <4>2, HandlerEnds DEF s
    <3>12. CASE BookkeepingFails(c)
      BY <3>0, <3>12, Compared DEF BookkeepingFails
    <3>13. CASE CallFails(c)
      BY <3>13 DEF CallFails
    <3> QED BY <2>12, <3>1, <3>2, <3>3, <3>4, <3>5, <3>8, <3>9, <3>10, <3>11,
               <3>12, <3>13 DEF Step
  <2>13. CASE UNCHANGED vars
    BY <2>13, BooksUntouched DEF vars, RowFits, Pending
  <2> QED BY <2>1, <2>2, <2>3, <2>4, <2>5, <2>6, <2>7, <2>8, <2>9, <2>10, <2>11,
             <2>12, <2>13 DEF Next
<1>3. TypeOK /\ RowsInv => BestExactWithoutOverlap
  <2> SUFFICES ASSUME TypeOK, RowsInv, calls = {}, ~disturbed
               PROVE  /\ \A s \in Sessions : entity[s] # None =>
                           /\ entity[s] = reached[s]
                           /\ rows[s] # NoRow /\ s \notin early =>
                                rows[s].best = reached[s]
                      /\ settings # None => settings = expected
    BY DEF BestExactWithoutOverlap
  <2>1. \A s \in Sessions : AtRest(s)
    BY DEF RowsInv, BooksKept
  <2>2. expected = AddressBest
    BY DEF RowsInv, BooksKept
  <2>3. \A s \in Sessions : rows[s] # NoRow => rows[s].best # None
    BY RowFacts DEF TypeOK
  <2> QED BY <2>1, <2>2, <2>3 DEF AtRest, RowFits, AddressBest
<1> QED BY <1>1, <1>2, <1>3, RowsTyped, PTL DEF Spec
-----------------------------------------------------------------------------
\* No handler runs for a session that is gone, and none can start.
GoneAreQuiet == \A c \in calls : status[c.session] # "gone"

\* The session is gone and neither its row nor its insertion is left.
Finished(s) == status[s] = "gone" /\ s \notin Pending /\ ~rows[s].live

(***************************************************************************)
(* The safety half of EndedSessionGoes: once a session is gone, not shown  *)
(* and not waiting to be inserted, it never comes back to the live rows,   *)
(* although heartbeats revive marked rows and whole batches of rows are    *)
(* inserted around it (heartbeat, insertClients).                          *)
(***************************************************************************)
GoneStaysGone == [][\A s \in Sessions : Finished(s) => Finished(s)']_vars

LEMMA GoneAreQuietAlways == Spec => []GoneAreQuiet
<1>1. Init => GoneAreQuiet
  BY DEF Init, GoneAreQuiet
<1>2. TypeOK /\ GoneAreQuiet /\ [Next]_vars => GoneAreQuiet'
  <2> SUFFICES ASSUME TypeOK, GoneAreQuiet, [Next]_vars PROVE GoneAreQuiet'
    OBVIOUS
  <2> USE DEF GoneAreQuiet, memVars, rowVars, histVars
  <2>1. CASE Minute \/ InsertClients \/ KillDeadClients \/ DeleteOldClients
             \/ UNCHANGED vars
    BY <2>1 DEF Minute, InsertClients, KillDeadClients, DeleteOldClients, vars
  <2>2. ASSUME NEW b \in batches, Inserted(b) \/ InsertFails(b)
        PROVE  GoneAreQuiet'
    BY <2>2 DEF Inserted, InsertFails
  <2>3. ASSUME NEW s \in Sessions, FirstSubmission(s) PROVE GoneAreQuiet'
    BY <2>3 DEF FirstSubmission
  <2>4. ASSUME NEW s \in Sessions, Share(s) PROVE GoneAreQuiet'
    <3>1. PICK d \in 1..MaxBest, block \in BOOLEAN : Credit(s, d, block)
      BY <2>4 DEF Share
    <3>2. /\ \A c \in calls' : c \in calls \/ c.session = s
          /\ status[s] # "gone" /\ status' = status
      BY <3>1 DEF Credit
    <3> QED BY <3>2
  <2>5. ASSUME NEW s \in Sessions,
               Destroy(s) \/ SoftDelete(s) \/ LastHandlerEnds(s)
        PROVE  GoneAreQuiet'
    BY <2>5 DEF Destroy, SoftDelete, LastHandlerEnds, TypeOK, Call
  <2>6. ASSUME NEW c \in calls, Step(c) PROVE GoneAreQuiet'
    <3>1. c \in Call
      BY DEF TypeOK
    <3>2. \A k \in calls' : k.session = c.session \/ k \in calls
      <4>1. \A stage \in Stages : [c EXCEPT !.stage = stage].session = c.session
        BY <3>1, CallAt
      <4> QED
        BY <2>6, <4>1
           DEF Step, ResetBests, SharesAdded, Heartbeat, WriteRowBest,
               RowBestWritten, GetSettings, CreateNew, InsertSettings,
               UpdateAddressBest, BookkeepingFails, CallFails, At, Ends,
               Compare, Stages
    <3>3. status' = status
      BY <2>6
         DEF Step, ResetBests, SharesAdded, Heartbeat, WriteRowBest,
             RowBestWritten, GetSettings, CreateNew, InsertSettings,
             UpdateAddressBest, BookkeepingFails, CallFails
    <3> QED BY <3>2, <3>3
  <2> QED BY <2>1, <2>2, <2>3, <2>4, <2>5, <2>6 DEF Next
<1> QED BY <1>1, <1>2, RowsTyped, PTL DEF Spec

THEOREM GoneStaysGoneAlways == Spec => GoneStaysGone
<1>1. ASSUME TypeOK, GoneAreQuiet, [Next]_vars, NEW s \in Sessions, Finished(s)
      PROVE  Finished(s)'
  <2> USE DEF Finished, Pending, memVars, rowVars, histVars
  <2>0. /\ status[s] = "gone" /\ ~rows[s].live /\ rows[s] \in Row \cup {NoRow}
        /\ status \in [Sessions -> {"up", "closing", "ended", "gone"}]
        /\ rows \in [Sessions -> Row \cup {NoRow}]
    BY <1>1 DEF TypeOK
  <2>1. ~NoRow.live
    BY DEF NoRow
  <2>2. CASE Minute
    <3>1. \A row \in Row : Older(row).live = row.live
      BY DEF Older, Row
    <3> QED BY <1>1, <2>0, <2>1, <2>2, <3>1 DEF Minute
  <2>3. CASE InsertClients
    BY <1>1, <2>3 DEF InsertClients
  <2>4. ASSUME NEW b \in batches, Inserted(b) \/ InsertFails(b)
        PROVE  Finished(s)'
    BY <1>1, <2>0, <2>4 DEF Inserted, InsertFails
  <2>5. CASE KillDeadClients
    BY <1>1, <2>0, <2>5 DEF KillDeadClients
  <2>6. CASE DeleteOldClients
    BY <1>1, <2>0, <2>1, <2>6 DEF DeleteOldClients
  <2>7. ASSUME NEW r \in Sessions, FirstSubmission(r) PROVE Finished(s)'
    BY <1>1, <2>0, <2>7 DEF FirstSubmission
  <2>8. ASSUME NEW r \in Sessions, Share(r) PROVE Finished(s)'
    BY <1>1, <2>8 DEF Share, Credit
  <2>9. ASSUME NEW r \in Sessions, Destroy(r) \/ SoftDelete(r) \/ LastHandlerEnds(r)
        PROVE  Finished(s)'
    <3>1. \A row \in Row : ~Marked(row).live
      BY DEF Marked, Row
    <3> QED BY <1>1, <2>0, <2>9, <3>1 DEF Destroy, SoftDelete, LastHandlerEnds
  <2>10. ASSUME NEW c \in calls, Step(c) PROVE Finished(s)'
    <3>1. c.session # s
      BY <1>1 DEF GoneAreQuiet
    <3>2. rows'[s] = rows[s]
      BY <2>0, <2>10, <3>1
         DEF Step, ResetBests, SharesAdded, Heartbeat, WriteRowBest,
             RowBestWritten, GetSettings, CreateNew, InsertSettings,
             UpdateAddressBest, BookkeepingFails, CallFails
    <3>3. UNCHANGED <<status, insertQueue, batches>>
      BY <2>10
         DEF Step, ResetBests, SharesAdded, Heartbeat, WriteRowBest,
             RowBestWritten, GetSettings, CreateNew, InsertSettings,
             UpdateAddressBest, BookkeepingFails, CallFails
    <3> QED BY <1>1, <3>2, <3>3
  <2>11. CASE UNCHANGED vars
    BY <1>1, <2>11 DEF vars
  <2> QED BY <1>1, <2>2, <2>3, <2>4, <2>5, <2>6, <2>7, <2>8, <2>9, <2>10, <2>11
          DEF Next
<1>2. TypeOK /\ GoneAreQuiet /\ [Next]_vars
        => [\A s \in Sessions : Finished(s) => Finished(s)']_vars
  BY <1>1
<1> QED BY <1>2, RowsTyped, GoneAreQuietAlways, PTL DEF Spec, GoneStaysGone
=============================================================================
