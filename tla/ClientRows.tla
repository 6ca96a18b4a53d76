------------------------------ MODULE ClientRows ------------------------------
(***************************************************************************)
(* The rows of the connected sessions (ClientService and client_entity)    *)
(* and the best difficulties kept beside them: of the session in memory,   *)
(* of its row, and of its address (AddressSettingsService).                *)
(*                                                                         *)
(* The first submission of a session queues its row, and every 5 s the     *)
(* whole queue is inserted at once.  insert() does not wait for that: its  *)
(* BehaviorSubject holds null from the start.  A share counted at most     *)
(* once a minute refreshes the row (heartbeat), which also brings back a   *)
(* row that was marked deleted.  destroy() marks the row deleted, and      *)
(* killDeadClients marks every row without a heartbeat for five minutes.   *)
(* A row that has been marked for a day is deleted for good, also that of  *)
(* a session that is merely silent: no heartbeat brings it back then.      *)
(* A share above the session's best writes it to the row, then to memory,  *)
(* then compares it with the best of the address and writes that.  The     *)
(* handlers of one session run concurrently between their awaits.          *)
(*                                                                         *)
(* All sessions here mine for one address.                                 *)
(***************************************************************************)
EXTENDS Integers, FiniteSets

CONSTANTS Sessions,
          MaxBest,        \* bound: difficulties of shares are 1..MaxBest
          MaxIdle,        \* minutes without a heartbeat that make a row dead
          MaxMarked,      \* minutes after which a marked row is deleted
          MaxCalls        \* bound: shares whose handlers run at a time

ASSUME RowsAssumption ==
    /\ MaxBest \in Nat /\ MaxCalls \in Nat
    /\ MaxIdle \in Nat \ {0} /\ MaxMarked \in Nat \ {0}

VARIABLES
    status,               \* "up", "closing", "ended" or "gone"
    entity,               \* per session: bestDifficulty in memory, None before
    due,                  \* per session: its next share sends a heartbeat
    insertQueue,          \* sessions whose rows wait for the next insertion
    batches,              \* insertions in flight
    rows,                 \* client_entity, per session
    settings,             \* bestDifficulty of the address, None without a row
    calls,                \* handlers of counted shares
    reached,              \* history: best share counted, per session
    expected,             \* history: best that raised its session's best
                          \* since the address was last reset
    early,                \* history: sessions whose best was written when
                          \* their row was not there
    lost,                 \* history: sessions whose insertion failed
    forgotten,            \* history: sessions that were up when their row
                          \* was deleted for good
    disturbed             \* history: handlers overlapped or failed

memVars  == <<status, entity, due>>
rowVars  == <<insertQueue, batches, rows>>
histVars == <<reached, expected, early, lost, forgotten,
              disturbed>>
vars == <<memVars, rowVars, settings, calls, histVars>>

None   == -1
Bests  == 0..MaxBest
NoRow  == [live |-> FALSE, idle |-> 0, marked |-> 0, best |-> None]
\* idle and marked: minutes since updatedAt and since deletedAt.
Row    == [live : BOOLEAN, idle : 0..MaxIdle, marked : 0..MaxMarked,
           best : Bests]
Stages == {"reset", "addShares", "heartbeat", "rowBest", "rowBestDone",
           "getSettings", "createNew", "insertSettings", "addressBest"}
Call   == [session : Sessions, best : 1..MaxBest, stage : Stages]

TypeOK ==
    /\ status \in [Sessions -> {"up", "closing", "ended", "gone"}]
    /\ entity \in [Sessions -> Bests \cup {None}]
    /\ due \in [Sessions -> BOOLEAN]
    /\ insertQueue \subseteq Sessions
    /\ batches \subseteq SUBSET Sessions
    /\ rows \in [Sessions -> Row \cup {NoRow}]
    /\ settings \in Bests \cup {None}
    /\ calls \subseteq Call
    /\ reached \in [Sessions -> Bests]
    /\ expected \in Bests
    /\ early \subseteq Sessions /\ lost \subseteq Sessions
    /\ forgotten \subseteq Sessions
    /\ disturbed \in BOOLEAN

Init ==
    /\ status = [s \in Sessions |-> "up"]
    /\ entity = [s \in Sessions |-> None]
    /\ due = [s \in Sessions |-> TRUE]
    /\ insertQueue = {} /\ batches = {}
    /\ rows = [s \in Sessions |-> NoRow]
    /\ settings = None
    /\ calls = {}
    /\ reached = [s \in Sessions |-> 0] /\ expected = 0
    /\ early = {} /\ lost = {} /\ forgotten = {} /\ disturbed = FALSE

(***************************************************************************)
(* Minutes pass.  Queries are answered within the minute: no heartbeat is  *)
(* on its way when the next one begins.                                    *)
(***************************************************************************)
Lower(a, b) == IF a < b THEN a ELSE b

Older(row) ==
    [row EXCEPT !.idle = Lower(@ + 1, MaxIdle),
                !.marked = IF row.live THEN 0 ELSE Lower(@ + 1, MaxMarked)]

Minute ==
    /\ \A c \in calls : c.stage # "heartbeat"
    /\ due' = [s \in Sessions |-> TRUE]
    /\ rows' = [s \in Sessions |-> IF rows[s] = NoRow THEN NoRow
                                   ELSE Older(rows[s])]
    /\ UNCHANGED <<status, entity, insertQueue, batches, settings, calls,
                   histVars>>

-----------------------------------------------------------------------------
(***************************************************************************)
(* ClientService: insertion of the queue, and the two clean-ups.           *)
(***************************************************************************)
\* handleMiningSubmission queues the row before it judges the share, and
\* may do so after the connection was closed (it awaits the backend first).
FirstSubmission(s) ==
    /\ entity[s] = None
    /\ status[s] # "gone"
    /\ entity' = [entity EXCEPT ![s] = 0]
    /\ insertQueue' = insertQueue \cup {s}
    /\ UNCHANGED <<status, due, batches, rows, settings, calls, histVars>>

InsertClients ==
    /\ insertQueue # {}
    /\ batches' = batches \cup {insertQueue}
    /\ insertQueue' = {}
    /\ UNCHANGED <<memVars, rows, settings, calls, histVars>>

NewRow == [live |-> TRUE, idle |-> 0, marked |-> 0, best |-> 0]

Inserted(b) ==
    /\ b \in batches
    /\ batches' = batches \ {b}
    /\ rows' = [s \in Sessions |-> IF s \in b THEN NewRow ELSE rows[s]]
    /\ UNCHANGED <<memVars, insertQueue, settings, calls, histVars>>

\* The scheduler logs the error; the queue was emptied before.
InsertFails(b) ==
    /\ b \in batches
    /\ batches' = batches \ {b}
    /\ lost' = lost \cup b
    /\ UNCHANGED <<memVars, insertQueue, rows, settings, calls, reached,
                   expected, early, forgotten, disturbed>>

\* Mutant: only sessions the process still holds are visited.
IsDeadHere(s) == rows[s].idle = MaxIdle /\ status[s] # "gone"

IsDead(s) == rows[s].idle = MaxIdle

Marked(row) == [row EXCEPT !.live = FALSE, !.idle = 0, !.marked = 0]

KillDeadClients ==
    /\ \E s \in Sessions : rows[s].live /\ IsDead(s)
    /\ rows' = [s \in Sessions |-> IF rows[s].live /\ IsDead(s)
                                   THEN Marked(rows[s]) ELSE rows[s]]
    /\ UNCHANGED <<memVars, insertQueue, batches, settings, calls, histVars>>

IsOld(row) == row # NoRow /\ ~row.live /\ row.marked = MaxMarked

DeleteOldClients ==
    LET old == {s \in Sessions : IsOld(rows[s])} IN
    /\ old # {}
    /\ rows' = [s \in Sessions |-> IF s \in old THEN NoRow ELSE rows[s]]
    /\ forgotten' = forgotten \cup {s \in old : status[s] = "up"}
    /\ UNCHANGED <<memVars, insertQueue, batches, settings, calls, reached,
                   expected, early, lost, disturbed>>

-----------------------------------------------------------------------------
(***************************************************************************)
(* The end of a session.  Handlers that were waiting go on after it.       *)
(***************************************************************************)
Destroy(s) ==
    /\ status[s] = "up"
    /\ status' = [status EXCEPT ![s] = "closing"]
    /\ UNCHANGED <<entity, due, rowVars, settings, calls, histVars>>

SoftDelete(s) ==
    /\ status[s] = "closing"
    /\ status' = [status EXCEPT ![s] = "ended"]
    /\ \/ rows' = IF rows[s] = NoRow THEN rows
                  ELSE [rows EXCEPT ![s] = Marked(@)]
       \/ UNCHANGED rows                \* the query failed
    /\ UNCHANGED <<entity, due, insertQueue, batches, settings, calls, histVars>>

LastHandlerEnds(s) ==
    /\ status[s] = "ended"
    /\ \A c \in calls : c.session # s
    /\ status' = [status EXCEPT ![s] = "gone"]
    /\ UNCHANGED <<entity, due, rowVars, settings, calls, histVars>>

-----------------------------------------------------------------------------
(***************************************************************************)
(* A counted share, from one await to the next.  A share that finds a      *)
(* block resets the best of every address first.                           *)
(***************************************************************************)
At(c, stage) == calls' = (calls \ {c}) \cup {[c EXCEPT !.stage = stage]}
Ends(c)      == calls' = calls \ {c}

Higher(a, b) == IF a > b THEN a ELSE b

Credit(s, d, block) ==
    LET c == [session |-> s, best |-> d,
              stage |-> IF block THEN "reset" ELSE "addShares"]
        kept == IF block THEN 0 ELSE expected IN
    /\ status[s] # "gone"
    /\ entity[s] # None
    /\ c \notin calls /\ Cardinality(calls) < MaxCalls
    /\ calls' = calls \cup {c}
    /\ reached' = [reached EXCEPT ![s] = Higher(@, d)]
    /\ expected' = IF d > reached[s] THEN Higher(kept, d) ELSE kept
    /\ disturbed' = (disturbed \/ calls # {})
    /\ UNCHANGED <<memVars, rowVars, settings, early, lost, forgotten>>

ResetBests(c) ==
    /\ c.stage = "reset"
    /\ settings' = IF settings = None THEN None ELSE 0
    /\ At(c, "addShares")
    /\ UNCHANGED <<memVars, rowVars, histVars>>

\* Line 1133: synchronous with what ends before it.
Compare(c) == IF c.best > entity[c.session] THEN At(c, "rowBest") ELSE Ends(c)

\* addShares is ShareLedger's.
SharesAdded(c) ==
    /\ c.stage = "addShares"
    /\ IF due[c.session] THEN At(c, "heartbeat") ELSE Compare(c)
    /\ UNCHANGED <<memVars, rowVars, settings, histVars>>

\* Mutant: a row that was marked stays marked.
Refreshed(row) == IF row = NoRow THEN row ELSE [row EXCEPT !.idle = 0]

\* Mutant: a heartbeat by save(), which inserts a missing row.
RevivedOrInserted(row) ==
    [row EXCEPT !.live = TRUE, !.idle = 0, !.marked = 0]

Revived(row) ==
    IF row = NoRow THEN row
    ELSE [row EXCEPT !.live = TRUE, !.idle = 0, !.marked = 0]

Heartbeat(c) ==
    LET s == c.session IN
    /\ c.stage = "heartbeat"
    /\ rows' = [rows EXCEPT ![s] = Revived(@)]
    /\ due' = [due EXCEPT ![s] = FALSE]
    /\ Compare(c)
    /\ UNCHANGED <<status, entity, insertQueue, batches, settings, histVars>>

\* An error of either is caught; the heartbeat is left to the next share.
BookkeepingFails(c) ==
    /\ c.stage \in {"addShares", "heartbeat"}
    /\ Compare(c)
    /\ UNCHANGED <<memVars, rowVars, settings, histVars>>

WriteRowBest(c) ==
    LET s == c.session IN
    /\ c.stage = "rowBest"
    /\ rows' = IF rows[s] = NoRow THEN rows
               ELSE [rows EXCEPT ![s].best = c.best, ![s].idle = 0]
    /\ early' = IF rows[s] = NoRow THEN early \cup {s} ELSE early \ {s}
    /\ At(c, "rowBestDone")
    /\ UNCHANGED <<memVars, insertQueue, batches, settings, reached, expected,
                   lost, forgotten, disturbed>>

\* Mutant: the best in memory stays as insert() returned it.
KeepBest(c) == entity[c.session]

NewBest(c) == c.best

RowBestWritten(c) ==
    /\ c.stage = "rowBestDone"
    /\ entity' = [entity EXCEPT ![c.session] = NewBest(c)]
    /\ At(c, "getSettings")
    /\ UNCHANGED <<status, due, rowVars, settings, histVars>>

GetSettings(c) ==
    /\ c.stage = "getSettings"
    /\ \/ settings = None /\ At(c, "createNew")
       \/ settings # None /\ c.best > settings /\ At(c, "addressBest")
       \/ settings # None /\ c.best <= settings /\ Ends(c)
    /\ UNCHANGED <<memVars, rowVars, settings, histVars>>

\* The SELECT of save().  A row found there differs in no column, and what
\* save() returns has no bestDifficulty: no share is above undefined.
CreateNew(c) ==
    /\ c.stage = "createNew"
    /\ IF settings = None THEN At(c, "insertSettings") ELSE Ends(c)
    /\ UNCHANGED <<memVars, rowVars, settings, histVars>>

\* The INSERT of save(); a row inserted meanwhile is fetched.
InsertSettings(c) ==
    /\ c.stage = "insertSettings"
    /\ IF settings = None
       THEN settings' = 0 /\ At(c, "addressBest")
       ELSE UNCHANGED settings /\ At(c, "getSettings")
    /\ UNCHANGED <<memVars, rowVars, histVars>>

UpdateAddressBest(c) ==
    /\ c.stage = "addressBest"
    /\ settings' = c.best
    /\ Ends(c)
    /\ UNCHANGED <<memVars, rowVars, histVars>>

\* An error past the try/catch of lines 1112-1131 ends the handler.
CallFails(c) ==
    /\ c.stage \notin {"addShares", "heartbeat"}
    /\ Ends(c)
    /\ disturbed' = TRUE
    /\ UNCHANGED <<memVars, rowVars, settings, reached, expected, early, lost,
                   forgotten>>

-----------------------------------------------------------------------------
Step(c) ==
    \/ ResetBests(c)   \/ SharesAdded(c)    \/ Heartbeat(c)
    \/ WriteRowBest(c) \/ RowBestWritten(c) \/ GetSettings(c)
    \/ CreateNew(c)    \/ InsertSettings(c) \/ UpdateAddressBest(c)
    \/ BookkeepingFails(c) \/ CallFails(c)

Share(s) == \E d \in 1..MaxBest, block \in BOOLEAN : Credit(s, d, block)

Next ==
    \/ Minute
    \/ InsertClients
    \/ \E b \in batches : Inserted(b) \/ InsertFails(b)
    \/ KillDeadClients
    \/ DeleteOldClients
    \/ \E s \in Sessions : \/ FirstSubmission(s) \/ Share(s)
                           \/ Destroy(s) \/ SoftDelete(s) \/ LastHandlerEnds(s)
    \/ \E c \in calls : Step(c)

\* Time passes, the intervals run, queries are answered, and what a share has
\* to do before its heartbeat, tried again and again, succeeds in the end.
Fairness ==
    /\ WF_vars(Minute)
    /\ WF_vars(InsertClients)
    /\ WF_vars(KillDeadClients)
    /\ WF_vars(\E b \in batches : Inserted(b) \/ InsertFails(b))
    /\ WF_vars(\E c \in calls : Step(c))
    /\ SF_vars(\E c \in calls : ResetBests(c))
    /\ SF_vars(\E c \in calls : SharesAdded(c))
    /\ SF_vars(\E c \in calls : Heartbeat(c))
    /\ \A s \in Sessions : WF_vars(SoftDelete(s)) /\ WF_vars(LastHandlerEnds(s))

Spec     == Init /\ [][Next]_vars
FairSpec == Spec /\ Fairness

-----------------------------------------------------------------------------
(***************************************************************************)
(* The best difficulties agree when no handler runs, as long as handlers   *)
(* never overlapped or failed: in memory and, unless it was written before *)
(* the row was inserted, in the row it is the best share counted; that of  *)
(* the address is the best one since the last block that was a best of its *)
(* session.                                                                *)
(***************************************************************************)
BestExactWithoutOverlap ==
    (calls = {} /\ ~disturbed) =>
        /\ \A s \in Sessions : entity[s] # None =>
               /\ entity[s] = reached[s]
               /\ rows[s] # NoRow /\ s \notin early => rows[s].best = reached[s]
        /\ settings # None => settings = expected

(***************************************************************************)
(* A session that has ended disappears from the table of live clients,     *)
(* also when its row was inserted or refreshed after it was deleted.       *)
(***************************************************************************)
EndedSessionGoes ==
    \A s \in Sessions : <>[](status[s] = "gone" => ~rows[s].live)

(***************************************************************************)
(* A session whose shares keep being counted is shown as live again and    *)
(* again, also after it was silent for five minutes and marked.  The code  *)
(* excepts two sessions, whose row nothing ever inserts again: the one     *)
(* whose insertion failed, and the one that stayed up but was not heard of *)
(* until its row had been marked for a day.                                *)
(***************************************************************************)
MiningSessionShown ==
    \A s \in Sessions :
        []<><<Share(s)>>_vars
            => []<>(\/ rows[s].live \/ s \in lost \cup forgotten
                   \/ status[s] # "up")
=============================================================================
