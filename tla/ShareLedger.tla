----------------------------- MODULE ShareLedger -----------------------------
(***************************************************************************)
(* The share statistics of one session: addShares counts the accepted      *)
(* shares of a ten-minute slot in memory and writes them to the session's  *)
(* rows in the database, which it awaits, while further shares of the same *)
(* session come in (StratumV1ClientStatistics, ClientStatisticsService).   *)
(*                                                                         *)
(* The clock counts minutes.  The sum of difficulties (shares) and the     *)
(* hashrate move with acceptedCount and are left out.  Writes go over a    *)
(* pool of connections: they reach the table in any order, and their       *)
(* answers come back in any order.                                         *)
(***************************************************************************)
EXTENDS Integers, Sequences, FiniteSets

CONSTANTS SlotMin,    \* minutes of a time slot: 10
          SaveMin,    \* minutes between two saves of the current slot: 1
          MaxTime,    \* bound: the clock stops here
          MaxCalls,   \* bound: database calls in flight
          MaxShares   \* bound: shares accepted

ASSUME LedgerAssumption ==
    /\ SlotMin \in Nat \ {0} /\ SaveMin \in Nat
    /\ MaxTime \in Nat /\ MaxCalls \in Nat /\ MaxShares \in Nat

VARIABLES
    now,
    currentTimeSlot,
    acceptedCount,
    lastSave,
    calls,        \* id -> the database call of a share's handler
    rows,         \* the session's rows, in the order of their insertion
    accepted,     \* history: shares accepted in a slot
    disturbed     \* history: a call was made while another was in flight,
                  \* or failed

memoryVars  == <<currentTimeSlot, acceptedCount, lastSave>>
historyVars == <<accepted, disturbed>>
vars == <<now, memoryVars, calls, rows, historyVars>>

Times   == 0 .. MaxTime
Slots   == 0 .. MaxTime
CallIds == 1 .. MaxCalls
None    == -1                   \* null

\* write: what the table is asked to do; next: the slot that the handler
\* opens when an update has closed the one before, or None.
Call == [write : {"insert", "update"}, time : Slots, count : Nat,
         next : Slots \cup {None}, done : BOOLEAN]
Row  == [time : Slots, count : Nat]

TypeOK ==
    /\ now \in Times
    /\ currentTimeSlot \in Slots \cup {None}
    /\ acceptedCount \in Nat
    /\ lastSave \in Times \cup {None}
    /\ DOMAIN calls \subseteq CallIds
    /\ calls = [i \in DOMAIN calls |-> calls[i]]
    /\ \A i \in DOMAIN calls : calls[i] \in Call
    /\ rows \in Seq(Row)
    /\ accepted \in [Slots -> Nat]
    /\ disturbed \in BOOLEAN

Init ==
    /\ now = 0
    /\ currentTimeSlot = None /\ acceptedCount = 0 /\ lastSave = None
    /\ calls = [i \in {} |-> 0]
    /\ rows = <<>>
    /\ accepted = [s \in Slots |-> 0] /\ disturbed = FALSE

Advance ==
    /\ now < MaxTime
    /\ now' = now + 1
    /\ UNCHANGED <<memoryVars, calls, rows, historyVars>>

-----------------------------------------------------------------------------
(***************************************************************************)
(* A share is accepted: addShares up to its first await.                   *)
(***************************************************************************)
\* The start of the slot, as a time.
TimeSlot == now - (now % SlotMin)

NewCall(write, time, count, next) ==
    [write |-> write, time |-> time, count |-> count, next |-> next,
     done |-> FALSE]

Await(call) ==
    \E i \in CallIds \ DOMAIN calls :
        /\ \A k \in CallIds \ DOMAIN calls : i <= k
        /\ calls' = [k \in DOMAIN calls \cup {i} |->
                        IF k = i THEN call ELSE calls[k]]
        /\ disturbed' = (disturbed \/ DOMAIN calls # {})

Accept ==
    /\ accepted[TimeSlot] < MaxShares
    /\ accepted' = [accepted EXCEPT ![TimeSlot] = @ + 1]
    /\ UNCHANGED <<now, rows>>

IsSaveDue == lastSave = None \/ now - lastSave > SaveMin

FirstShare ==
    /\ Accept
    /\ currentTimeSlot = None
    /\ currentTimeSlot' = TimeSlot
    /\ acceptedCount' = acceptedCount + 1
    /\ Await(NewCall("insert", TimeSlot, acceptedCount', None))
    /\ UNCHANGED lastSave

\* Before anything else the old slot is brought up to date.
ShareOfNewSlot ==
    /\ Accept
    /\ currentTimeSlot \notin {None, TimeSlot}
    /\ Await(NewCall("update", currentTimeSlot, acceptedCount, TimeSlot))
    /\ UNCHANGED memoryVars

ShareSaved ==
    /\ Accept
    /\ currentTimeSlot = TimeSlot /\ IsSaveDue
    /\ acceptedCount' = acceptedCount + 1
    /\ Await(NewCall("update", currentTimeSlot, acceptedCount', None))
    /\ UNCHANGED <<currentTimeSlot, lastSave>>

ShareKept ==
    /\ Accept
    /\ currentTimeSlot = TimeSlot /\ ~IsSaveDue
    /\ acceptedCount' = acceptedCount + 1
    /\ UNCHANGED <<currentTimeSlot, lastSave, calls, disturbed>>

-----------------------------------------------------------------------------
(***************************************************************************)
(* The table: an insertion adds a row, an update changes every row of the  *)
(* session and slot and may find none.                                     *)
(***************************************************************************)
Written(c) ==
    IF c.write = "insert" THEN Append(rows, [time |-> c.time, count |-> c.count])
    ELSE [k \in DOMAIN rows |->
            IF rows[k].time = c.time THEN [rows[k] EXCEPT !.count = c.count]
                                     ELSE rows[k]]

Write(i) ==
    /\ i \in DOMAIN calls /\ ~calls[i].done
    /\ calls' = [calls EXCEPT ![i].done = TRUE]
    /\ rows' = Written(calls[i])
    /\ UNCHANGED <<now, memoryVars, historyVars>>

(***************************************************************************)
(* addShares after an await.                                               *)
(***************************************************************************)
Without(i) == [k \in DOMAIN calls \ {i} |-> calls[k]]

Saved(i) ==
    /\ i \in DOMAIN calls /\ calls[i].done /\ calls[i].next = None
    /\ calls' = Without(i)
    /\ lastSave' = now
    /\ UNCHANGED <<now, currentTimeSlot, acceptedCount, rows, historyVars>>

\* Mutant: what has been written is subtracted.
SubtractSaved(c) == acceptedCount - c.count + 1

\* Mutant: the counter goes on.
FirstCountKept(c) == acceptedCount + 1

\* Mutant: the share that opens the slot is left out of it.
FirstCountMissing(c) == 0

\* The counter starts again with the share that opens the slot.
FirstCount(c) == 1

OpenSlot(i) ==
    /\ i \in DOMAIN calls /\ calls[i].done /\ calls[i].next # None
    /\ currentTimeSlot' = calls[i].next
    /\ acceptedCount' = FirstCount(calls[i])
    /\ calls' = [calls EXCEPT ![i] =
                    NewCall("insert", calls[i].next, acceptedCount', None)]
    /\ UNCHANGED <<now, lastSave, rows, historyVars>>

\* The call is rejected, written or not: handleMiningSubmission logs the
\* error and accepts the share.
CallFails(i) ==
    /\ i \in DOMAIN calls
    /\ calls' = Without(i)
    /\ disturbed' = TRUE
    /\ UNCHANGED <<now, memoryVars, rows, accepted>>

Next ==
    \/ Advance
    \/ FirstShare \/ ShareOfNewSlot \/ ShareSaved \/ ShareKept
    \/ \E i \in CallIds : Write(i) \/ Saved(i) \/ OpenSlot(i) \/ CallFails(i)

Spec == Init /\ [][Next]_vars

-----------------------------------------------------------------------------
RowsOf(s) == {k \in DOMAIN rows : rows[k].time = s}

(***************************************************************************)
(* No row counts more shares than were accepted in its slot, although      *)
(* slots are closed and opened by several handlers at once and a slot may  *)
(* be opened again after a later one (addShares, lines 73-99).             *)
(***************************************************************************)
RowNeverOverstates ==
    \A k \in DOMAIN rows : rows[k].count <= accepted[rows[k].time]

(***************************************************************************)
(* As long as no call overlaps another and none fails, the books are       *)
(* exact: a slot that has been left for a later one has one row, with all  *)
(* the shares accepted in it.                                              *)
(***************************************************************************)
ExactWithoutOverlap ==
    ~disturbed =>
        \A s \in Slots : accepted[s] > 0 /\ s < currentTimeSlot =>
            \E k \in RowsOf(s) : RowsOf(s) = {k} /\ rows[k].count = accepted[s]
=============================================================================
