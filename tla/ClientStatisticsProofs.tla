------------------------ MODULE ClientStatisticsProofs ------------------------
(***************************************************************************)
(* Safety of the two halves of StratumV1ClientStatistics.                  *)
(*                                                                         *)
(* ShareLedger: for every length of a slot, every save interval and any    *)
(* number of shares and calls in flight.                                   *)
(*                                                                         *)
(* VarDiff: for every chain profile, size of the cache and rate, as long   *)
(* as the integers that are rounded stay below 2^31.                       *)
(***************************************************************************)
EXTENDS ShareLedger, VarDiff, SequenceTheorems, WellFoundedInduction, TLAPS

-----------------------------------------------------------------------------
(* The slot of a time is a time, not after it.                             *)
LEMMA TimeSlotIsSlot ==
    ASSUME now \in Times
    PROVE  TimeSlot \in Slots
<1>1. now \in Nat /\ now <= MaxTime /\ SlotMin \in Nat /\ SlotMin > 0
  BY LedgerAssumption DEF Times
<1>2. now % SlotMin \in Nat /\ now % SlotMin <= now
  BY <1>1, SMT
<1> QED BY <1>1, <1>2, LedgerAssumption DEF TimeSlot, Slots

LEMMA NewCallIsCall ==
    ASSUME NEW write \in {"insert", "update"}, NEW time \in Slots,
           NEW count \in Nat, NEW next \in Slots \cup {None}
    PROVE  NewCall(write, time, count, next) \in Call
BY DEF NewCall, Call

(* A call that is awaited joins those in flight.                           *)
LEMMA AwaitAdds ==
    ASSUME TypeOK, NEW call \in Call, Await(call)
    PROVE  /\ DOMAIN calls' \subseteq CallIds
           /\ calls' = [i \in DOMAIN calls' |-> calls'[i]]
           /\ \A i \in DOMAIN calls' :
                calls'[i] = call \/ (i \in DOMAIN calls /\ calls'[i] = calls[i])
           /\ disturbed' \in BOOLEAN
BY DEF TypeOK, Await

LEMMA WithoutRemoves ==
    ASSUME TypeOK, NEW i, calls' = Without(i)
    PROVE  /\ DOMAIN calls' \subseteq CallIds
           /\ calls' = [k \in DOMAIN calls' |-> calls'[k]]
           /\ \A k \in DOMAIN calls' : k \in DOMAIN calls /\ calls'[k] = calls[k]
BY DEF TypeOK, Without

(* What a write makes of the rows.                                         *)
LEMMA WrittenRows ==
    ASSUME TypeOK, NEW c \in Call
    PROVE  /\ Written(c) \in Seq(Row)
           /\ \A k \in DOMAIN Written(c) :
                \/ Written(c)[k] = [time |-> c.time, count |-> c.count]
                \/ k \in DOMAIN rows /\ Written(c)[k] = rows[k]
<1> DEFINE new == [time |-> c.time, count |-> c.count]
<1>1. rows \in Seq(Row) /\ new \in Row
  BY DEF TypeOK, Call, Row
<1>2. \A k \in DOMAIN rows : rows[k] \in Row
  BY <1>1
<1>3. CASE c.write = "insert"
  <2>1. Written(c) = Append(rows, new)
    BY <1>3 DEF Written
  <2> HIDE DEF new
  <2>2. Append(rows, new) \in Seq(Row)
    BY <1>1
  <2>3. \A k \in DOMAIN Append(rows, new) :
          \/ Append(rows, new)[k] = new
          \/ k \in DOMAIN rows /\ Append(rows, new)[k] = rows[k]
    BY <1>1
  <2> QED BY <2>1, <2>2, <2>3 DEF new
<1>4. CASE c.write = "update"
  <2>1. \A k \in DOMAIN rows : [rows[k] EXCEPT !.count = c.count]
                                = [time |-> rows[k].time, count |-> c.count]
    BY <1>2 DEF Row
  <2>2. Written(c) = [k \in DOMAIN rows |->
                        IF rows[k].time = c.time THEN new ELSE rows[k]]
    BY <1>4, <2>1 DEF Written
  <2> HIDE DEF new
  <2>3. DOMAIN rows = 1 .. Len(rows) /\ Len(rows) \in Nat
    BY <1>1
  <2>4. Written(c) \in [1 .. Len(rows) -> Row]
    BY <1>1, <1>2, <2>2, <2>3
  <2>5. Written(c) \in Seq(Row)
    BY <2>3, <2>4, SeqDef
  <2>6. \A k \in DOMAIN Written(c) :
          Written(c)[k] = new \/ (k \in DOMAIN rows /\ Written(c)[k] = rows[k])
    BY <2>2
  <2> QED BY <2>5, <2>6 DEF new
<1> QED BY <1>3, <1>4 DEF Call

(* Accepting a share keeps the history of the slots a function to numbers. *)
LEMMA AcceptTyped ==
    ASSUME TypeOK, Accept
    PROVE  /\ now' \in Times /\ rows' \in Seq(Row)
           /\ accepted' \in [Slots -> Nat]
<1>1. TimeSlot \in Slots
  BY TimeSlotIsSlot DEF TypeOK
<1> QED BY <1>1 DEF TypeOK, Accept

-----------------------------------------------------------------------------
(***************************************************************************)
(* Every reachable state is well typed: no counter falls below zero, and   *)
(* every call asks for a slot that there is.                               *)
(***************************************************************************)
THEOREM LedgerTyped == Spec => []TypeOK
<1>1. Init => TypeOK
  <2> SUFFICES ASSUME Init PROVE TypeOK
    OBVIOUS
  <2>1. now \in Times /\ rows \in Seq(Row) /\ accepted \in [Slots -> Nat]
    BY LedgerAssumption DEF Init, Times
  <2>2. /\ DOMAIN calls = {} /\ calls = [i \in DOMAIN calls |-> calls[i]]
    BY DEF Init
  <2> QED BY <2>1, <2>2 DEF Init, TypeOK
<1>2. TypeOK /\ [Next]_vars => TypeOK'
  <2> SUFFICES ASSUME TypeOK, [Next]_vars PROVE TypeOK'
    OBVIOUS
  <2> USE DEF memoryVars, historyVars
  <2>0. TimeSlot \in Slots
    BY TimeSlotIsSlot DEF TypeOK
  <2>1. CASE Advance
    BY <2>1, LedgerAssumption DEF Advance, TypeOK, Times
  <2>2. CASE FirstShare
    <3>1. currentTimeSlot' \in Slots \cup {None} /\ acceptedCount' \in Nat
          /\ lastSave' \in Times \cup {None}
      BY <2>0, <2>2 DEF FirstShare, TypeOK
    <3>2. PICK call \in Call : Await(call)
      BY <2>0, <2>2, <3>1, NewCallIsCall DEF FirstShare, TypeOK
    <3>3. \A i \in DOMAIN calls' : calls'[i] \in Call
      BY <3>2, AwaitAdds DEF TypeOK
    <3> QED BY <2>2, <3>1, <3>2, <3>3, AwaitAdds, AcceptTyped DEF FirstShare, TypeOK
  <2>3. CASE ShareOfNewSlot
    <3>1. currentTimeSlot' \in Slots \cup {None} /\ acceptedCount' \in Nat
          /\ lastSave' \in Times \cup {None}
      BY <2>0, <2>3 DEF ShareOfNewSlot, TypeOK
    <3>2. PICK call \in Call : Await(call)
      BY <2>0, <2>3, <3>1, NewCallIsCall DEF ShareOfNewSlot, TypeOK
    <3>3. \A i \in DOMAIN calls' : calls'[i] \in Call
      BY <3>2, AwaitAdds DEF TypeOK
    <3> QED BY <2>3, <3>1, <3>2, <3>3, AwaitAdds, AcceptTyped DEF ShareOfNewSlot, TypeOK
  <2>4. CASE ShareSaved
    <3>1. currentTimeSlot' \in Slots \cup {None} /\ acceptedCount' \in Nat
          /\ lastSave' \in Times \cup {None}
      BY <2>0, <2>4 DEF ShareSaved, TypeOK
    <3>2. PICK call \in Call : Await(call)
      BY <2>0, <2>4, <3>1, NewCallIsCall DEF ShareSaved, TypeOK
    <3>3. \A i \in DOMAIN calls' : calls'[i] \in Call
      BY <3>2, AwaitAdds DEF TypeOK
    <3> QED BY <2>4, <3>1, <3>2, <3>3, AwaitAdds, AcceptTyped DEF ShareSaved, TypeOK
  <2>5. CASE ShareKept
    BY <2>0, <2>5 DEF ShareKept, Accept, TypeOK
  <2>6. ASSUME NEW i \in CallIds, Write(i) PROVE TypeOK'
    <3>1. calls[i] \in Call /\ [calls[i] EXCEPT !.done = TRUE] \in Call
      BY <2>6 DEF Write, TypeOK, Call
    <3> QED BY <2>6, <3>1, WrittenRows DEF Write, TypeOK
  <2>7. ASSUME NEW i \in CallIds, Saved(i) PROVE TypeOK'
    BY <2>7, WithoutRemoves DEF Saved, TypeOK
  <2>8. ASSUME NEW i \in CallIds, OpenSlot(i) PROVE TypeOK'
    <3>1. calls[i].next \in Slots
      BY <2>8 DEF OpenSlot, TypeOK, Call
    <3>2. acceptedCount' = 1
      BY <2>8 DEF OpenSlot, FirstCount
    <3>3. NewCall("insert", calls[i].next, acceptedCount', None) \in Call
      BY <3>1, <3>2, NewCallIsCall
    <3>4. /\ DOMAIN calls' = DOMAIN calls
          /\ calls' = [k \in DOMAIN calls' |-> calls'[k]]
          /\ \A k \in DOMAIN calls' : calls'[k] \in Call
      BY <2>8, <3>3 DEF OpenSlot, TypeOK
    <3>5. UNCHANGED <<now, lastSave, rows, accepted, disturbed>>
          /\ currentTimeSlot' \in Slots
      BY <2>8, <3>1 DEF OpenSlot
    <3> QED BY <3>2, <3>4, <3>5 DEF TypeOK
  <2>9. ASSUME NEW i \in CallIds, CallFails(i) PROVE TypeOK'
    BY <2>9, WithoutRemoves DEF CallFails, TypeOK
  <2>10. CASE UNCHANGED vars
    BY <2>10 DEF vars, TypeOK
  <2> QED BY <2>1, <2>2, <2>3, <2>4, <2>5, <2>6, <2>7, <2>8, <2>9, <2>10 DEF Next
<1> QED BY <1>1, <1>2, PTL DEF Spec

-----------------------------------------------------------------------------
\* What is counted in memory, on its way to the table or in the table for a
\* slot was accepted in it; a slot about to be opened has its first share.
Counted ==
    IF currentTimeSlot = None THEN acceptedCount = 0
                              ELSE acceptedCount <= accepted[currentTimeSlot]

Covered(c, acc) ==
    /\ c.count <= acc[c.time]
    /\ c.next # None => 1 <= acc[c.next]

LedgerCovered ==
    /\ Counted
    /\ \A i \in DOMAIN calls : Covered(calls[i], accepted)
    /\ RowNeverOverstates

(* An accepted share raises one count of the history and lowers none.      *)
LEMMA AcceptRaises ==
    ASSUME TypeOK, Accept
    PROVE  /\ TimeSlot \in Slots
           /\ accepted'[TimeSlot] = accepted[TimeSlot] + 1
           /\ \A s \in Slots : accepted[s] \in Nat /\ accepted'[s] \in Nat
           /\ \A s \in Slots : accepted[s] <= accepted'[s]
           /\ rows' = rows
BY TimeSlotIsSlot DEF TypeOK, Accept

LEMMA RaisingKeepsRows ==
    ASSUME TypeOK, Accept, RowNeverOverstates
    PROVE  RowNeverOverstates'
<1>1. \A k \in DOMAIN rows : rows[k] \in Row
  BY DEF TypeOK
<1>2. \A k \in DOMAIN rows : rows[k].time \in Slots /\ rows[k].count \in Nat
  BY <1>1 DEF Row
<1> QED BY <1>2, AcceptRaises DEF RowNeverOverstates

LEMMA RaisingKeepsCalls ==
    ASSUME TypeOK, Accept, NEW c \in Call, Covered(c, accepted)
    PROVE  Covered(c, accepted')
<1>1. /\ c.time \in Slots /\ c.count \in Nat
      /\ c.next # None => c.next \in Slots
  BY DEF Call
<1> QED BY <1>1, AcceptRaises DEF Covered

(***************************************************************************)
(* No row counts more shares than its slot has had, however the handlers'  *)
(* calls overlap, overtake one another or fail.                            *)
(***************************************************************************)
THEOREM RowNeverOverstatesAlways == Spec => []RowNeverOverstates
<1>1. Init => LedgerCovered
  BY DEF Init, LedgerCovered, Counted, RowNeverOverstates
<1>2. TypeOK /\ LedgerCovered /\ [Next]_vars => LedgerCovered'
  <2> SUFFICES ASSUME TypeOK, LedgerCovered, [Next]_vars PROVE LedgerCovered'
    OBVIOUS
  <2> USE DEF memoryVars, historyVars
  <2>1. CASE Advance \/ UNCHANGED vars
    BY <2>1 DEF Advance, vars, LedgerCovered, Counted, Covered, RowNeverOverstates
  <2>2. CASE FirstShare
    <3>1. acceptedCount' = 1 /\ currentTimeSlot' = TimeSlot /\ TimeSlot # None
      BY <2>2, AcceptRaises DEF FirstShare, LedgerCovered, Counted, Slots, None
    <3>2. 1 <= accepted'[TimeSlot]
      BY <2>2, AcceptRaises DEF FirstShare
    <3>3. PICK call \in Call : /\ Await(call)
                              /\ call.count = acceptedCount' /\ call.time = TimeSlot
                              /\ call.next = None
      <4>1. NewCall("insert", TimeSlot, acceptedCount', None) \in Call
        BY <2>2, <3>1, NewCallIsCall, AcceptRaises DEF FirstShare
      <4>2. Await(NewCall("insert", TimeSlot, acceptedCount', None))
        BY <2>2 DEF FirstShare
      <4> QED BY <4>1, <4>2 DEF NewCall
    <3>4. Covered(call, accepted')
      BY <3>1, <3>2, <3>3 DEF Covered
    <3>5. \A i \in DOMAIN calls : Covered(calls[i], accepted')
      BY <2>2, RaisingKeepsCalls DEF FirstShare, TypeOK, LedgerCovered
    <3>6. \A i \in DOMAIN calls' : Covered(calls'[i], accepted')
      BY <3>3, <3>4, <3>5, AwaitAdds DEF Covered
    <3> QED BY <2>2, <3>1, <3>2, <3>6, RaisingKeepsRows
            DEF FirstShare, LedgerCovered, Counted
  <2>3. CASE ShareOfNewSlot
    <3>1. currentTimeSlot \in Slots /\ currentTimeSlot # None
      BY <2>3 DEF ShareOfNewSlot, TypeOK
    <3>2. acceptedCount <= accepted'[currentTimeSlot] /\ 1 <= accepted'[TimeSlot]
      BY <2>3, <3>1, AcceptRaises
      DEF ShareOfNewSlot, LedgerCovered, Counted, TypeOK
    <3>3. PICK call \in Call : /\ Await(call)
                              /\ call.count = acceptedCount /\ call.time = currentTimeSlot
                              /\ call.next = TimeSlot
      BY <2>3, <3>1, <3>2, NewCallIsCall, AcceptRaises DEF ShareOfNewSlot, NewCall, TypeOK
    <3>4. Covered(call, accepted')
      BY <3>1, <3>2, <3>3 DEF Covered
    <3>5. \A i \in DOMAIN calls : Covered(calls[i], accepted')
      BY <2>3, RaisingKeepsCalls DEF ShareOfNewSlot, TypeOK, LedgerCovered
    <3>6. \A i \in DOMAIN calls' : Covered(calls'[i], accepted')
      BY <3>3, <3>4, <3>5, AwaitAdds DEF Covered
    <3> QED BY <2>3, <3>1, <3>2, <3>6, RaisingKeepsRows
            DEF ShareOfNewSlot, LedgerCovered, Counted
  <2>4. CASE ShareSaved
    <3>1. currentTimeSlot = TimeSlot /\ currentTimeSlot # None
          /\ acceptedCount' = acceptedCount + 1 /\ currentTimeSlot' = TimeSlot
      BY <2>4, AcceptRaises DEF ShareSaved, Slots, None
    <3>2. acceptedCount' <= accepted'[TimeSlot] /\ acceptedCount' \in Nat
      BY <2>4, <3>1, AcceptRaises
      DEF ShareSaved, LedgerCovered, Counted, TypeOK
    <3>3. PICK call \in Call : /\ Await(call)
                              /\ call.count = acceptedCount' /\ call.time = currentTimeSlot
                              /\ call.next = None
      BY <2>4, <3>1, <3>2, NewCallIsCall, AcceptRaises DEF ShareSaved, NewCall, TypeOK
    <3>4. Covered(call, accepted')
      BY <3>1, <3>2, <3>3 DEF Covered
    <3>5. \A i \in DOMAIN calls : Covered(calls[i], accepted')
      BY <2>4, RaisingKeepsCalls DEF ShareSaved, TypeOK, LedgerCovered
    <3>6. \A i \in DOMAIN calls' : Covered(calls'[i], accepted')
      BY <3>3, <3>4, <3>5, AwaitAdds DEF Covered
    <3> QED BY <2>4, <3>1, <3>2, <3>6, RaisingKeepsRows
            DEF ShareSaved, LedgerCovered, Counted
  <2>5. CASE ShareKept
    <3>1. currentTimeSlot = TimeSlot /\ currentTimeSlot # None
          /\ acceptedCount' = acceptedCount + 1 /\ currentTimeSlot' = TimeSlot
      BY <2>5, AcceptRaises DEF ShareKept, Slots, None
    <3>2. acceptedCount' <= accepted'[TimeSlot]
      BY <2>5, <3>1, AcceptRaises DEF ShareKept, LedgerCovered, Counted, TypeOK
    <3>3. \A i \in DOMAIN calls : Covered(calls[i], accepted')
      BY <2>5, RaisingKeepsCalls DEF ShareKept, TypeOK, LedgerCovered
    <3> QED BY <2>5, <3>1, <3>2, <3>3, RaisingKeepsRows
            DEF ShareKept, LedgerCovered, Counted, Covered
  <2>6. ASSUME NEW i \in CallIds, Write(i) PROVE LedgerCovered'
    <3>1. calls[i] \in Call /\ calls[i].count <= accepted[calls[i].time]
      BY <2>6 DEF Write, TypeOK, LedgerCovered, Covered
    <3>2. RowNeverOverstates'
      BY <2>6, <3>1, WrittenRows DEF Write, LedgerCovered, RowNeverOverstates
    <3>3. \A k \in DOMAIN calls' :
            /\ k \in DOMAIN calls
            /\ calls'[k].count = calls[k].count /\ calls'[k].time = calls[k].time
            /\ calls'[k].next = calls[k].next
      BY <2>6 DEF Write, TypeOK, Call
    <3> QED BY <2>6, <3>2, <3>3 DEF Write, LedgerCovered, Counted, Covered
  <2>7. ASSUME NEW i \in CallIds, Saved(i) PROVE LedgerCovered'
    BY <2>7, WithoutRemoves
    DEF Saved, LedgerCovered, Counted, Covered, RowNeverOverstates
  <2>8. ASSUME NEW i \in CallIds, OpenSlot(i) PROVE LedgerCovered'
    <3>1. calls[i].next \in Slots /\ 1 <= accepted[calls[i].next]
      BY <2>8 DEF OpenSlot, TypeOK, Call, LedgerCovered, Covered
    <3>2. acceptedCount' = 1 /\ currentTimeSlot' = calls[i].next
      BY <2>8 DEF OpenSlot, FirstCount
    <3>3. \A k \in DOMAIN calls' :
            \/ calls'[k] = NewCall("insert", calls[i].next, acceptedCount', None)
            \/ k \in DOMAIN calls /\ calls'[k] = calls[k]
      BY <2>8 DEF OpenSlot, TypeOK
    <3>4. \A k \in DOMAIN calls' : Covered(calls'[k], accepted')
      BY <2>8, <3>1, <3>2, <3>3 DEF OpenSlot, LedgerCovered, Covered, NewCall
    <3> QED BY <2>8, <3>1, <3>2, <3>4
            DEF OpenSlot, LedgerCovered, Counted, RowNeverOverstates, Slots, None
  <2>9. ASSUME NEW i \in CallIds, CallFails(i) PROVE LedgerCovered'
    BY <2>9, WithoutRemoves
    DEF CallFails, LedgerCovered, Counted, Covered, RowNeverOverstates
  <2> QED BY <2>1, <2>2, <2>3, <2>4, <2>5, <2>6, <2>7, <2>8, <2>9 DEF Next
<1>3. LedgerCovered => RowNeverOverstates
  BY DEF LedgerCovered
<1> QED BY <1>1, <1>2, <1>3, LedgerTyped, PTL DEF Spec

-----------------------------------------------------------------------------
\* The rows r have none for slot s; one, that counts n; one.
NoRow(r, s) == \A k \in DOMAIN r : r[k].time # s

OneRowOf(r, s, n) ==
    \E k \in DOMAIN r : /\ r[k].time = s /\ r[k].count = n
                        /\ \A j \in DOMAIN r : r[j].time = s => j = k

OneRow(r, s) == \E k \in DOMAIN r : OneRowOf(r, s, r[k].count)

\* The call c, alone in flight, is about the current slot; once its update
\* has closed the slot, the handler opens one that has had its first share.
Fits(c) ==
    /\ c.time = currentTimeSlot
    /\ c.write = "insert" /\ ~c.done => NoRow(rows, currentTimeSlot)
    /\ c.write = "update" \/ c.done => OneRow(rows, currentTimeSlot)
    /\ c.next # None =>
         /\ c.write = "update" /\ c.count = acceptedCount
         /\ currentTimeSlot < c.next /\ c.next <= TimeSlot
         /\ accepted[c.next] = 1
         /\ c.done => OneRowOf(rows, currentTimeSlot, acceptedCount)

NothingYet ==
    /\ DOMAIN calls = {} /\ acceptedCount = 0
    /\ \A s \in Slots : accepted[s] = 0 /\ NoRow(rows, s)

InSlot ==
    /\ currentTimeSlot <= TimeSlot
    /\ accepted[currentTimeSlot] = acceptedCount
    /\ \A i \in DOMAIN calls : Fits(calls[i])
    /\ DOMAIN calls = {} => OneRow(rows, currentTimeSlot)
    /\ \A s \in Slots : s < currentTimeSlot =>
         accepted[s] = 0 \/ OneRowOf(rows, s, accepted[s])
    /\ \A s \in Slots : s > currentTimeSlot =>
         /\ NoRow(rows, s)
         /\ accepted[s] = 0 \/ \E i \in DOMAIN calls : calls[i].next = s

Orderly ==
    /\ DOMAIN calls \subseteq {1}
    /\ currentTimeSlot = None => NothingYet
    /\ currentTimeSlot # None => InSlot

(* As the clock moves on, the slot is the same or a later one.             *)
LEMMA SlotsFollowTime ==
    ASSUME TypeOK, Advance
    PROVE  TimeSlot <= TimeSlot'
<1>1. now \in Nat /\ now' = now + 1 /\ SlotMin \in Nat /\ SlotMin > 0
  BY LedgerAssumption DEF TypeOK, Times, Advance
<1> DEFINE q == now \div SlotMin
           p == (now + 1) \div SlotMin
           r == now % SlotMin
           t == (now + 1) % SlotMin
<1>2. q \in Int /\ p \in Int /\ r \in 0 .. SlotMin - 1 /\ t \in 0 .. SlotMin - 1
  BY <1>1, SMT
<1>3. now = SlotMin * q + r /\ now + 1 = SlotMin * p + t
  BY <1>1, SMT
<1> HIDE DEF q, p, r, t
<1>4. SlotMin * q <= SlotMin * p
  <2>1. CASE q <= p
    BY <1>1, <1>2, <2>1, SMT
  <2>2. CASE p <= q - 1
    <3>1. SlotMin * p <= SlotMin * (q - 1)
      BY <1>1, <1>2, <2>2, SMT
    <3>2. SlotMin * (q - 1) = SlotMin * q - SlotMin
      BY <1>1, <1>2, SMT
    <3> QED BY <1>1, <1>2, <1>3, <3>1, <3>2, SMT
  <2> QED BY <1>2, <2>1, <2>2
<1>5. TimeSlot = now - r /\ TimeSlot' = now + 1 - t
  BY <1>1 DEF TimeSlot, r, t
<1> QED BY <1>1, <1>2, <1>3, <1>4, <1>5, SMT

(* What a write that fits leaves: one row of its slot with its count, and  *)
(* the rows of the other slots.                                            *)
LEMMA WriteExact ==
    ASSUME TypeOK, NEW c \in Call,
           c.write = "insert" => NoRow(rows, c.time),
           c.write = "update" => OneRow(rows, c.time)
    PROVE  /\ OneRowOf(Written(c), c.time, c.count)
           /\ \A s \in Slots \ {c.time} :
                /\ NoRow(rows, s) => NoRow(Written(c), s)
                /\ \A n \in Nat :
                     OneRowOf(rows, s, n) => OneRowOf(Written(c), s, n)
<1> DEFINE new == [time |-> c.time, count |-> c.count]
           w == Written(c)
<1>0. /\ rows \in Seq(Row) /\ new \in Row
      /\ new.time = c.time /\ new.count = c.count
  BY DEF TypeOK, Call, Row
<1>1. Len(rows) \in Nat /\ DOMAIN rows = 1 .. Len(rows)
      /\ \A k \in DOMAIN rows : rows[k] \in Row
  BY <1>0
<1>2. CASE c.write = "insert"
  <2>1. w = Append(rows, new)
    BY <1>2 DEF Written
  <2> HIDE DEF new, w
  <2>2. /\ DOMAIN w = 1 .. Len(rows) + 1
        /\ w[Len(rows) + 1] = new
        /\ \A k \in DOMAIN rows : w[k] = rows[k]
    BY <1>0, <1>1, <2>1
  <2>3. \A k \in DOMAIN w : k = Len(rows) + 1 \/ k \in DOMAIN rows
    BY <1>1, <2>2
  <2>4. Len(rows) + 1 \in DOMAIN w /\ \A k \in DOMAIN rows : k \in DOMAIN w
    BY <1>1, <2>2
  <2>5. OneRowOf(w, c.time, c.count)
    BY <1>0, <1>2, <2>2, <2>3, <2>4 DEF NoRow, OneRowOf
  <2>6. ASSUME NEW s \in Slots \ {c.time}, NoRow(rows, s) PROVE NoRow(w, s)
    BY <1>0, <2>2, <2>3, <2>6 DEF NoRow
  <2>7. ASSUME NEW s \in Slots \ {c.time}, NEW n, OneRowOf(rows, s, n)
        PROVE  OneRowOf(w, s, n)
    BY <1>0, <2>2, <2>3, <2>4, <2>7 DEF OneRowOf
  <2> QED BY <2>5, <2>6, <2>7 DEF w
<1>3. CASE c.write = "update"
  <2>1. \A k \in DOMAIN rows : [rows[k] EXCEPT !.count = c.count]
                                = [time |-> rows[k].time, count |-> c.count]
    BY <1>1 DEF Row
  <2>2. w = [k \in DOMAIN rows |-> IF rows[k].time = c.time THEN new ELSE rows[k]]
    BY <1>3, <2>1 DEF Written
  <2> HIDE DEF new, w
  <2>3. /\ DOMAIN w = DOMAIN rows
        /\ \A k \in DOMAIN rows :
             /\ w[k].time = rows[k].time
             /\ rows[k].time = c.time => w[k].count = c.count
             /\ rows[k].time # c.time => w[k] = rows[k]
    BY <1>0, <2>2
  <2>4. OneRowOf(w, c.time, c.count)
    BY <1>3, <2>3 DEF OneRow, OneRowOf
  <2>5. ASSUME NEW s \in Slots \ {c.time}, NoRow(rows, s) PROVE NoRow(w, s)
    BY <2>3, <2>5 DEF NoRow
  <2>6. ASSUME NEW s \in Slots \ {c.time}, NEW n, OneRowOf(rows, s, n)
        PROVE  OneRowOf(w, s, n)
    BY <2>3, <2>6 DEF OneRowOf
  <2> QED BY <2>4, <2>5, <2>6 DEF w
<1> QED BY <1>2, <1>3 DEF Call

(* A call made undisturbed is the only one, under the first free id.       *)
LEMMA AwaitAlone ==
    ASSUME TypeOK, NEW call, Await(call), ~disturbed'
    PROVE  /\ ~disturbed /\ DOMAIN calls = {}
           /\ DOMAIN calls' = {1} /\ calls'[1] = call
<1>1. ~disturbed /\ DOMAIN calls = {}
  BY DEF Await
<1>2. PICK i \in CallIds : /\ \A k \in CallIds : i <= k
                           /\ calls' = [k \in {i} |-> call]
  <2>1. PICK i \in CallIds \ DOMAIN calls :
               /\ \A k \in CallIds \ DOMAIN calls : i <= k
               /\ calls' = [k \in DOMAIN calls \cup {i} |->
                              IF k = i THEN call ELSE calls[k]]
    BY DEF Await
  <2>2. calls' = [k \in {i} |-> call]
    BY <1>1, <2>1
  <2> QED BY <1>1, <2>1, <2>2
<1>3. i = 1
  BY <1>2, LedgerAssumption DEF CallIds
<1> QED BY <1>1, <1>2, <1>3

(***************************************************************************)
(* As long as no call overlaps another and none fails, a slot that has     *)
(* been left has one row with all its shares.  Then one call at most is in *)
(* flight, always about the current slot, and it finds the rows it needs.  *)
(***************************************************************************)
THEOREM ExactWithoutOverlapAlways == Spec => []ExactWithoutOverlap
<1> DEFINE IInv == ~disturbed => Orderly
<1>1. Init => IInv
  BY DEF Init, Orderly, NothingYet, NoRow
<1>2. TypeOK /\ IInv /\ [Next]_vars => IInv'
  <2> SUFFICES ASSUME TypeOK, IInv, [Next]_vars, ~disturbed' PROVE Orderly'
    OBVIOUS
  <2> USE DEF memoryVars, historyVars
  <2>0. currentTimeSlot \in Slots \cup {None} /\ acceptedCount \in Nat
        /\ \A s \in Slots : s \in Nat
        /\ None \notin Slots
    BY LedgerAssumption DEF TypeOK, Slots, None
  <2>1. CASE Advance
    <3>1. TimeSlot <= TimeSlot' /\ TimeSlot \in Int /\ TimeSlot' \in Int
      <4>1. now \in Nat /\ now' \in Nat /\ SlotMin \in Nat \ {0}
        BY <2>1, LedgerAssumption DEF Advance, TypeOK, Times
      <4>2. TimeSlot \in Int /\ TimeSlot' \in Int
        BY <4>1, SMT DEF TimeSlot
      <4> QED BY <2>1, <4>2, SlotsFollowTime
    <3>2. Orderly
      BY <2>1 DEF Advance
    <3>3. ASSUME NEW c \in Call, Fits(c) PROVE Fits(c)'
      <4>1. c.next # None => c.next \in Nat
        BY <2>0 DEF Call
      <4> QED BY <2>1, <3>1, <3>3, <4>1 DEF Fits, Advance
    <3> QED BY <2>0, <2>1, <3>1, <3>2, <3>3
            DEF Orderly, NothingYet, InSlot, Advance, TypeOK
  <2>2. CASE FirstShare
    <3>1. /\ ~disturbed /\ DOMAIN calls = {} /\ DOMAIN calls' = {1}
          /\ calls'[1] = NewCall("insert", TimeSlot, acceptedCount', None)
      BY <2>2, AwaitAlone DEF FirstShare
    <3>2. NothingYet
      BY <2>2, <3>1 DEF FirstShare, Orderly
    <3>3. /\ currentTimeSlot' = TimeSlot /\ acceptedCount' = 1
          /\ rows' = rows /\ TimeSlot' = TimeSlot
      BY <2>2, <3>2 DEF FirstShare, Accept, NothingYet, TimeSlot
    <3>4. /\ TimeSlot \in Slots /\ accepted'[TimeSlot] = 1
          /\ \A s \in Slots \ {TimeSlot} : accepted'[s] = 0
      BY <2>2, <3>2, AcceptRaises DEF FirstShare, Accept, NothingYet, TypeOK
    <3>5. Fits(calls[1])'
      BY <2>0, <3>1, <3>2, <3>3, <3>4 DEF Fits, NewCall, NothingYet
    <3> QED BY <2>0, <3>1, <3>2, <3>3, <3>4, <3>5 DEF Orderly, InSlot, NothingYet
  <2>3. CASE ShareOfNewSlot
    <3>1. /\ ~disturbed /\ DOMAIN calls = {} /\ DOMAIN calls' = {1}
          /\ calls'[1] = NewCall("update", currentTimeSlot, acceptedCount, TimeSlot)
      BY <2>3, AwaitAlone DEF ShareOfNewSlot
    <3>2. InSlot /\ currentTimeSlot \in Slots
      BY <2>0, <2>3, <3>1 DEF ShareOfNewSlot, Orderly
    <3>3. UNCHANGED <<currentTimeSlot, acceptedCount, rows>> /\ TimeSlot' = TimeSlot
      BY <2>3 DEF ShareOfNewSlot, Accept, TimeSlot
    <3>4. TimeSlot \in Slots /\ currentTimeSlot < TimeSlot
      BY <2>0, <2>3, <3>2, AcceptRaises DEF ShareOfNewSlot, InSlot
    <3>5. /\ accepted[TimeSlot] = 0 /\ accepted'[TimeSlot] = 1
          /\ \A s \in Slots \ {TimeSlot} : accepted'[s] = accepted[s]
      BY <2>0, <2>3, <3>1, <3>2, <3>4, AcceptRaises
      DEF ShareOfNewSlot, Accept, InSlot, TypeOK
    <3>6. Fits(calls[1])'
      BY <2>0, <3>1, <3>2, <3>3, <3>4, <3>5 DEF Fits, NewCall, InSlot
    <3>7. calls'[1].next = TimeSlot
      BY <3>1 DEF NewCall
    <3> QED BY <2>0, <3>1, <3>2, <3>3, <3>4, <3>5, <3>6, <3>7 DEF Orderly, InSlot
  <2>4. CASE ShareSaved
    <3>1. /\ ~disturbed /\ DOMAIN calls = {} /\ DOMAIN calls' = {1}
          /\ calls'[1] = NewCall("update", currentTimeSlot, acceptedCount', None)
      BY <2>4, AwaitAlone DEF ShareSaved
    <3>2. TimeSlot \in Slots /\ currentTimeSlot = TimeSlot
      BY <2>4, AcceptRaises DEF ShareSaved
    <3>3. InSlot
      BY <2>0, <3>1, <3>2 DEF Orderly
    <3>4. /\ UNCHANGED <<currentTimeSlot, rows>> /\ TimeSlot' = TimeSlot
          /\ acceptedCount' = acceptedCount + 1
      BY <2>4 DEF ShareSaved, Accept, TimeSlot
    <3>5. /\ accepted'[TimeSlot] = accepted[TimeSlot] + 1
          /\ \A s \in Slots \ {TimeSlot} : accepted'[s] = accepted[s]
      BY <2>4, AcceptRaises DEF ShareSaved, Accept, TypeOK
    <3>6. Fits(calls[1])'
      BY <2>0, <3>1, <3>2, <3>3, <3>4, <3>5 DEF Fits, NewCall, InSlot
    <3> QED BY <2>0, <3>1, <3>2, <3>3, <3>4, <3>5, <3>6 DEF Orderly, InSlot
  <2>5. CASE ShareKept
    <3>1. TimeSlot \in Slots /\ currentTimeSlot = TimeSlot /\ Orderly
      BY <2>5, AcceptRaises DEF ShareKept
    <3>2. InSlot
      BY <2>0, <3>1 DEF Orderly
    <3>3. /\ UNCHANGED <<currentTimeSlot, rows, calls>> /\ TimeSlot' = TimeSlot
          /\ acceptedCount' = acceptedCount + 1
      BY <2>5 DEF ShareKept, Accept, TimeSlot
    <3>4. /\ accepted'[TimeSlot] = accepted[TimeSlot] + 1
          /\ \A s \in Slots \ {TimeSlot} : accepted'[s] = accepted[s]
      BY <2>5, AcceptRaises DEF ShareKept, Accept, TypeOK
    <3>5. \A i \in DOMAIN calls : calls[i].next = None
      <4>1. \A i \in DOMAIN calls : calls[i].next # None => calls[i].next \in Nat
        BY <2>0 DEF TypeOK, Call
      <4> QED BY <2>0, <3>1, <3>2, <4>1 DEF InSlot, Fits
    <3>6. \A i \in DOMAIN calls : Fits(calls[i])'
      BY <3>2, <3>3, <3>5 DEF InSlot, Fits
    <3> QED BY <2>0, <3>1, <3>2, <3>3, <3>4, <3>5, <3>6 DEF Orderly, InSlot
  <2>6. ASSUME NEW i \in CallIds, Write(i) PROVE Orderly'
    <3> DEFINE c == calls[i]
               d == calls'[i]
    <3>1. /\ Orderly /\ i = 1 /\ DOMAIN calls = {1} /\ DOMAIN calls' = {1}
          /\ c \in Call /\ ~c.done /\ d = [c EXCEPT !.done = TRUE]
          /\ rows' = Written(c)
          /\ UNCHANGED <<now, currentTimeSlot, acceptedCount, accepted>>
      BY <2>6 DEF Write, Orderly, TypeOK
    <3>2. InSlot /\ currentTimeSlot \in Slots
      BY <2>0, <3>1 DEF Orderly, NothingYet
    <3>3. Fits(c)
      BY <3>1, <3>2 DEF InSlot
    <3>4. /\ d.time = c.time /\ d.write = c.write /\ d.count = c.count
          /\ d.next = c.next /\ d.done
          /\ c.count \in Nat /\ c.write \in {"insert", "update"}
      BY <3>1 DEF Call
    <3> HIDE DEF c, d
    <3>5. /\ OneRowOf(rows', currentTimeSlot, c.count)
          /\ \A s \in Slots \ {currentTimeSlot} :
               /\ NoRow(rows, s) => NoRow(rows', s)
               /\ \A n \in Nat : OneRowOf(rows, s, n) => OneRowOf(rows', s, n)
      <4>1. /\ c.time = currentTimeSlot
            /\ c.write = "insert" => NoRow(rows, c.time)
            /\ c.write = "update" => OneRow(rows, c.time)
        BY <3>1, <3>3 DEF Fits
      <4> QED BY <3>1, <4>1, WriteExact
    <3>6. OneRow(rows', currentTimeSlot)
      BY <3>5 DEF OneRow, OneRowOf
    <3>7. TimeSlot' = TimeSlot
      BY <3>1 DEF TimeSlot
    <3>8. Fits(calls[1])'
      BY <3>1, <3>3, <3>4, <3>5, <3>6, <3>7 DEF Fits, d
    <3>9. \A s \in Slots : accepted[s] \in Nat
      BY DEF TypeOK
    <3>10. ASSUME NEW s \in Slots, s < currentTimeSlot
           PROVE  accepted[s] = 0 \/ OneRowOf(rows', s, accepted[s])
      BY <2>0, <3>2, <3>5, <3>9, <3>10 DEF InSlot
    <3>11. ASSUME NEW s \in Slots, s > currentTimeSlot
           PROVE  NoRow(rows', s) /\ (accepted[s] = 0 \/ d.next = s)
      BY <2>0, <3>1, <3>2, <3>4, <3>5, <3>11 DEF InSlot, c
    <3> QED BY <2>0, <3>1, <3>2, <3>7, <3>8, <3>10, <3>11 DEF Orderly, InSlot, d
  <2>7. ASSUME NEW i \in CallIds, Saved(i) PROVE Orderly'
    <3>1. /\ Orderly /\ i = 1 /\ DOMAIN calls = {1} /\ DOMAIN calls' = {}
          /\ calls[1] \in Call /\ calls[1].done /\ calls[1].next = None
          /\ UNCHANGED <<now, currentTimeSlot, acceptedCount, accepted, rows>>
      BY <2>7 DEF Saved, Without, Orderly, TypeOK
    <3>2. InSlot /\ currentTimeSlot \in Slots
      BY <2>0, <3>1 DEF Orderly, NothingYet
    <3>3. OneRow(rows, currentTimeSlot)
      BY <3>1, <3>2 DEF InSlot, Fits
    <3>4. TimeSlot' = TimeSlot
      BY <3>1 DEF TimeSlot
    <3> QED BY <2>0, <3>1, <3>2, <3>3, <3>4 DEF Orderly, InSlot
  <2>8. ASSUME NEW i \in CallIds, OpenSlot(i) PROVE Orderly'
    <3> DEFINE next == calls[1].next
    <3>1. /\ Orderly /\ i = 1 /\ DOMAIN calls = {1} /\ DOMAIN calls' = {1}
          /\ calls[1] \in Call /\ calls[1].done /\ next # None
          /\ currentTimeSlot' = next /\ acceptedCount' = 1
          /\ calls'[1] = NewCall("insert", next, 1, None)
          /\ UNCHANGED <<now, accepted, rows>>
      <4>1. Orderly /\ i = 1 /\ DOMAIN calls = {1} /\ calls[1] \in Call
        BY <2>8 DEF OpenSlot, Orderly, TypeOK
      <4>2. acceptedCount' = 1
        BY <2>8 DEF OpenSlot, FirstCount
      <4>3. calls' = [calls EXCEPT ![1] = NewCall("insert", next, 1, None)]
        BY <2>8, <4>1, <4>2 DEF OpenSlot
      <4>4. DOMAIN calls' = {1} /\ calls'[1] = NewCall("insert", next, 1, None)
        BY <4>1, <4>3
      <4> QED BY <2>8, <4>1, <4>2, <4>4 DEF OpenSlot
    <3>2. InSlot /\ currentTimeSlot \in Slots /\ next \in Slots
      BY <2>0, <3>1 DEF Orderly, NothingYet, Call
    <3>3. /\ currentTimeSlot < next /\ next <= TimeSlot /\ accepted[next] = 1
          /\ OneRowOf(rows, currentTimeSlot, acceptedCount)
      BY <3>1, <3>2 DEF InSlot, Fits
    <3>4. TimeSlot' = TimeSlot
      BY <3>1 DEF TimeSlot
    <3>5. NoRow(rows, next)
      BY <2>0, <3>2, <3>3 DEF InSlot
    <3>6. Fits(calls[1])'
      BY <3>1, <3>5 DEF Fits, NewCall
    <3>7. ASSUME NEW s \in Slots, s < next
          PROVE  accepted[s] = 0 \/ OneRowOf(rows, s, accepted[s])
      <4>1. CASE s < currentTimeSlot
        BY <3>2, <4>1 DEF InSlot
      <4>2. CASE s = currentTimeSlot
        BY <3>2, <3>3, <4>2 DEF InSlot
      <4>3. CASE s > currentTimeSlot
        BY <2>0, <3>1, <3>2, <3>7, <4>3 DEF InSlot
      <4> QED BY <2>0, <3>2, <4>1, <4>2, <4>3
    <3>8. ASSUME NEW s \in Slots, s > next
          PROVE  NoRow(rows, s) /\ accepted[s] = 0
      BY <2>0, <3>1, <3>2, <3>3, <3>8 DEF InSlot
    <3> HIDE DEF next
    <3> QED BY <2>0, <3>1, <3>2, <3>3, <3>4, <3>6, <3>7, <3>8 DEF Orderly, InSlot
  <2>9. ASSUME NEW i \in CallIds, CallFails(i) PROVE Orderly'
    BY <2>9 DEF CallFails
  <2>10. CASE UNCHANGED vars
    BY <2>10 DEF vars, Orderly, NothingYet, InSlot, Fits, TimeSlot
  <2> QED BY <2>1, <2>2, <2>3, <2>4, <2>5, <2>6, <2>7, <2>8, <2>9, <2>10 DEF Next
<1>3. TypeOK /\ IInv => ExactWithoutOverlap
  <2> SUFFICES ASSUME TypeOK, Orderly, NEW s \in Slots,
                      accepted[s] > 0, s < currentTimeSlot
               PROVE  \E k \in RowsOf(s) :
                        RowsOf(s) = {k} /\ rows[k].count = accepted[s]
    BY DEF ExactWithoutOverlap
  <2>1. currentTimeSlot # None
    BY DEF None, Slots
  <2>2. OneRowOf(rows, s, accepted[s])
    BY <2>1 DEF Orderly, InSlot
  <2> QED BY <2>2 DEF OneRowOf, RowsOf
<1> QED BY <1>1, <1>2, <1>3, LedgerTyped, PTL DEF Spec

-----------------------------------------------------------------------------
(***************************************************************************)
(* VarDiff: induction over naturals, by their order, and what it gives.    *)
(***************************************************************************)

(* Every set of naturals that is not empty has a least element.            *)
LEMMA LeastNatural ==
    ASSUME NEW T \in SUBSET Nat, T # {}
    PROVE  \E n \in T : \A m \in T : n <= m
<1> DEFINE R == {ss \in Nat \X Nat : ss[1] < ss[2]}
<1>1. IsWellFoundedOn(R, Nat)
  BY NatLessThanWellFounded DEF OpToRel
<1>2. PICK n \in T : \A m \in T : <<m, n>> \notin R
  <2> HIDE DEF R
  <2> QED BY <1>1, WFMin
<1>3. \A m \in T : ~ (m < n)
  BY <1>2
<1>4. \A m \in T : m \in Nat /\ n \in Nat /\ (~ (m < n) => n <= m)
  OBVIOUS
<1> QED BY <1>3, <1>4

(* Induction, for sets instead of predicates.                              *)
LEMMA Induction ==
    ASSUME NEW S, 0 \in S, \A n \in Nat : n \in S => n + 1 \in S
    PROVE  Nat \subseteq S
<1> DEFINE T == Nat \ S
<1> SUFFICES ASSUME T # {} PROVE FALSE
  OBVIOUS
<1>1. PICK n \in T : \A m \in T : n <= m
  <2> T \in SUBSET Nat
    OBVIOUS
  <2> HIDE DEF T
  <2> QED BY LeastNatural
<1>2. n - 1 \in Nat /\ ~ (n <= n - 1) /\ (n - 1) + 1 = n
  OBVIOUS
<1>3. n - 1 \in S
  BY <1>1, <1>2
<1> QED BY <1>2, <1>3

(* The recursive definition of a sum has a solution.                       *)
LEMMA SumExists ==
    ASSUME NEW v
    PROVE  \A n \in Nat : \E f :
             f = [i \in 0..n |-> IF i = 0 THEN 0 ELSE f[i - 1] + v[i]]
<1> DEFINE Solves(f, n) ==
             f = [i \in 0..n |-> IF i = 0 THEN 0 ELSE f[i - 1] + v[i]]
           S == {n \in Nat : \E f : Solves(f, n)}
<1>1. 0 \in S
  <2>1. Solves([i \in 0..0 |-> 0], 0)
    OBVIOUS
  <2> QED BY <2>1
<1>2. ASSUME NEW n \in Nat, n \in S
      PROVE  n + 1 \in S
  <2>1. PICK f : Solves(f, n)
    BY <1>2
  <2> DEFINE g == [i \in 0..(n + 1) |-> IF i = 0 THEN 0 ELSE f[i - 1] + v[i]]
  <2>2. \A i \in 0..n : g[i] = f[i]
    BY <2>1
  <2>3. \A i \in 0..(n + 1) : i # 0 => i - 1 \in 0..n
    OBVIOUS
  <2>4. Solves(g, n + 1)
    BY <2>2, <2>3
  <2>5. \E h : Solves(h, n + 1)
    <3> HIDE DEF g
    <3> QED BY <2>4
  <2>6. n + 1 \in Nat
    OBVIOUS
  <2> HIDE DEF Solves
  <2> QED BY <2>5, <2>6
<1> HIDE DEF S
<1>3. Nat \subseteq S
  BY <1>1, <1>2, Induction
<1> QED BY <1>3 DEF S

LEMMA SumBounds ==
    ASSUME NEW v, NEW n \in Nat, NEW b \in Nat,
           \A i \in 1..n : v[i] \in 0..b
    PROVE  SumTo(v, n) \in Nat /\ SumTo(v, n) <= n * b
<1> DEFINE f == CHOOSE f :
             f = [i \in 0..n |-> IF i = 0 THEN 0 ELSE f[i - 1] + v[i]]
           S == {k \in Nat : k <= n => f[k] \in Nat /\ f[k] <= k * b}
<1>1. SumTo(v, n) = f[n]
  BY DEF SumTo
<1>2. f = [i \in 0..n |-> IF i = 0 THEN 0 ELSE f[i - 1] + v[i]]
  BY SumExists
<1> HIDE DEF f
<1>3. 0 \in S
  BY <1>2
<1>4. ASSUME NEW k \in Nat, k \in S
      PROVE  k + 1 \in S
  <2> SUFFICES ASSUME k + 1 <= n
               PROVE  f[k + 1] \in Nat /\ f[k + 1] <= (k + 1) * b
    OBVIOUS
  <2>1. f[k] \in Nat /\ f[k] <= k * b /\ v[k + 1] \in 0..b
    BY <1>4
  <2>2. f[k + 1] = f[k] + v[k + 1]
    BY <1>2
  <2>3. (k + 1) * b = k * b + b
    OBVIOUS
  <2> QED BY <2>1, <2>2, <2>3
<1>5. Nat \subseteq S
  <2> HIDE DEF S
  <2> QED BY <1>3, <1>4, Induction
<1> QED BY <1>1, <1>5

-----------------------------------------------------------------------------
(***************************************************************************)
(* nearestPowerOfTwo.                                                      *)
(***************************************************************************)

LEMMA PowerStep ==
    /\ Power[0] = 1
    /\ \A i \in 1..30 : Power[i] = 2 * Power[i - 1]
<1> DEFINE Solves(f, n) ==
             f = [i \in 0..n |-> IF i = 0 THEN 1 ELSE 2 * f[i - 1]]
           S == {n \in Nat : \E f : Solves(f, n)}
<1>1. 0 \in S
  <2>1. Solves([i \in 0..0 |-> 1], 0)
    OBVIOUS
  <2> QED BY <2>1
<1>2. ASSUME NEW n \in Nat, n \in S
      PROVE  n + 1 \in S
  <2>1. PICK f : Solves(f, n)
    BY <1>2
  <2> DEFINE g == [i \in 0..(n + 1) |-> IF i = 0 THEN 1 ELSE 2 * f[i - 1]]
  <2>2. \A i \in 0..n : g[i] = f[i]
    BY <2>1
  <2>3. \A i \in 0..(n + 1) : i # 0 => i - 1 \in 0..n
    OBVIOUS
  <2>4. Solves(g, n + 1)
    BY <2>2, <2>3
  <2>5. \E h : Solves(h, n + 1)
    <3> HIDE DEF g
    <3> QED BY <2>4
  <2>6. n + 1 \in Nat
    OBVIOUS
  <2> HIDE DEF Solves
  <2> QED BY <2>5, <2>6
<1>3. \E f : Solves(f, 30)
  <2> HIDE DEF S
  <2>1. Nat \subseteq S
    BY <1>1, <1>2, Induction
  <2> QED BY <2>1 DEF S
<1>4. Solves(Power, 30)
  BY <1>3 DEF Power
<1> QED BY <1>4

(* The powers of two, from 1 to 2^30.                                      *)
LEMMA PowerValues ==
    /\ \A i \in 0..30 : Power[i] \in Nat \ {0}
    /\ \A i, j \in 0..30 : i < j => 2 * Power[i] <= Power[j]
<1>1. \A i \in 0..30 : Power[i] \in Nat \ {0}
  <2> DEFINE S == {i \in Nat : i <= 30 => Power[i] \in Nat \ {0}}
  <2>1. 0 \in S
    BY PowerStep
  <2>2. ASSUME NEW i \in Nat, i \in S
        PROVE  i + 1 \in S
    <3> SUFFICES ASSUME i + 1 <= 30
                 PROVE  Power[i + 1] \in Nat \ {0}
      OBVIOUS
    <3>1. Power[i] \in Nat \ {0} /\ Power[i + 1] = 2 * Power[i]
      BY <2>2, PowerStep
    <3> QED BY <3>1
  <2>3. Nat \subseteq S
    <3> HIDE DEF S
    <3> QED BY <2>1, <2>2, Induction
  <2> QED BY <2>3
<1>2. \A i, j \in 0..30 : i < j => 2 * Power[i] <= Power[j]
  <2> SUFFICES ASSUME NEW i \in 0..30
               PROVE  \A j \in 0..30 : i < j => 2 * Power[i] <= Power[j]
    OBVIOUS
  <2> DEFINE S == {d \in Nat : i + d + 1 <= 30 => 2 * Power[i] <= Power[i + d + 1]}
  <2>1. 0 \in S
    BY <1>1, PowerStep
  <2>2. ASSUME NEW d \in Nat, d \in S
        PROVE  d + 1 \in S
    <3> SUFFICES ASSUME i + (d + 1) + 1 <= 30
                 PROVE  2 * Power[i] <= Power[i + (d + 1) + 1]
      OBVIOUS
    <3>1. /\ 2 * Power[i] <= Power[i + d + 1]
          /\ Power[i] \in Nat /\ Power[i + d + 1] \in Nat
      BY <1>1, <2>2
    <3>2. Power[i + (d + 1) + 1] = 2 * Power[i + d + 1]
      BY PowerStep
    <3> QED BY <3>1, <3>2
  <2>3. Nat \subseteq S
    <3> HIDE DEF S
    <3> QED BY <2>1, <2>2, Induction
  <2>4. \A j \in 0..30 : i < j => j - i - 1 \in S
    <3> HIDE DEF S
    <3> QED BY <2>3
  <2>5. \A j \in 0..30 : i < j => i + (j - i - 1) + 1 = j
    OBVIOUS
  <2> QED BY <2>4, <2>5
<1> QED BY <1>1, <1>2

(* The highest bit of a number.                                            *)
LEMMA HighestBit ==
    ASSUME NEW n \in 1..MaxWord
    PROVE  \E m \in 0..30 : /\ Power[m] <= n /\ n < 2 * Power[m]
                            /\ m \in Bits(n) /\ Bits(n) \subseteq 0..m
<1> DEFINE T == {i \in 0..30 : n < 2 * Power[i]}
<1>1. 30 \in T
  BY PowerValues, WordAssumption, DiffAssumption
<1>2. PICK m \in T : \A i \in T : m <= i
  <2> T \in SUBSET Nat
    OBVIOUS
  <2> HIDE DEF T
  <2> QED BY <1>1, LeastNatural
<1>3. n < 2 * Power[m] /\ m \in 0..30 /\ Power[m] \in Nat \ {0}
  BY PowerValues
<1>4. Power[m] <= n
  <2>1. CASE m = 0
    BY <2>1, PowerStep
  <2>2. CASE m # 0
    <3>1. m - 1 \in 0..30 /\ ~ (m <= m - 1) /\ m \in 1..30
      BY <1>3, <2>2
    <3>2. ~ (n < 2 * Power[m - 1])
      BY <1>2, <3>1
    <3>3. Power[m] = 2 * Power[m - 1]
      BY <3>1, PowerStep
    <3> QED BY <1>3, <3>2, <3>3
  <2> QED BY <2>1, <2>2
<1>5. m \in Bits(n)
  <2>1. n \div Power[m] = 1
    BY <1>3, <1>4
  <2> QED BY <1>3, <2>1 DEF Bits
<1>6. ASSUME NEW i \in Bits(n)
      PROVE  i \in 0..m
  <2> SUFFICES ASSUME i > m
               PROVE  FALSE
    BY <1>3 DEF Bits
  <2>1. i \in 0..30 /\ (n \div Power[i]) % 2 = 1
    BY DEF Bits
  <2>2. Power[i] \in Nat \ {0} /\ 2 * Power[m] <= Power[i]
    BY <1>3, <2>1, PowerValues
  <2>3. n < Power[i]
    BY <1>3, <2>2
  <2>4. n \div Power[i] = 0
    BY <2>2, <2>3
  <2> QED BY <2>1, <2>4
<1> QED BY <1>3, <1>4, <1>5, <1>6

(* The bits are at most m, and the w bits up to m are set.                 *)
Fills(bits, m, w) ==
    /\ bits \subseteq 0..m
    /\ \A i \in 0..m : i > m - w => i \in bits

LEMMA SpreadDoubles ==
    ASSUME NEW m \in 0..30, NEW bits, NEW w \in Nat, Fills(bits, m, w)
    PROVE  Fills(Spread(bits, w), m, 2 * w)
<1>1. ASSUME NEW i \in Spread(bits, w)
      PROVE  i \in 0..m
  BY DEF Spread, ShiftRight, Fills
<1>2. ASSUME NEW i \in 0..m, i > m - 2 * w
      PROVE  i \in Spread(bits, w)
  <2>1. CASE i > m - w
    BY <2>1 DEF Spread, Fills
  <2>2. CASE ~ (i > m - w)
    <3>1. i + w \in 0..m /\ i + w > m - w /\ i \in 0..30
      BY <1>2, <2>2
    <3> QED BY <3>1 DEF Spread, ShiftRight, Fills
  <2> QED BY <2>1, <2>2
<1> QED BY <1>1, <1>2 DEF Fills

(* Every bit below the highest is set.                                     *)
LEMMA MaskIsFull ==
    ASSUME NEW m \in 0..30, NEW bits \in SUBSET (0..m), m \in bits
    PROVE  Mask(bits) = 0..m
<1> DEFINE a == Spread(bits, 1)
           b == Spread(a, 2)
           c == Spread(b, 4)
           d == Spread(c, 8)
           e == Spread(d, 16)
<1>0. Fills(bits, m, 1)
  BY DEF Fills
<1> HIDE DEF a, b, c, d, e
<1>1. Fills(a, m, 2)
  <2>1. Fills(a, m, 2 * 1)
    BY <1>0, SpreadDoubles DEF a
  <2> QED BY <2>1
<1>2. Fills(b, m, 4)
  <2>1. Fills(b, m, 2 * 2)
    BY <1>1, SpreadDoubles DEF b
  <2> QED BY <2>1
<1>3. Fills(c, m, 8)
  <2>1. Fills(c, m, 2 * 4)
    BY <1>2, SpreadDoubles DEF c
  <2> QED BY <2>1
<1>4. Fills(d, m, 16)
  <2>1. Fills(d, m, 2 * 8)
    BY <1>3, SpreadDoubles DEF d
  <2> QED BY <2>1
<1>5. Fills(e, m, 32)
  <2>1. Fills(e, m, 2 * 16)
    BY <1>4, SpreadDoubles DEF e
  <2> QED BY <2>1
<1>6. e = 0..m
  <2>1. \A i \in 0..m : i > m - 32
    OBVIOUS
  <2> QED BY <1>5, <2>1 DEF Fills
<1> QED BY <1>6 DEF Mask, a, b, c, d, e

(* The number whose bits up to m are set.                                  *)
LEMMA NumberOfMask ==
    ASSUME NEW m \in 0..30
    PROVE  Number(0..m) = 2 * Power[m] - 1
<1> DEFINE v == [i \in 1..31 |-> IF i - 1 \in 0..m THEN Power[i - 1] ELSE 0]
           f == CHOOSE f :
             f = [i \in 0..31 |-> IF i = 0 THEN 0 ELSE f[i - 1] + v[i]]
           S == {k \in Nat : k \in 1..31 =>
                    f[k] = IF k <= m THEN 2 * Power[k - 1] - 1
                                     ELSE 2 * Power[m] - 1}
<1>1. Number(0..m) = f[31]
  BY DEF Number, SumTo
<1>2. f = [i \in 0..31 |-> IF i = 0 THEN 0 ELSE f[i - 1] + v[i]]
  <2> HIDE DEF v
  <2> QED BY SumExists
<1> HIDE DEF f
<1>3. 0 \in S
  OBVIOUS
<1>4. ASSUME NEW k \in Nat, k \in S
      PROVE  k + 1 \in S
  <2> SUFFICES ASSUME k + 1 \in 1..31
               PROVE  f[k + 1] = IF k + 1 <= m THEN 2 * Power[(k + 1) - 1] - 1
                                               ELSE 2 * Power[m] - 1
    OBVIOUS
  <2>1. f[k + 1] = f[k] + v[k + 1] /\ k \in 0..30
    BY <1>2
  <2>2. v[k + 1] = IF k \in 0..m THEN Power[k] ELSE 0
    BY <2>1
  <2>3. Power[k] \in Nat /\ Power[m] \in Nat
    BY <2>1, PowerValues
  <2>4. CASE k = 0
    <3>1. f[k] = 0 /\ Power[k] = 1
      BY <1>2, <2>4, PowerStep
    <3> QED BY <2>1, <2>2, <2>4, <3>1
  <2>5. CASE k # 0
    <3>1. f[k] = IF k <= m THEN 2 * Power[k - 1] - 1 ELSE 2 * Power[m] - 1
      BY <1>4, <2>1, <2>5
    <3>2. Power[k] = 2 * Power[k - 1]
      BY <2>1, <2>5, PowerStep
    <3> HIDE DEF v
    <3>3. CASE k < m
      BY <2>1, <2>2, <2>3, <3>1, <3>2, <3>3
    <3>4. CASE k = m
      BY <2>1, <2>2, <2>3, <3>1, <3>2, <3>4
    <3>5. CASE k > m
      BY <2>1, <2>2, <2>3, <3>1, <3>5
    <3> QED BY <2>1, <3>3, <3>4, <3>5
  <2> QED BY <2>4, <2>5
<1>5. 31 \in S
  <2> HIDE DEF S
  <2> QED BY <1>3, <1>4, Induction
<1> QED BY <1>1, <1>5

LEMMA NumberOfNone == Number({}) = 0
<1> DEFINE v == [i \in 1..31 |-> IF i - 1 \in {} THEN Power[i - 1] ELSE 0]
<1>1. \A i \in 1..31 : v[i] \in 0..0
  OBVIOUS
<1>2. SumTo(v, 31) \in Nat /\ SumTo(v, 31) <= 31 * 0
  <2> HIDE DEF v
  <2> QED BY <1>1, SumBounds
<1> QED BY <1>2 DEF Number

(* The bit operations give the highest power of two in a number.           *)
THEOREM HighestPowerIsHighest ==
    ASSUME NEW n \in 1..MaxWord
    PROVE  /\ HighestPower[n] \in Nat
           /\ HighestPower[n] <= n
           /\ n < 2 * HighestPower[n]
<1>1. PICK m \in 0..30 : /\ Power[m] <= n /\ n < 2 * Power[m]
                         /\ m \in Bits(n) /\ Bits(n) \subseteq 0..m
  BY HighestBit
<1>2. Mask(Bits(n)) = 0..m
  BY <1>1, MaskIsFull
<1>3. HighestPower[n] = TakeHalf(0..m)
  BY <1>2, DiffAssumption DEF HighestPower
<1>4. Power[m] \in Nat
  BY PowerValues
<1>5. TakeHalf(0..m) = Power[m]
  <2>1. CASE m = 0
    <3>1. ShiftRight(0..m, 1) = {}
      BY <2>1 DEF ShiftRight
    <3>2. Number(0..m) = 1
      BY <2>1, NumberOfMask, PowerStep
    <3> QED BY <2>1, <3>1, <3>2, NumberOfNone, PowerStep DEF TakeHalf
  <2>2. CASE m # 0
    <3>1. m - 1 \in 0..30 /\ ShiftRight(0..m, 1) = 0..(m - 1)
      BY <2>2 DEF ShiftRight
    <3>2. Number(0..(m - 1)) = 2 * Power[m - 1] - 1
      BY <3>1, NumberOfMask
    <3>3. Power[m] = 2 * Power[m - 1]
      BY <2>2, PowerStep
    <3>4. Power[m - 1] \in Nat
      BY <3>1, PowerValues
    <3>5. Number(0..m) = 2 * Power[m] - 1
      BY NumberOfMask
    <3>6. TakeHalf(0..m) = (2 * Power[m] - 1) - (2 * Power[m - 1] - 1)
      BY <3>1, <3>2, <3>5 DEF TakeHalf
    <3> QED BY <1>4, <3>3, <3>4, <3>6
  <2> QED BY <2>1, <2>2
<1> QED BY <1>1, <1>3, <1>4, <1>5

-----------------------------------------------------------------------------
LEMMA ProductGrows ==
    ASSUME NEW a \in Nat, NEW b \in Nat, NEW c \in Nat, a <= b
    PROVE  a * c <= b * c /\ c * a <= c * b
OBVIOUS

(* The quotient of naturals.                                               *)
LEMMA QuotientBounds ==
    ASSUME NEW p \in Nat, NEW q \in Nat \ {0}
    PROVE  /\ p \div q \in Nat /\ p \div q <= p
           /\ (p \div q) * q <= p
           /\ p < (p \div q + 1) * q
OBVIOUS

LEMMA UnitsTyped == \A u \in Units : u \in Nat \ {0}
<1> SUFFICES ASSUME NEW u \in Units
             PROVE  u \in Nat \ {0}
  OBVIOUS
<1>1. u \in 1..One /\ One \in Nat
  BY DiffAssumption
<1> QED BY <1>1

(* The unit of a number is the largest that is not above it.               *)
LEMMA UnitIsLargest ==
    ASSUME NEW n \in Nat \ {0}
    PROVE  /\ UnitOf(n) \in Units /\ UnitOf(n) <= n
           /\ \A v \in Units : v <= n => v <= UnitOf(n)
<1> DEFINE T == {n - u : u \in {v \in Units : v <= n}}
<1>1. Units \subseteq Nat /\ 1 \in Units
  BY DiffAssumption
<1>2. T \in SUBSET Nat /\ n - 1 \in T
  BY <1>1
<1>3. PICK t \in T : \A s \in T : t <= s
  <2> HIDE DEF T
  <2> QED BY <1>2, LeastNatural
<1>4. PICK u \in Units : u <= n /\ t = n - u
  BY <1>3
<1>5. ASSUME NEW v \in Units, v <= n
      PROVE  v <= u
  <2>1. n - u <= n - v
    BY <1>3, <1>4, <1>5
  <2> QED BY <1>1, <2>1
<1>6. \E w \in Units : w <= n /\ \A v \in Units : v <= n => v <= w
  BY <1>4, <1>5
<1> QED BY <1>6 DEF UnitOf

(* In its unit, a number that has room in a word is one that is rounded.   *)
LEMMA FitsWord ==
    ASSUME NEW n \in Nat \ {0}, n < (MaxWord + 1) * One
    PROVE  n \div UnitOf(n) \in 1..MaxWord
<1> DEFINE u == UnitOf(n)
           k == n \div u
<1>1. /\ u \in Units /\ u <= n
      /\ \A v \in Units : v <= n => v <= u
  BY UnitIsLargest
<1>2. u \in Nat \ {0} /\ One \in Nat \ {0} /\ Scale \in Nat /\ MaxWord \in Nat
  BY <1>1, UnitsTyped, DiffAssumption
<1> HIDE DEF u
<1>3. k \in Nat /\ k * u <= n /\ n < (k + 1) * u
  BY <1>2, QuotientBounds
<1> HIDE DEF k
<1>4. k # 0
  BY <1>1, <1>2, <1>3
<1>5. k <= MaxWord
  <2> SUFFICES ASSUME k > MaxWord
               PROVE  FALSE
    BY <1>2, <1>3
  <2>1. (MaxWord + 1) * u <= k * u
    BY <1>2, <1>3, ProductGrows
  <2>2. (MaxWord + 1) * u = MaxWord * u + u
    BY <1>2
  <2>3. CASE u = One
    BY <1>2, <1>3, <2>1, <2>3
  <2>4. CASE u # One
    <3>1. u * Scale \in Units
      BY <1>1, <2>4, DiffAssumption
    <3>2. Scale * u <= MaxWord * u
      BY <1>2, ProductGrows, DiffAssumption
    <3>3. u * Scale <= n /\ Scale * u = u * Scale
      BY <1>2, <1>3, <2>1, <2>2, <3>2
    <3>4. u * Scale <= u
      BY <1>1, <3>1, <3>3
    <3>5. 2 * u <= Scale * u
      BY <1>2, ProductGrows, DiffAssumption
    <3> QED BY <1>2, <3>3, <3>4, <3>5
  <2> QED BY <2>3, <2>4
<1> QED BY <1>3, <1>4, <1>5 DEF k, u

(***************************************************************************)
(* For a number that has room in a word, nearestPowerOfTwo does not return *)
(* more than it is asked for unless that is below the lowest difficulty,   *)
(* and not half of it or less.                                             *)
(***************************************************************************)
THEOREM NearestPowerWithinTwo ==
    ASSUME NEW p \in Nat, NEW q \in Nat \ {0},
           p < Greater(MinDiff, (MaxWord + 1) * One) * q
    PROVE  /\ NearestPowerOfTwo(p, q) \in Nat
           /\ p < 2 * NearestPowerOfTwo(p, q) * q
           /\ p >= MinDiff * q => NearestPowerOfTwo(p, q) * q <= p
           /\ p < MinDiff * q => NearestPowerOfTwo(p, q) = MinDiff
<1> DEFINE r == NearestPowerOfTwo(p, q)
<1>1. MinDiff \in Nat \ {0} /\ MaxWord \in Nat /\ One \in Nat
  BY DiffAssumption
<1>2. CASE p < MinDiff * q
  <2>1. r = MinDiff
    BY <1>2 DEF NearestPowerOfTwo
  <2>2. MinDiff * q \in Nat /\ 2 * MinDiff * q = MinDiff * q + MinDiff * q
    BY <1>1
  <2> HIDE DEF r
  <2>3. p < 2 * r * q
    BY <1>2, <2>1, <2>2
  <2> QED BY <1>1, <1>2, <2>1, <2>3 DEF r
<1>3. CASE ~ (p < MinDiff * q)
  <2> DEFINE n == p \div q
             u == UnitOf(n)
             k == n \div u
             h == HighestPower[k]
  <2>1. n \in Nat /\ n <= p /\ n * q <= p /\ p < (n + 1) * q
    BY QuotientBounds
  <2>2. r = h * u
    BY <1>3 DEF NearestPowerOfTwo
  <2> HIDE DEF n, r
  <2>3. n # 0
    <3>1. 1 * q <= MinDiff * q
      BY <1>1, ProductGrows
    <3>2. n = 0 => p < q
      BY <2>1
    <3> QED BY <1>1, <1>3, <3>1, <3>2
  <2>4. k \in 1..MaxWord
    <3> DEFINE w == (MaxWord + 1) * One
    <3>1. w \in Nat /\ p < Greater(MinDiff, w) * q
      BY <1>1
    <3>2. n < w
      <4> HIDE DEF w
      <4> SUFFICES ASSUME w <= n PROVE FALSE
        BY <2>1, <3>1
      <4>1. Greater(MinDiff, w) = w
        BY <1>3, <3>1 DEF Greater
      <4>2. w * q <= n * q
        BY <2>1, <3>1, ProductGrows
      <4> QED BY <2>1, <3>1, <4>1, <4>2
    <3> QED BY <2>1, <2>3, <3>2, FitsWord
  <2>5. u \in Nat \ {0} /\ u <= n
    <3>1. u \in Units /\ u <= n
      BY <2>1, <2>3, UnitIsLargest
    <3> QED BY <3>1, UnitsTyped
  <2> HIDE DEF u
  <2>6. k * u <= n /\ n < (k + 1) * u
    BY <2>1, <2>5, QuotientBounds
  <2> HIDE DEF k
  <2>7. h \in Nat /\ h <= k /\ k < 2 * h
    BY <2>4, HighestPowerIsHighest
  <2> HIDE DEF h
  <2>8. r \in Nat /\ r <= n
    <3>1. h * u <= k * u
      BY <2>4, <2>5, <2>7, ProductGrows
    <3> QED BY <2>1, <2>2, <2>4, <2>5, <2>6, <2>7, <3>1
  <2>9. n + 1 <= 2 * r
    <3>1. (k + 1) * u <= (2 * h) * u
      BY <2>4, <2>5, <2>7, ProductGrows
    <3>2. (2 * h) * u = 2 * r
      BY <2>2, <2>5, <2>7
    <3> QED BY <2>1, <2>4, <2>5, <2>6, <2>8, <3>1, <3>2
  <2>10. r * q <= p
    <3>1. r * q <= n * q
      BY <2>1, <2>8, ProductGrows
    <3> QED BY <2>1, <2>8, <3>1
  <2>11. p < 2 * r * q
    <3>1. (n + 1) * q <= (2 * r) * q
      BY <2>1, <2>8, <2>9, ProductGrows
    <3> QED BY <2>1, <2>8, <3>1
  <2> QED BY <1>3, <2>8, <2>10, <2>11 DEF r
<1> QED BY <1>2, <1>3

-----------------------------------------------------------------------------
LEMMA ClampInRange ==
    ASSUME NEW value \in Nat
    PROVE  ClampDifficulty(value) \in MinDiff..MaxDiff
<1>1. MinDiff \in Nat /\ MaxDiff \in Nat /\ MinDiff <= MaxDiff
  BY DiffAssumption
<1> QED BY <1>1 DEF ClampDifficulty, Greater, Lesser

(* The work and the time of the cached shares.                             *)
LEMMA CacheBounds ==
    ASSUME DiffTypeOK
    PROVE  DiffTime \in Nat /\ TargetWork \in Nat
<1> DEFINE n == Len(submissionCache)
           g == [i \in Cached |-> IF i = 1 THEN 0 ELSE submissionCache[i].gap]
           d == [i \in Cached |-> submissionCache[i].difficulty]
<1>1. n \in Nat /\ n <= CacheSize + 1
      /\ \A i \in 1..n : submissionCache[i] \in Share
  BY DEF DiffTypeOK
<1>2. /\ MaxDiff \in Nat /\ MaxGap \in Nat /\ CacheSize \in Nat
      /\ TargetRate \in Nat /\ MinDiff \in Nat
  BY DiffAssumption
<1>3. DiffTime = SumTo(g, n) /\ TargetWork = SumTo(d, n) * TargetRate
  BY DEF DiffTime, TargetWork
<1>4. \A i \in 1..n : g[i] \in 0..MaxGap /\ d[i] \in 0..MaxDiff
  <2> SUFFICES ASSUME NEW i \in 1..n
               PROVE  g[i] \in 0..MaxGap /\ d[i] \in 0..MaxDiff
    OBVIOUS
  <2>1. i \in Cached
    BY DEF Cached
  <2>2. submissionCache[i].gap \in 0..MaxGap
        /\ submissionCache[i].difficulty \in MinDiff..MaxDiff
    BY <1>1 DEF Share
  <2> QED BY <1>2, <2>1, <2>2
<1> HIDE DEF n, g, d
<1>5. SumTo(g, n) \in Nat
  BY <1>1, <1>2, <1>4, SumBounds
<1>6. SumTo(d, n) \in Nat
  BY <1>1, <1>2, <1>4, SumBounds
<1> QED BY <1>2, <1>3, <1>5, <1>6

(* A number that does not overflow has a time, and keeps the bounds of     *)
(* NearestPowerWithinTwo; what comes out of one that does is a natural.    *)
LEMMA AskedTyped ==
    ASSUME DiffTypeOK
    PROVE  /\ AskedWork \in Nat /\ AskedTime \in Nat
           /\ ~Overflows =>
                 /\ AskedTime # 0
                 /\ AskedWork < Greater(MinDiff, (MaxWord + 1) * One) * AskedTime
<1>1. AskedWork \in Nat /\ AskedTime \in Nat
  <2>1. sessionDifficulty \in Nat
    BY DiffAssumption DEF DiffTypeOK
  <2> QED BY <2>1, CacheBounds DEF AskedWork, AskedTime
<1> DEFINE g == Greater(MinDiff, (MaxWord + 1) * One)
<1>2. g \in Nat
  <2>1. MinDiff \in Nat /\ (MaxWord + 1) * One \in Nat
    BY DiffAssumption
  <2> QED BY <2>1 DEF Greater
<1>3. ~Overflows => ~ (AskedWork >= g * AskedTime)
  BY DEF Overflows
<1> HIDE DEF g
<1>4. ~ (AskedWork >= g * AskedTime) =>
         AskedTime # 0 /\ AskedWork < g * AskedTime
  BY <1>1, <1>2
<1> QED BY <1>1, <1>3, <1>4 DEF g

LEMMA SuggestedAreNatural ==
    ASSUME DiffTypeOK, NEW target \in SuggestedDifficulties
    PROVE  target \in Nat
<1>1. CASE ~Overflows
  <2>1. target = NearestPowerOfTwo(AskedWork, AskedTime)
    BY <1>1 DEF SuggestedDifficulties
  <2>2. AskedTime \in Nat \ {0}
    BY <1>1, AskedTyped
  <2>3. NearestPowerOfTwo(AskedWork, AskedTime) \in Nat
    BY <1>1, <2>2, AskedTyped, NearestPowerWithinTwo
  <2> QED BY <2>1, <2>3
<1>2. CASE Overflows
  <2>1. target \in AnyPower
    BY <1>2 DEF SuggestedDifficulties
  <2>2. PICK n \in 1..MaxWord, u \in Units : target = HighestPower[n] * u
    BY <2>1 DEF AnyPower
  <2>3. HighestPower[n] \in Nat /\ u \in Nat
    BY HighestPowerIsHighest, UnitsTyped
  <2> QED BY <2>2, <2>3
<1> QED BY <1>1, <1>2

-----------------------------------------------------------------------------
LEMMA DiffInitTyped == DiffInit => DiffTypeOK
<1> SUFFICES ASSUME DiffInit PROVE DiffTypeOK
  OBVIOUS
<1>1. submissionCache \in Seq(Share) /\ Len(submissionCache) <= CacheSize + 1
  BY DiffAssumption DEF DiffInit
<1>2. sessionDifficulty \in MinDiff..MaxDiff /\ sends \in 0..MaxSends
      /\ sinceShare \in 0..MaxGap
  BY DiffAssumption DEF DiffInit
<1> QED BY <1>1, <1>2 DEF DiffInit, DiffTypeOK

LEMMA DiffStepTyped == DiffTypeOK /\ [DiffNext]_diffVars => DiffTypeOK'
<1> SUFFICES ASSUME DiffTypeOK, [DiffNext]_diffVars
             PROVE  DiffTypeOK'
  OBVIOUS
<1> USE DEF DiffTypeOK, toldVars, jobVars, miner, cacheVars
<1>1. CASE InitStratum
  <2>1. ClampDifficulty(CpuDiff) \in MinDiff..MaxDiff
    <3>1. CpuDiff \in Nat
      BY DiffAssumption
    <3> QED BY <3>1, ClampInRange
  <2> QED BY <1>1, <2>1 DEF InitStratum
<1>2. CASE Subscribe
  BY <1>2, DiffAssumption DEF Subscribe
<1>3. CASE NewTemplate
  BY <1>3, DiffAssumption DEF NewTemplate
<1>4. CASE SendJob
  <2>1. sends' \in 0..MaxSends
    BY <1>4, DiffAssumption DEF SendJob
  <2> QED BY <1>4, <2>1 DEF SendJob
<1>5. ASSUME NEW value \in Suggested, Suggest(value)
      PROVE  DiffTypeOK'
  <2>1. [value |-> value, stage |-> "validate"] \in Suggestion
    BY DEF Suggestion
  <2> QED BY <1>5, <2>1 DEF Suggest
<1>6. ASSUME NEW s \in suggestions, TakeSuggestion(s)
      PROVE  DiffTypeOK'
  <2>1. s \in Suggestion /\ s.value \in Nat
    <3>1. s \in Suggestion
      OBVIOUS
    <3>2. s.value \in Suggested
      BY <3>1 DEF Suggestion
    <3>3. Suggested \subseteq Nat
      BY DiffAssumption
    <3> QED BY <3>1, <3>2, <3>3
  <2>2. ClampDifficulty(s.value) \in MinDiff..MaxDiff
    BY <2>1, ClampInRange
  <2>3. [s EXCEPT !.stage = "write"] \in Suggestion
    BY <2>1 DEF Suggestion
  <2>4. suggestions' \subseteq Suggestion
    BY <1>6, <2>3 DEF TakeSuggestion
  <2>5. suggested' \in BOOLEAN /\ late' \in BOOLEAN /\ silent' \in BOOLEAN
    BY <1>6 DEF TakeSuggestion
  <2> QED BY <1>6, <2>2, <2>4, <2>5 DEF TakeSuggestion
<1>7. ASSUME NEW s \in suggestions, SuggestionAnswered(s)
      PROVE  DiffTypeOK'
  BY <1>7 DEF SuggestionAnswered
<1>8. CASE AddShares
  <2> DEFINE share == [difficulty |-> sessionDifficulty, gap |-> sinceShare]
             kept  == IF Len(submissionCache) > CacheSize
                      THEN Tail(submissionCache) ELSE submissionCache
  <2>1. share \in Share
    BY DEF Share
  <2>2. kept \in Seq(Share) /\ Len(kept) <= CacheSize
    BY DiffAssumption
  <2> HIDE DEF share, kept
  <2>3. Append(kept, share) \in Seq(Share) /\ Len(Append(kept, share)) <= CacheSize + 1
    BY <2>1, <2>2, DiffAssumption
  <2>4. submissionCache' = Append(kept, share) /\ sinceShare' = 0
    BY <1>8 DEF AddShares, share, kept
  <2> QED BY <1>8, <2>3, <2>4, DiffAssumption DEF AddShares
<1>9. CASE TimePasses
  <2>1. sinceShare' \in 0..MaxGap
    BY <1>9, DiffAssumption DEF TimePasses, Lesser
  <2>2. overMinute' \in BOOLEAN
    BY <1>9 DEF TimePasses
  <2> QED BY <1>9, <2>1, <2>2 DEF TimePasses
<1>10. CASE CheckDifficulty
  <2>1. PICK target \in SuggestedDifficulties :
          sessionDifficulty' = ClampDifficulty(target)
    BY <1>10 DEF CheckDifficulty
  <2>2. sessionDifficulty' \in MinDiff..MaxDiff
    BY <2>1, SuggestedAreNatural, ClampInRange
  <2>3. sends' \in 0..MaxSends
    BY <1>10, DiffAssumption DEF CheckDifficulty, OneMoreJob
  <2> QED BY <1>10, <2>2, <2>3 DEF CheckDifficulty
<1>11. CASE CheckCrashes
  BY <1>11 DEF CheckCrashes
<1>12. CASE UNCHANGED diffVars
  BY <1>12 DEF diffVars
<1> QED BY <1>1, <1>2, <1>3, <1>4, <1>5, <1>6, <1>7, <1>8, <1>9, <1>10, <1>11,
           <1>12 DEF DiffNext

(* Every reachable state of a session's difficulty is well typed.          *)
THEOREM DifficultyTyped == DiffSpec => []DiffTypeOK
BY DiffInitTyped, DiffStepTyped, PTL DEF DiffSpec

-----------------------------------------------------------------------------
(***************************************************************************)
(* The inductive invariant of JobFollowsDifficulty.  Before the start no   *)
(* job is sent, and what was told is a suggestion that was taken; from the *)
(* start on the miner was told the session's difficulty, unless silent;    *)
(* and when no job is being sent, the last one went out after that, unless *)
(* late.                                                                   *)
(***************************************************************************)
ToldSound ==
    /\ phase # "up" => jobDifficulty = 0 /\ sends = 0
    /\ phase = "new" =>
          ~silent /\ told = IF suggested THEN sessionDifficulty ELSE 0
    /\ phase # "new" /\ ~silent => told = sessionDifficulty
    /\ sends = 0 /\ ~late /\ jobDifficulty # 0 => jobDifficulty = told

LEMMA InitToldSound == DiffInit => ToldSound
BY DEF DiffInit, ToldSound

LEMMA StepToldSound ==
    DiffTypeOK /\ ToldSound /\ [DiffNext]_diffVars => ToldSound'
<1> SUFFICES ASSUME DiffTypeOK, ToldSound, [DiffNext]_diffVars
             PROVE  ToldSound'
  OBVIOUS
<1> USE DEF ToldSound, toldVars, jobVars, miner, cacheVars
<1>1. CASE InitStratum
  BY <1>1 DEF InitStratum
<1>2. CASE Subscribe
  BY <1>2 DEF Subscribe
<1>3. CASE NewTemplate
  <2>1. sends' # 0
    BY <1>3 DEF NewTemplate, DiffTypeOK
  <2> QED BY <1>3, <2>1 DEF NewTemplate
<1>4. CASE SendJob
  BY <1>4 DEF SendJob, DiffTypeOK
<1>5. ASSUME NEW value \in Suggested, Suggest(value)
      PROVE  ToldSound'
  BY <1>5 DEF Suggest
<1>6. ASSUME NEW s \in suggestions, TakeSuggestion(s)
      PROVE  ToldSound'
  BY <1>6 DEF TakeSuggestion
<1>7. ASSUME NEW s \in suggestions, SuggestionAnswered(s)
      PROVE  ToldSound'
  BY <1>7 DEF SuggestionAnswered
<1>8. CASE AddShares
  BY <1>8 DEF AddShares
<1>9. CASE TimePasses
  BY <1>9 DEF TimePasses
<1>10. CASE CheckDifficulty
  <2>1. sends' # 0 /\ phase = "up"
    BY <1>10 DEF CheckDifficulty, CanCheck, OneMoreJob, DiffTypeOK
  <2> QED BY <1>10, <2>1 DEF CheckDifficulty
<1>11. CASE CheckCrashes
  BY <1>11 DEF CheckCrashes
<1>12. CASE UNCHANGED diffVars
  BY <1>12 DEF diffVars
<1> QED BY <1>1, <1>2, <1>3, <1>4, <1>5, <1>6, <1>7, <1>8, <1>9, <1>10, <1>11,
           <1>12 DEF DiffNext

(***************************************************************************)
(* Once the jobs being sent are sent, a miner works at the difficulty its  *)
(* shares are judged by, but for the two exceptions late and silent.       *)
(***************************************************************************)
THEOREM JobFollowsDifficultyAlways == DiffSpec => []JobFollowsDifficulty
<1>1. DiffTypeOK /\ ToldSound => JobFollowsDifficulty
  BY DEF DiffTypeOK, ToldSound, JobFollowsDifficulty
<1>2. DiffSpec => []ToldSound
  BY DifficultyTyped, InitToldSound, StepToldSound, PTL DEF DiffSpec
<1> QED BY <1>1, <1>2, DifficultyTyped, PTL

-----------------------------------------------------------------------------
(* A step that changes the difficulty and sends a job for it is a check.   *)
LEMMA OnlyChecksChange ==
    ASSUME DiffTypeOK, [DiffNext]_diffVars, sends' = sends + 1,
           sessionDifficulty' # sessionDifficulty
    PROVE  CheckDifficulty
<1> USE DEF toldVars, jobVars, miner, cacheVars
<1>1. sends \in Nat
  BY DEF DiffTypeOK
<1>2. sends' # sends
  BY <1>1
<1>3. ~ InitStratum
  BY <1>2 DEF InitStratum
<1>4. \A s \in suggestions : ~ TakeSuggestion(s)
  BY <1>2 DEF TakeSuggestion
<1>5. ~ UNCHANGED diffVars
  BY <1>2 DEF diffVars
<1> QED BY <1>3, <1>4, <1>5 DEF DiffNext, Subscribe, NewTemplate, SendJob, Suggest,
           SuggestionAnswered, AddShares, TimePasses, CheckCrashes

(***************************************************************************)
(* A change that follows the rate, where the number asked for has room in  *)
(* a word, loses no more than a factor of two to the rounding, and else    *)
(* ends at the nearer end of the range.                                    *)
(***************************************************************************)
THEOREM FollowsRateAlways == DiffSpec => FollowsRate
<1> DEFINE Follows ==
             \/ /\ sessionDifficulty' * DiffTime <= TargetWork
                /\ TargetWork < 2 * sessionDifficulty' * DiffTime
             \/ /\ sessionDifficulty' = MinDiff
                /\ TargetWork < 2 * MinDiff * DiffTime
             \/ /\ sessionDifficulty' = MaxDiff
                /\ MaxDiff * DiffTime <= TargetWork
<1>1. ASSUME DiffTypeOK, [DiffNext]_diffVars, ChecksRate
      PROVE  Follows
  <2> DEFINE r == NearestPowerOfTwo(TargetWork, DiffTime)
  <2>1. CheckDifficulty /\ ~HasFewShares /\ ~Overflows
    BY <1>1, OnlyChecksChange DEF ChecksRate
  <2>2. /\ DiffTime \in Nat \ {0} /\ TargetWork \in Nat
        /\ TargetWork < Greater(MinDiff, (MaxWord + 1) * One) * DiffTime
    <3>1. AskedWork = TargetWork /\ AskedTime = DiffTime
      BY <2>1 DEF AskedWork, AskedTime
    <3> QED BY <1>1, <2>1, <3>1, AskedTyped
  <2>3. sessionDifficulty' = ClampDifficulty(r)
    <3>1. SuggestedDifficulties = {r}
      BY <2>1 DEF SuggestedDifficulties, AskedWork, AskedTime
    <3>2. PICK target \in SuggestedDifficulties :
            sessionDifficulty' = ClampDifficulty(target)
      BY <2>1 DEF CheckDifficulty
    <3> QED BY <3>1, <3>2
  <2>4. /\ r \in Nat
        /\ TargetWork < 2 * r * DiffTime
        /\ TargetWork >= MinDiff * DiffTime => r * DiffTime <= TargetWork
        /\ TargetWork < MinDiff * DiffTime => r = MinDiff
    BY <2>2, NearestPowerWithinTwo
  <2>5. MinDiff \in Nat /\ MaxDiff \in Nat /\ MinDiff <= MaxDiff
    BY DiffAssumption
  <2> HIDE DEF r
  <2>6. CASE r < MinDiff
    <3>1. sessionDifficulty' = MinDiff
      BY <2>3, <2>4, <2>5, <2>6 DEF ClampDifficulty, Greater, Lesser
    <3>2. (2 * r) * DiffTime <= (2 * MinDiff) * DiffTime
      BY <2>2, <2>4, <2>5, <2>6, ProductGrows
    <3>3. TargetWork < 2 * MinDiff * DiffTime
      BY <2>2, <2>4, <2>5, <3>2
    <3> QED BY <3>1, <3>3
  <2>7. CASE r > MaxDiff
    <3>1. sessionDifficulty' = MaxDiff
      BY <2>3, <2>4, <2>5, <2>7 DEF ClampDifficulty, Greater, Lesser
    <3>2. r # MinDiff
      BY <2>4, <2>5, <2>7
    <3>3. r * DiffTime <= TargetWork
      <4>1. MinDiff * DiffTime \in Nat
        BY <2>2, <2>5
      <4> QED BY <2>2, <2>4, <3>2, <4>1
    <3>4. MaxDiff * DiffTime <= r * DiffTime
      BY <2>2, <2>4, <2>5, <2>7, ProductGrows
    <3>5. MaxDiff * DiffTime <= TargetWork
      BY <2>2, <2>4, <2>5, <3>3, <3>4
    <3> QED BY <3>1, <3>5
  <2>8. CASE MinDiff <= r /\ r <= MaxDiff
    <3>1. sessionDifficulty' = r
      BY <2>3, <2>4, <2>5, <2>8 DEF ClampDifficulty, Greater, Lesser
    <3>2. CASE TargetWork < MinDiff * DiffTime
      <4>1. r = MinDiff
        BY <2>4, <3>2
      <4> QED BY <2>4, <3>1, <4>1
    <3>3. CASE ~ (TargetWork < MinDiff * DiffTime)
      <4>1. r * DiffTime <= TargetWork
        <5>1. MinDiff * DiffTime \in Nat
          BY <2>2, <2>5
        <5> QED BY <2>2, <2>4, <3>3, <5>1
      <4> QED BY <2>4, <3>1, <4>1
    <3> QED BY <3>2, <3>3
  <2> QED BY <2>4, <2>5, <2>6, <2>7, <2>8
<1>2. DiffTypeOK /\ [DiffNext]_diffVars => [ChecksRate => Follows]_diffVars
  BY <1>1
<1> QED BY <1>2, DifficultyTyped, PTL DEF DiffSpec, FollowsRate

-----------------------------------------------------------------------------
(***************************************************************************)
(* As long as the cache holds too few shares for a rate, a check never     *)
(* raises the difficulty, and any check that changes it lowers it, where a *)
(* sixth of the difficulty has room in a word: a miner without shares      *)
(* cannot be driven up and down.  With fairness this ends at the lowest    *)
(* difficulty (SlowMinerReachesMinimum).                                   *)
(***************************************************************************)
SlowChecksLower ==
    [][HasFewShares /\ ~Overflows /\ sends' = sends + 1
         /\ sessionDifficulty' # sessionDifficulty =>
            sessionDifficulty' < sessionDifficulty]_diffVars

THEOREM SlowChecksLowerAlways == DiffSpec => SlowChecksLower
<1> DEFINE Lowers ==
             HasFewShares /\ ~Overflows /\ sends' = sends + 1
               /\ sessionDifficulty' # sessionDifficulty =>
                  sessionDifficulty' < sessionDifficulty
<1>1. ASSUME DiffTypeOK, [DiffNext]_diffVars, HasFewShares, ~Overflows,
             sends' = sends + 1, sessionDifficulty' # sessionDifficulty
      PROVE  sessionDifficulty' < sessionDifficulty
  <2> DEFINE r == NearestPowerOfTwo(sessionDifficulty, 6)
  <2>1. CheckDifficulty
    BY <1>1, OnlyChecksChange
  <2>2. sessionDifficulty' = ClampDifficulty(r)
    <3>1. SuggestedDifficulties = {r}
      BY <1>1 DEF SuggestedDifficulties, AskedWork, AskedTime
    <3>2. PICK target \in SuggestedDifficulties :
            sessionDifficulty' = ClampDifficulty(target)
      BY <2>1 DEF CheckDifficulty
    <3> QED BY <3>1, <3>2
  <2>3. /\ MinDiff \in Nat /\ MaxDiff \in Nat
        /\ sessionDifficulty \in MinDiff..MaxDiff
    BY <1>1, DiffAssumption DEF DiffTypeOK
  <2>4. /\ r \in Nat
        /\ sessionDifficulty >= MinDiff * 6 => r * 6 <= sessionDifficulty
        /\ sessionDifficulty < MinDiff * 6 => r = MinDiff
    <3>1. AskedWork = sessionDifficulty /\ AskedTime = 6
      BY <1>1 DEF AskedWork, AskedTime
    <3>2. sessionDifficulty \in Nat
          /\ sessionDifficulty < Greater(MinDiff, (MaxWord + 1) * One) * 6
      BY <1>1, <3>1, AskedTyped
    <3> QED BY <3>2, NearestPowerWithinTwo
  <2> HIDE DEF r
  <2>5. r <= sessionDifficulty
    BY <2>3, <2>4
  <2>6. sessionDifficulty' <= sessionDifficulty
    BY <2>2, <2>3, <2>4, <2>5 DEF ClampDifficulty, Greater, Lesser
  <2>7. sessionDifficulty' \in Int
    BY <2>2, <2>3, <2>4 DEF ClampDifficulty, Greater, Lesser
  <2> QED BY <1>1, <2>3, <2>6, <2>7
<1>2. DiffTypeOK /\ [DiffNext]_diffVars => [Lowers]_diffVars
  BY <1>1
<1> QED BY <1>2, DifficultyTyped, PTL DEF DiffSpec, SlowChecksLower
=============================================================================
