--------------------------- MODULE MiningJobProofs ---------------------------
(***************************************************************************)
(* Safety of MiningJob for all settings, rewards, identifiers, extranonces *)
(* and numbers of submissions.                                             *)
(***************************************************************************)
EXTENDS MiningJob, SequenceTheorems, TLAPS

PushOf(c) == Bytes("push", 1) \o Bytes("height", c.height)

Push == PushOf(config)

\* What a job of the session's miner relies on while every submission sends
\* four bytes: the shared script is the head that was sent and eight bytes.
ScriptIntact ==
    coinbase # NoTx /\ offWidth = 0 =>
        /\ Len(coinbase.script) >= 8
        /\ Head8(coinbase.script) = parts.head
        /\ Len(coinbase.script) = parts.length
        /\ Len(Push) <= Len(parts.head)
        /\ SubSeq(parts.head, 1, Len(Push)) = Push

\* The rest of the coinbase is never rewritten.
RestIntact ==
    coinbase # NoTx => /\ parts.outs = coinbase.outs
                       /\ parts.seal = coinbase.seal

\* A signed script is its own rewriting.
SealIntact ==
    locked /\ coinbase # NoTx =>
        /\ coinbase.script = parts.seal
        /\ parts.seal = Head8(parts.seal) \o Bytes("session", 4)
                            \o Bytes(LockedValue, Announced)

CallsIntact == \A c \in calls : c.block.data = c.block.root

\* Nothing is hashed before the job is sent.
HashedLater == coinbase = NoTx => hashed = NoHeader

JobInv ==
    /\ TypeOK /\ PayoutExact /\ ScriptIntact /\ RestIntact /\ SealIntact
    /\ CallsIntact /\ HashedLater
    /\ HashedAsMined /\ BlockAsJudged /\ SignatureStands

-----------------------------------------------------------------------------
(* Scripts.                                                                *)
LEMMA BytesTyped ==
    ASSUME NEW what \in Owners, NEW n \in Nat
    PROVE  Bytes(what, n) \in Seq(Byte) /\ Len(Bytes(what, n)) = n
<1>1. \A i \in 1..n : <<what, i>> \in Byte
  BY DEF Byte
<1> HIDE DEF Byte
<1> DEFINE b == [i \in 1..n |-> <<what, i>>]
<1>2. b \in [1..n -> Byte]
  BY <1>1
<1>3. b \in Seq(Byte) /\ Len(b) = n
  <2> HIDE DEF b
  <2> QED BY <1>2
<1> QED BY <1>3 DEF Bytes

LEMMA Head8Typed ==
    ASSUME NEW S, NEW s \in Seq(S)
    PROVE  /\ Head8(s) \in Seq(S)
           /\ Len(s) >= 8 => Len(Head8(s)) = Len(s) - 8
<1> DEFINE n == Len(s) - 8
<1>1. Len(s) \in Nat /\ \A i \in 1..Len(s) : s[i] \in S
  OBVIOUS
<1>2. 1 \in Int /\ n \in Int /\ \A i \in 1..n : s[i] \in S
  BY <1>1
<1> HIDE DEF n
<1>3. /\ SubSeq(s, 1, n) \in Seq(S)
      /\ Len(SubSeq(s, 1, n)) = IF 1 <= n THEN n - 1 + 1 ELSE 0
  BY <1>2, SubSeqProperties
<1>4. Head8(s) = SubSeq(s, 1, n)
  BY DEF Head8, n
<1>5. n = Len(s) - 8
  BY DEF n
<1> QED BY <1>1, <1>3, <1>4, <1>5

LEMMA ConcatLength ==
    ASSUME NEW S, NEW s \in Seq(S), NEW t \in Seq(S)
    PROVE  Len(s \o t) = Len(s) + Len(t)
OBVIOUS

(* What is appended after the head comes off again.                        *)
LEMMA ConcatTyped ==
    ASSUME NEW S, NEW s \in Seq(S), NEW t \in Seq(S)
    PROVE  s \o t \in Seq(S)
OBVIOUS

LEMMA Associated ==
    \A s, t, u \in Seq(Byte) : (s \o t) \o u = s \o (t \o u)
BY ConcatAssociative

LEMMA Head8OfConcat ==
    ASSUME NEW S, NEW s \in Seq(S), NEW t \in Seq(S), Len(t) = 8
    PROVE  Head8(s \o t) = s
<1>1. Len(s) \in Nat /\ Len(s \o t) = Len(s) + 8
  <2>1. Len(s \o t) = Len(s) + Len(t)
    BY ConcatLength
  <2> QED BY <2>1
<1>2. Head8(s \o t) = SubSeq(s \o t, 1, Len(s))
  BY <1>1 DEF Head8
<1>3. CASE Len(s) = 0
  <2>1. s = <<>>
    BY <1>3, EmptySeq
  <2>2. SubSeq(s \o t, 1, 0) = <<>>
    BY SubSeqEmpty
  <2> QED BY <1>2, <1>3, <2>1, <2>2
<1>4. CASE Len(s) # 0
  <2>1. 1 \in 1..Len(s) /\ Len(s) \in 1..Len(s)
    BY <1>1, <1>4
  <2>2. SubSeq(s \o t, 1, Len(s)) = SubSeq(s, 1, Len(s))
    BY <2>1, SubSeqOfConcat1
  <2> QED BY <1>2, <2>2, SubSeqFull
<1> QED BY <1>3, <1>4

(* One rewriting of a script.                                              *)
LEMMA Rewritten ==
    ASSUME NEW tx \in Coinbase, NEW value \in Values, NEW width \in Nat
    PROVE  /\ CopyAndUpdate(tx, value, width) \in Coinbase
           /\ CopyAndUpdate(tx, value, width).outs = tx.outs
           /\ CopyAndUpdate(tx, value, width).seal = tx.seal
           /\ CopyAndUpdate(tx, value, width).script
                = Head8(tx.script) \o Bytes("session", 4) \o Bytes(value, width)
           /\ width = 4 =>
                Head8(CopyAndUpdate(tx, value, width).script) = Head8(tx.script)
           /\ width = 4 => Len(CopyAndUpdate(tx, value, width).script)
                              = Len(Head8(tx.script)) + 8
<1> DEFINE head == Head8(tx.script)
           session == Bytes("session", 4)
           choice == Bytes(value, width)
           new == CopyAndUpdate(tx, value, width)
<1>1. tx.script \in Seq(Byte)
  BY DEF Coinbase
<1>2. head \in Seq(Byte)
  BY <1>1, Head8Typed
<1>3. session \in Seq(Byte) /\ Len(session) = 4
  BY BytesTyped DEF Owners
<1>4. choice \in Seq(Byte) /\ Len(choice) = width
  BY BytesTyped DEF Owners
<1>5. new.script = head \o session \o choice
  BY DEF CopyAndUpdate, Coinbase
<1> HIDE DEF head, session, choice
<1>6. new.outs = tx.outs /\ new.seal = tx.seal
  BY DEF CopyAndUpdate, Coinbase
<1>7. new = [script |-> head \o session \o choice, outs |-> tx.outs,
             seal |-> tx.seal]
  <2>1. tx = [script |-> tx.script, outs |-> tx.outs, seal |-> tx.seal]
    BY DEF Coinbase
  <2>2. new = [tx EXCEPT !.script = head \o session \o choice]
    BY DEF CopyAndUpdate, head, session, choice
  <2> HIDE DEF new
  <2> QED BY <2>1, <2>2
<1>8. head \o session \o choice \in Seq(Byte)
  BY <1>2, <1>3, <1>4
<1>9. new \in Coinbase
  BY <1>7, <1>8 DEF Coinbase
<1>10. head \o session \o choice = head \o (session \o choice)
  BY <1>2, <1>3, <1>4
<1>11. session \o choice \in Seq(Byte)
       /\ (width = 4 => Len(session \o choice) = 8)
  BY <1>3, <1>4
<1>12. width = 4 => Head8(new.script) = head
  BY <1>2, <1>5, <1>10, <1>11, Head8OfConcat
<1>13. width = 4 => Len(new.script) = Len(head) + 8
  BY <1>2, <1>5, <1>10, <1>11
<1> HIDE DEF new
<1> QED BY <1>5, <1>6, <1>9, <1>12, <1>13 DEF head, session, choice, new

-----------------------------------------------------------------------------
(* The outputs of a coinbase.                                              *)
Bounded(a, percent, reward) ==
    /\ a \in Nat /\ 1000 * a <= percent * reward
    /\ percent * reward <= 1000 * (a + 1)

LEMMA AmountBounds ==
    ASSUME NEW percent \in Nat, NEW reward \in Nat,
           NEW a \in Amounts(percent, reward)
    PROVE  Bounded(a, percent, reward)
<1> DEFINE exact == percent * reward
<1>1. exact \in Nat
  OBVIOUS
<1>2. \/ a = exact \div 1000
      \/ exact % 1000 = 0 /\ exact > 0 /\ a = exact \div 1000 - 1
  BY DEF Amounts
<1> HIDE DEF exact
<1>3. /\ exact \div 1000 \in Nat /\ exact % 1000 \in 0..999
      /\ exact = 1000 * (exact \div 1000) + (exact % 1000)
  BY <1>1
<1> DEFINE q == exact \div 1000
           m == exact % 1000
<1>4. \/ a = q
      \/ m = 0 /\ exact > 0 /\ a = q - 1
  BY <1>2
<1>5. q \in Nat /\ m \in 0..999 /\ exact = 1000 * q + m
  BY <1>3
<1> HIDE DEF q, m
<1>6. a \in Nat /\ 1000 * a <= exact /\ exact <= 1000 * (a + 1)
  BY <1>1, <1>4, <1>5
<1> QED BY <1>6 DEF exact, Bounded

LEMMA DevFeeTyped ==
    ASSUME NEW c \in Config
    PROVE  /\ DevFee(c) \in 0..999
           /\ c.fee = NoFee => DevFee(c) = 0
           /\ c.reward \in Nat
<1>1. c.fee \in Fees \cup {NoFee} /\ c.reward \in Rewards
  BY DEF Config
<1>2. Fees \subseteq Nat /\ Rewards \subseteq Nat
  BY JobAssumption
<1>3. c.reward \in Nat
  BY <1>1, <1>2
<1>4. CASE c.fee = NoFee
  BY <1>3, <1>4 DEF DevFee
<1>5. CASE c.fee \in Nat
  <2>1. c.fee # NoFee
    BY <1>5 DEF NoFee
  <2>2. DevFee(c) = IF 0 < c.fee /\ c.fee < 1000 THEN c.fee ELSE 15
    BY <2>1 DEF DevFee
  <2>3. \A f \in Nat : (IF 0 < f /\ f < 1000 THEN f ELSE 15) \in 0..999
    BY SMTT(30)
  <2>4. DevFee(c) \in 0..999
    BY <1>5, <2>2, <2>3, SMTT(30)
  <2> QED BY <1>3, <2>1, <2>4, SMTT(30)
<1> QED BY <1>1, <1>2, <1>4, <1>5

LEMMA SharesOfReward ==
    ASSUME NEW f \in Nat, NEW g \in Nat, f + g = 1000, NEW r \in Nat,
           NEW dev \in Amounts(f, r), NEW miner \in Amounts(g, r)
    PROVE  /\ dev \in Nat /\ miner \in Nat /\ dev + miner <= r
           /\ 1000 * (miner + 1) >= g * r
           /\ f = 0 => dev = 0
<1>3. f * r \in Nat /\ g * r = 1000 * r - f * r /\ (f = 0 => f * r = 0)
  <2>1. g = 1000 - f
    OBVIOUS
  <2> QED BY <2>1
<1>4. Bounded(dev, f, r)
  BY AmountBounds
<1>5. Bounded(miner, g, r)
  BY AmountBounds
<1> DEFINE fr == f * r
           gr == g * r
<1>6. dev \in Nat /\ 1000 * dev <= fr
  BY <1>4 DEF Bounded
<1>7. miner \in Nat /\ 1000 * miner <= gr /\ gr <= 1000 * (miner + 1)
  BY <1>5 DEF Bounded
<1>8. fr \in Nat /\ gr = 1000 * r - fr /\ (f = 0 => fr = 0)
  BY <1>3
<1>9. 1000 * (miner + 1) >= g * r
  BY <1>7
<1> HIDE DEF fr, gr
<1>10. dev + miner <= r /\ (f = 0 => dev = 0)
  BY <1>6, <1>7, <1>8
<1> QED BY <1>6, <1>7, <1>9, <1>10

\* The outputs add up, none is below zero, and the miner's is as stated.
LEMMA OutsExact ==
    ASSUME NEW c \in Config,
           NEW dev \in Amounts(DevFee(c), c.reward),
           NEW miner \in Amounts(1000 - DevFee(c), c.reward)
    PROVE  /\ Outs(c, dev, miner) \in [Payees -> Nat]
           /\ Total(Outs(c, dev, miner)) = c.reward
           /\ 1000 * (Outs(c, dev, miner)["miner"] + 1)
                >= (1000 - DevFee(c)) * c.reward
<1> DEFINE outs == Outs(c, dev, miner)
           r == c.reward
           least == (1000 - DevFee(c)) * c.reward
           f == DevFee(c)
           g == 1000 - DevFee(c)
<1>1. /\ f \in Nat /\ g \in Nat /\ f + g = 1000 /\ r \in Nat
      /\ c.fee = NoFee => f = 0
  <2>1. f \in 0..999 /\ r \in Nat /\ (c.fee = NoFee => f = 0)
    BY DevFeeTyped
  <2>2. g = 1000 - f
    OBVIOUS
  <2> HIDE DEF f, g, r
  <2> QED BY <2>1, <2>2
<1>2. /\ dev \in Nat /\ miner \in Nat /\ dev + miner <= r
      /\ 1000 * (miner + 1) >= least
      /\ f = 0 => dev = 0
  <2>1. dev \in Amounts(f, r) /\ miner \in Amounts(g, r)
    OBVIOUS
  <2>2. least = g * r
    OBVIOUS
  <2> HIDE DEF f, g, r, least
  <2>3. /\ dev \in Nat /\ miner \in Nat /\ dev + miner <= r
        /\ 1000 * (miner + 1) >= g * r /\ (f = 0 => dev = 0)
    BY <1>1, <2>1, SharesOfReward
  <2> QED BY <2>2, <2>3
<1>3. least \in Int
  BY <1>1
<1>4. outs = IF c.fee = NoFee
             THEN [dev |-> 0, miner |-> miner + (r - dev - miner)]
             ELSE [dev |-> dev + (r - dev - miner), miner |-> miner]
  BY DEF Outs
<1> HIDE DEF outs, r, f, g, least
<1>5. CASE c.fee = NoFee
  <2>1. outs = [dev |-> 0, miner |-> r]
    BY <1>1, <1>2, <1>4, <1>5
  <2>2. outs \in [Payees -> Nat] /\ outs["dev"] + outs["miner"] = r
    BY <1>1, <2>1 DEF Payees
  <2>3. 1000 * (outs["miner"] + 1) >= least
    BY <1>1, <1>2, <1>3, <2>1
  <2> QED BY <2>2, <2>3 DEF Total, outs, r, least
<1>6. CASE c.fee # NoFee
  <2>1. outs = [dev |-> r - miner, miner |-> miner]
    BY <1>1, <1>2, <1>4, <1>6
  <2>2. r - miner \in Nat
    BY <1>1, <1>2
  <2>3. outs \in [Payees -> Nat] /\ outs["dev"] + outs["miner"] = r
    BY <1>1, <1>2, <2>1, <2>2 DEF Payees
  <2>4. 1000 * (outs["miner"] + 1) >= least
    BY <1>2, <2>1
  <2> QED BY <2>3, <2>4 DEF Total, outs, r, least
<1> QED BY <1>5, <1>6

-----------------------------------------------------------------------------
(* The script of a new job begins with the height and ends with the room   *)
(* for both extranonces.                                                   *)
LEMMA HeadStart ==
    ASSUME NEW S, NEW s \in Seq(S), NEW n \in Nat, n <= Len(s) - 8
    PROVE  SubSeq(Head8(s), 1, n) = SubSeq(s, 1, n)
<1> DEFINE m == Len(s) - 8
<1>1. m \in Nat /\ n \in 0..m /\ Len(s) \in Nat /\ m <= Len(s)
  OBVIOUS
<1>2. Head8(s) = SubSeq(s, 1, m)
  BY DEF Head8
<1> HIDE DEF m
<1>3. CASE n = 0
  BY <1>3, SubSeqEmpty
<1>4. CASE n # 0
  <2>1. n \in 1..m /\ 1 \in 1..Len(s) /\ m \in 1..Len(s)
    BY <1>1, <1>4
  <2>2. SubSeq(s, 1, m) \in Seq(S) /\ Len(SubSeq(s, 1, m)) = m
    BY <2>1, SubSeqProperties
  <2> QED BY <1>1, <1>2, <2>1, <2>2
<1> QED BY <1>3, <1>4

LEMMA ScriptForm ==
    ASSUME NEW c \in Config, NEW id \in Nat
    PROVE  LET push == PushOf(c)
           IN  /\ Script(c, id) \in Seq(Byte) /\ push \in Seq(Byte)
               /\ Len(push) \in Nat
               /\ Len(push) <= Len(Script(c, id)) - 8
               /\ SubSeq(Script(c, id), 1, Len(push)) = push
<1> DEFINE push == PushOf(c)
           name == Bytes("id", id)
           pad  == Bytes("padding", Padding(c))
<1>1. c.height \in 0..3
  BY JobAssumption DEF Config
<1>2. Padding(c) \in Nat /\ Padding(c) >= 8
  BY <1>1 DEF Padding
<1>3. /\ Bytes("push", 1) \in Seq(Byte) /\ Len(Bytes("push", 1)) = 1
      /\ Bytes("height", c.height) \in Seq(Byte)
      /\ name \in Seq(Byte) /\ Len(name) = id
      /\ pad \in Seq(Byte) /\ Len(pad) = Padding(c)
  <2>1. "push" \in Owners /\ "height" \in Owners /\ "id" \in Owners
        /\ "padding" \in Owners
    BY DEF Owners
  <2>2. c.height \in Nat /\ 1 \in Nat
    BY <1>1
  <2> QED BY <1>2, <2>1, <2>2, BytesTyped
<1>4. push \in Seq(Byte)
  BY <1>3, ConcatTyped DEF PushOf
<1>5. Len(push) \in Nat /\ Len(push) >= 1
  <2>1. Len(push) = 1 + Len(Bytes("height", c.height))
    BY <1>3, ConcatLength DEF PushOf
  <2>2. Len(Bytes("height", c.height)) \in Nat
    BY <1>3, LenProperties
  <2> QED BY <2>1, <2>2
<1>6. Script(c, id) = push \o (name \o pad)
  <2>1. Script(c, id) = (push \o name) \o pad
    BY DEF Script, PushOf
  <2> HIDE DEF push, name, pad
  <2>2. (push \o name) \o pad = push \o (name \o pad)
    <3>1. push \in Seq(Byte) /\ name \in Seq(Byte) /\ pad \in Seq(Byte)
      BY <1>3, <1>4
    <3> QED BY <3>1, Associated
  <2> QED BY <2>1, <2>2
<1> HIDE DEF push, name, pad
<1>7. name \o pad \in Seq(Byte) /\ Len(name \o pad) >= 8
      /\ Len(name \o pad) \in Nat
  <2>1. Len(name \o pad) = Len(name) + Len(pad)
    BY <1>3, ConcatLength
  <2> QED BY <1>2, <1>3, <2>1
<1> DEFINE rest == name \o pad
<1> HIDE DEF rest
<1>8. rest \in Seq(Byte) /\ Len(rest) >= 8 /\ Len(rest) \in Nat
      /\ Script(c, id) = push \o rest
  BY <1>6, <1>7 DEF rest
<1>9. Len(push \o rest) = Len(push) + Len(rest)
  BY <1>4, <1>8, ConcatLength
<1>10. SubSeq(push \o rest, 1, Len(push)) = push
  <2>1. 1 \in 1..Len(push) /\ Len(push) \in 1..Len(push)
    BY <1>5
  <2>2. SubSeq(push \o rest, 1, Len(push)) = SubSeq(push, 1, Len(push))
    BY <1>4, <1>8, <2>1, SubSeqOfConcat1
  <2> QED BY <1>4, <2>2, SubSeqFull
<1>11. Script(c, id) \in Seq(Byte)
  BY <1>4, <1>8
<1>12. Len(push) <= Len(Script(c, id)) - 8
  BY <1>5, <1>8, <1>9
<1> QED BY <1>4, <1>5, <1>8, <1>10, <1>11, <1>12 DEF push
-----------------------------------------------------------------------------

LEMMA InputForm ==
    ASSUME NEW c \in Config
    PROVE  LET push == PushOf(c)
               s    == InputScript(c)
           IN  /\ s \in Seq(Byte) /\ push \in Seq(Byte) /\ Len(push) \in Nat
               /\ Len(push) <= Len(s) - 8
               /\ SubSeq(s, 1, Len(push)) = push
<1>1. c.id \in Nat /\ 0 \in Nat
  BY JobAssumption DEF Config
<1>2. InputScript(c) = Script(c, 0) \/ InputScript(c) = Script(c, c.id)
  BY DEF InputScript
<1>3. CASE InputScript(c) = Script(c, 0)
  BY <1>1, <1>3, ScriptForm
<1>4. CASE InputScript(c) = Script(c, c.id)
  BY <1>1, <1>4, ScriptForm
<1> QED BY <1>2, <1>3, <1>4

-----------------------------------------------------------------------------
LEMMA InitEstablishes == Init => JobInv
<1> SUFFICES ASSUME Init PROVE JobInv
  OBVIOUS
<1>1. /\ coinbase = NoTx /\ parts = NoParts /\ config \in Config
      /\ mined = NoHeader /\ hashed = NoHeader /\ saved = NoBlock
      /\ locked = FALSE /\ ended = FALSE /\ offWidth = 0 /\ calls = {}
  BY DEF Init
<1>2. NoTx \in Coinbase /\ NoParts \in Cut
  <2>1. <<>> \in Seq(Byte)
    OBVIOUS
  <2>2. NoOuts \in [Payees -> Nat]
    BY DEF NoOuts
  <2> QED BY <2>1, <2>2 DEF NoTx, NoParts, Coinbase, Cut
<1>3. NoHeader \in Header
  BY <1>2 DEF NoHeader, Header
<1>4. NoBlock \in Block
  BY <1>3 DEF NoBlock, Block
<1>5. TypeOK
  BY <1>1, <1>2, <1>3, <1>4 DEF TypeOK
<1>6. BlockAsJudged
  BY <1>1 DEF BlockAsJudged, NoBlock
<1> QED BY <1>1, <1>5, <1>6 DEF JobInv, PayoutExact, ScriptIntact, RestIntact,
        SealIntact, CallsIntact, HashedLater, HashedAsMined, SignatureStands

\* The coinbase of a new job, before and after signing.
NewTx(c, outs) == [script |-> InputScript(c), seal |-> <<>>, outs |-> outs]

Built(c, outs) ==
    IF c.signing THEN LockedCoinbase(NewTx(c, outs)) ELSE NewTx(c, outs)

\* What the miner and later submissions rely on in a new job.
JobForm(c, outs, job) ==
    /\ job \in Coinbase /\ job.outs = outs
    /\ Parts(job) \in Cut
    /\ Len(job.script) >= 8
    /\ Len(PushOf(c)) <= Len(Head8(job.script))
    /\ SubSeq(Head8(job.script), 1, Len(PushOf(c))) = PushOf(c)
    /\ c.signing => /\ job.seal = job.script
                    /\ job.seal = Head8(job.seal) \o Bytes("session", 4)
                                      \o Bytes(LockedValue, Announced)

(* What the coinbase of a new job is, signed or not.                       *)
LEMMA NewJob ==
    ASSUME NEW c \in Config, NEW outs \in [Payees -> Nat]
    PROVE  JobForm(c, outs, Built(c, outs))
<1> DEFINE job == Built(c, outs)
<1> DEFINE push == PushOf(c)
           s    == InputScript(c)
           head == Head8(s)
           tx   == NewTx(c, outs)
<1>0. job = IF c.signing THEN LockedCoinbase(tx) ELSE tx
  BY DEF Built
<1> HIDE DEF job
<1>1. /\ s \in Seq(Byte) /\ push \in Seq(Byte) /\ Len(push) \in Nat
      /\ Len(push) <= Len(s) - 8 /\ SubSeq(s, 1, Len(push)) = push
  BY InputForm
<1>2. tx \in Coinbase /\ tx.script = s /\ tx.outs = outs /\ tx.seal = <<>>
  <2>1. <<>> \in Seq(Byte)
    OBVIOUS
  <2> HIDE DEF s
  <2> QED BY <1>1, <2>1 DEF Coinbase, s, NewTx
<1> HIDE DEF push, s, tx
<1>3. Len(s) \in Nat /\ Len(s) >= 8
  BY <1>1
<1>4. Len(head) = Len(s) - 8 /\ head \in Seq(Byte)
  BY <1>1, <1>3, Head8Typed
<1>5. SubSeq(head, 1, Len(push)) = push
  BY <1>1, HeadStart
<1>6. Len(push) <= Len(head)
  BY <1>1, <1>4
<1> HIDE DEF head
<1>7. /\ job \in Coinbase /\ job.outs = outs
      /\ Head8(job.script) = head /\ Len(job.script) = Len(head) + 8
      /\ c.signing => /\ job.seal = job.script
                      /\ job.script = head \o Bytes("session", 4)
                                         \o Bytes(LockedValue, Announced)
  <2>1. CASE ~c.signing
    BY <1>0, <1>2, <1>3, <1>4, <2>1 DEF head
  <2>2. CASE c.signing
    <3> DEFINE new == CopyAndUpdate(tx, LockedValue, Announced)
    <3>1. LockedValue \in Values /\ Announced \in Nat /\ Announced = 4
      BY JobAssumption DEF Announced
    <3>2. /\ new \in Coinbase /\ new.outs = outs /\ new.seal = <<>>
          /\ new.script = head \o Bytes("session", 4)
                               \o Bytes(LockedValue, Announced)
          /\ Head8(new.script) = head /\ Len(new.script) = Len(head) + 8
      BY <1>2, <3>1, Rewritten DEF head
    <3>3. job = [new EXCEPT !.seal = @ \o new.script]
      BY <1>0, <2>2 DEF LockedCoinbase, Signed
    <3> HIDE DEF new
    <3>4. new.script \in Seq(Byte)
      BY <3>2 DEF Coinbase
    <3>5. new.seal \o new.script = new.script
      BY <3>2, <3>4
    <3>6. job = [script |-> new.script, outs |-> outs, seal |-> new.script]
      <4>1. new = [script |-> new.script, outs |-> new.outs,
                   seal |-> new.seal]
        BY <3>2 DEF Coinbase
      <4> QED BY <3>2, <3>3, <3>5, <4>1
    <3>7. job \in Coinbase
      BY <3>4, <3>6 DEF Coinbase
    <3>8. job.script = new.script /\ job.outs = outs /\ job.seal = new.script
      BY <3>6
    <3> QED BY <3>2, <3>7, <3>8
  <2> QED BY <2>1, <2>2
<1>8. Parts(job) \in Cut
  <2>1. /\ job.script \in Seq(Byte) /\ job.seal \in Seq(Byte)
        /\ job.outs \in [Payees -> Nat]
    BY <1>7 DEF Coinbase
  <2>2. Len(job.script) \in Nat
    BY <2>1
  <2>3. Head8(job.script) \in Seq(Byte)
    BY <1>4, <1>7
  <2> QED BY <2>1, <2>2, <2>3 DEF Parts, Cut
<1>9. Len(job.script) >= 8
  BY <1>3, <1>4, <1>7
<1>10. JobForm(c, outs, job)
  BY <1>5, <1>6, <1>7, <1>8, <1>9 DEF push, JobForm
<1> QED BY <1>10 DEF job
-----------------------------------------------------------------------------
LEMMA SendPreserves == JobInv /\ SendNewMiningJob => JobInv'
<1> SUFFICES ASSUME JobInv, SendNewMiningJob PROVE JobInv'
  OBVIOUS
<1>1. /\ coinbase = NoTx /\ locked' = config.signing
      /\ UNCHANGED <<config, ended, calls, saved, mined, hashed, offWidth>>
      /\ config \in Config /\ hashed = NoHeader
  BY DEF SendNewMiningJob, JobInv, TypeOK, HashedLater
<1>2. PICK dev \in Amounts(DevFee(config), config.reward),
           miner \in Amounts(1000 - DevFee(config), config.reward) :
         LET tx  == [script |-> InputScript(config), seal |-> <<>>,
                     outs |-> Outs(config, dev, miner)]
             job == IF config.signing THEN LockedCoinbase(tx) ELSE tx
         IN  coinbase' = job /\ parts' = NotifiedParts(tx, job)
  BY DEF SendNewMiningJob
<1> DEFINE outs == Outs(config, dev, miner)
<1>3. /\ outs \in [Payees -> Nat] /\ Total(outs) = config.reward
      /\ 1000 * (outs["miner"] + 1) >= (1000 - DevFee(config)) * config.reward
  BY <1>1, OutsExact
<1>4. /\ coinbase' = Built(config, outs)
      /\ parts' = Parts(coinbase')
  BY <1>2 DEF NotifiedParts, Built, NewTx
<1> HIDE DEF outs
<1>6. /\ coinbase' \in Coinbase /\ coinbase'.outs = outs
      /\ parts' \in Cut
      /\ Len(coinbase'.script) >= 8
      /\ Len(Push) <= Len(Head8(coinbase'.script))
      /\ SubSeq(Head8(coinbase'.script), 1, Len(Push)) = Push
      /\ config.signing => /\ coinbase'.seal = coinbase'.script
                           /\ coinbase'.seal = Head8(coinbase'.seal)
                                  \o Bytes("session", 4)
                                  \o Bytes(LockedValue, Announced)
  <2>1. config \in Config /\ outs \in [Payees -> Nat]
    BY <1>1, <1>3
  <2>2. JobForm(config, outs, coinbase')
    BY <1>4, <2>1, NewJob
  <2> QED BY <1>4, <2>2 DEF Push, JobForm
<1>7. TypeOK'
  BY <1>1, <1>6 DEF JobInv, TypeOK, Config
<1>8. PayoutExact'
  BY <1>1, <1>3, <1>6 DEF PayoutExact, Payees, Total
<1>9. /\ parts'.length = Len(coinbase'.script)
      /\ parts'.head = Head8(coinbase'.script)
      /\ parts'.outs = coinbase'.outs /\ parts'.seal = coinbase'.seal
  BY <1>4 DEF Parts
<1>10. Push' = Push
  BY <1>1 DEF Push, PushOf
<1>11. ScriptIntact'
  BY <1>6, <1>9, <1>10 DEF ScriptIntact
<1>12. RestIntact' /\ SealIntact'
  BY <1>1, <1>6, <1>9 DEF RestIntact, SealIntact
<1>13. CallsIntact' /\ HashedLater' /\ HashedAsMined' /\ BlockAsJudged'
  BY <1>1 DEF JobInv, CallsIntact, HashedLater, HashedAsMined, BlockAsJudged
<1>14. SignatureStands'
  BY <1>1 DEF SignatureStands
<1> QED BY <1>7, <1>8, <1>11, <1>12, <1>13, <1>14 DEF JobInv

LEMMA SubmitPreserves ==
    ASSUME JobInv, NEW value \in Values, NEW width \in Widths,
           NEW rolled \in BOOLEAN, NEW block \in BOOLEAN,
           Submit(value, width, rolled, block)
    PROVE  JobInv'
<1> DEFINE tx   == CopyAndUpdate(coinbase, value, width)
           root == HeaderOf(tx, rolled)
           mine == MinerHeader(value, width, rolled)
<1>1. /\ coinbase # NoTx /\ coinbase' = tx /\ hashed' = root /\ mined' = mine
      /\ UNCHANGED <<config, parts, locked, ended, saved>>
      /\ offWidth' = IF width = Announced THEN offWidth ELSE offWidth + 1
      /\ MatchesLockedSubmission(value, width, rolled)
  BY DEF Submit
<1>2. /\ calls' = calls
      \/ calls' = calls \cup {[block |-> [root |-> root, data |-> root],
                               stage |-> "rpc"]}
  BY DEF Submit
<1>3. /\ coinbase \in Coinbase /\ parts \in Cut /\ offWidth \in Nat
      /\ width \in Nat /\ Announced = 4
  BY JobAssumption DEF JobInv, TypeOK, Announced
<1>4. /\ tx \in Coinbase /\ tx.outs = coinbase.outs
      /\ tx.seal = coinbase.seal
      /\ tx.script = Head8(coinbase.script) \o Bytes("session", 4)
                         \o Bytes(value, width)
      /\ width = 4 => /\ Head8(tx.script) = Head8(coinbase.script)
                      /\ Len(tx.script) = Len(Head8(coinbase.script)) + 8
  BY <1>3, Rewritten
<1>5. tx.script \in Seq(Byte) /\ Len(tx.script) \in Nat
  <2> HIDE DEF tx
  <2>1. tx.script \in Seq(Byte)
    BY <1>4 DEF Coinbase
  <2> QED BY <2>1, LenProperties
<1>6. /\ Bytes("session", 4) \in Seq(Byte) /\ Bytes(value, width) \in Seq(Byte)
  BY <1>3, BytesTyped DEF Owners
<1>7. root = [coinbase |-> tx, length |-> Len(tx.script), rolled |-> rolled]
  BY DEF HeaderOf
<1>8. mine = [coinbase |-> [script |-> parts.head \o Bytes("session", 4)
                                           \o Bytes(value, width),
                            outs |-> parts.outs, seal |-> parts.seal],
              length |-> parts.length, rolled |-> rolled]
  BY DEF MinerHeader
<1>9. /\ parts.head \in Seq(Byte) /\ parts.seal \in Seq(Byte)
      /\ parts.outs \in [Payees -> Nat] /\ parts.length \in Nat
  BY <1>3 DEF Cut
<1> HIDE DEF tx, root, mine
<1>10. root \in Header
  BY <1>4, <1>5, <1>7 DEF Header
<1>11. mine \in Header
  <2>1. parts.head \o Bytes("session", 4) \o Bytes(value, width) \in Seq(Byte)
    BY <1>6, <1>9
  <2> QED BY <1>8, <1>9, <2>1 DEF Header, Coinbase
<1>12. calls' \subseteq [block : Block, stage : {"rpc", "save"}]
  BY <1>2, <1>10 DEF JobInv, TypeOK, Block
<1>13. offWidth' \in Nat /\ (offWidth' = 0 => width = 4 /\ offWidth = 0)
  BY <1>1, <1>3
<1>14. TypeOK'
  BY <1>1, <1>4, <1>10, <1>11, <1>12, <1>13 DEF JobInv, TypeOK
<1>15. PayoutExact'
  BY <1>1, <1>4 DEF JobInv, PayoutExact
<1>16. Push' = Push
  BY <1>1 DEF Push, PushOf
<1>17. ScriptIntact'
  <2> SUFFICES ASSUME offWidth' = 0
               PROVE  /\ Len(tx.script) >= 8
                      /\ Head8(tx.script) = parts.head
                      /\ Len(tx.script) = parts.length
                      /\ Len(Push) <= Len(parts.head)
                      /\ SubSeq(parts.head, 1, Len(Push)) = Push
    BY <1>1, <1>16 DEF ScriptIntact
  <2>1. width = 4 /\ offWidth = 0
    BY <1>13
  <2>2. /\ Len(coinbase.script) >= 8 /\ Head8(coinbase.script) = parts.head
        /\ Len(coinbase.script) = parts.length
        /\ Len(Push) <= Len(parts.head)
        /\ SubSeq(parts.head, 1, Len(Push)) = Push
    BY <1>1, <2>1 DEF JobInv, ScriptIntact
  <2>3. /\ coinbase.script \in Seq(Byte) /\ Len(coinbase.script) \in Nat
        /\ Len(Head8(coinbase.script)) = Len(coinbase.script) - 8
    <3>1. coinbase.script \in Seq(Byte)
      BY <1>3 DEF Coinbase
    <3> QED BY <2>2, <3>1, Head8Typed, LenProperties
  <2> QED BY <1>4, <2>1, <2>2, <2>3
<1>18. RestIntact'
  BY <1>1, <1>4 DEF JobInv, RestIntact
<1>19. ASSUME locked
       PROVE  tx.script = parts.seal /\ ~rolled
  <2>1. value = LockedValue /\ width = Announced /\ ~rolled
    BY <1>1, <1>19 DEF MatchesLockedSubmission
  <2>2. /\ coinbase.script = parts.seal
        /\ parts.seal = Head8(parts.seal) \o Bytes("session", 4)
                            \o Bytes(LockedValue, Announced)
    BY <1>1, <1>19 DEF JobInv, SealIntact
  <2> QED BY <1>4, <2>1, <2>2
<1>20. SealIntact'
  BY <1>1, <1>19 DEF JobInv, SealIntact
<1>21. SignatureStands'
  BY <1>1, <1>7, <1>19 DEF SignatureStands
<1>22. CallsIntact'
  BY <1>2 DEF JobInv, CallsIntact
<1>23. tx # NoTx
  <2>1. Len(tx.script) >= 4
    <3>1. Head8(coinbase.script) \in Seq(Byte)
      BY <1>3, Head8Typed DEF Coinbase
    <3>2. Len(Bytes("session", 4)) = 4
      BY BytesTyped DEF Owners
    <3>3. /\ Head8(coinbase.script) \o Bytes("session", 4) \in Seq(Byte)
          /\ Len(Head8(coinbase.script) \o Bytes("session", 4)) >= 4
      <4>1. Len(Head8(coinbase.script)) \in Nat
        BY <3>1, LenProperties
      <4>2. Len(Head8(coinbase.script) \o Bytes("session", 4))
               = Len(Head8(coinbase.script)) + Len(Bytes("session", 4))
        BY <1>6, <3>1, ConcatLength
      <4>3. Head8(coinbase.script) \o Bytes("session", 4) \in Seq(Byte)
        BY <1>6, <3>1, ConcatTyped
      <4> DEFINE n == Len(Head8(coinbase.script))
                 m == Len(Head8(coinbase.script) \o Bytes("session", 4))
      <4>4. n \in Nat /\ m = n + 4
        BY <3>2, <4>1, <4>2
      <4> HIDE DEF n, m
      <4>5. m >= 4
        BY <4>4
      <4> QED BY <4>3, <4>5 DEF m
    <3>4. /\ Len(tx.script) = Len(Head8(coinbase.script) \o Bytes("session", 4))
                                   + Len(Bytes(value, width))
          /\ Len(Bytes(value, width)) \in Nat
          /\ Len(Head8(coinbase.script) \o Bytes("session", 4)) \in Nat
      BY <1>4, <1>6, <3>3, ConcatLength, LenProperties
    <3> QED BY <3>3, <3>4
  <2>2. NoTx.script = <<>>
    BY DEF NoTx
  <2> QED BY <2>1, <2>2, EmptySeq
<1>24. HashedAsMined'
  <2> SUFFICES ASSUME offWidth' = 0
               PROVE  root = mine
    BY <1>1 DEF HashedAsMined
  <2>1. /\ Head8(tx.script) = parts.head /\ Len(tx.script) = parts.length
        /\ tx.outs = parts.outs /\ tx.seal = parts.seal
        /\ Head8(coinbase.script) = parts.head
    <3>1. width = 4 /\ offWidth = 0
      BY <1>13
    <3>2. Head8(coinbase.script) = parts.head
      BY <1>1, <3>1 DEF JobInv, ScriptIntact
    <3>3. Head8(tx.script) = parts.head
      BY <1>4, <3>1, <3>2
    <3>4. Len(tx.script) = parts.length
      BY <1>1, <1>17, <1>23 DEF ScriptIntact
    <3>5. tx.outs = parts.outs /\ tx.seal = parts.seal
      BY <1>1, <1>4 DEF JobInv, RestIntact
    <3> QED BY <3>2, <3>3, <3>4, <3>5
  <2>2. tx = [script |-> tx.script, outs |-> tx.outs, seal |-> tx.seal]
    BY <1>4 DEF Coinbase
  <2> QED BY <1>4, <1>7, <1>8, <2>1, <2>2
<1>25. BlockAsJudged' /\ HashedLater'
  BY <1>1, <1>23 DEF JobInv, BlockAsJudged, HashedLater
<1> QED BY <1>14, <1>15, <1>17, <1>18, <1>20, <1>21, <1>22, <1>24, <1>25
        DEF JobInv

\* The steps of a block's handler leave the job alone.
LEMMA CallPreserves ==
    ASSUME JobInv, NEW c \in calls,
           Accepted(c) \/ Refused(c) \/ SaveBlock(c) \/ SaveFails(c)
    PROVE  JobInv'
<1>1. UNCHANGED <<config, coinbase, parts, locked, mined, hashed, offWidth>>
  BY DEF Accepted, Refused, SaveBlock, SaveFails
<1>2. /\ c.block \in Block /\ c.block.data = c.block.root
      /\ c \in [block : Block, stage : {"rpc", "save"}]
  BY DEF JobInv, TypeOK, CallsIntact
<1>3. /\ calls' \subseteq [block : Block, stage : {"rpc", "save"}]
      /\ CallsIntact'
  BY <1>2 DEF JobInv, TypeOK, CallsIntact, Accepted, Refused, SaveBlock, SaveFails
<1>4. \/ saved' = saved
      \/ saved' = [root |-> c.block.root, data |-> c.block.data]
  BY DEF Accepted, Refused, SaveBlock, SaveFails, BlockData
<1>5. saved' \in Block /\ BlockAsJudged'
  BY <1>2, <1>4 DEF JobInv, TypeOK, BlockAsJudged, Block
<1>6. ended' \in BOOLEAN
  BY DEF JobInv, TypeOK, Accepted, Refused, SaveBlock, SaveFails
<1>7. TypeOK'
  BY <1>1, <1>3, <1>5, <1>6 DEF JobInv, TypeOK
<1>8. Push' = Push
  BY <1>1 DEF Push, PushOf
<1>9. PayoutExact' /\ ScriptIntact' /\ RestIntact' /\ SealIntact'
  BY <1>1, <1>8 DEF JobInv, PayoutExact, ScriptIntact, RestIntact, SealIntact
<1>10. HashedLater' /\ HashedAsMined' /\ SignatureStands'
  BY <1>1 DEF JobInv, HashedLater, HashedAsMined, SignatureStands
<1> QED BY <1>3, <1>5, <1>7, <1>9, <1>10 DEF JobInv

LEMMA JobInvStep == JobInv /\ [Next]_vars => JobInv'
<1> SUFFICES ASSUME JobInv, [Next]_vars PROVE JobInv'
  OBVIOUS
<1>1. CASE SendNewMiningJob
  BY <1>1, SendPreserves
<1>2. CASE SendFails
  <2>1. UNCHANGED <<config, coinbase, parts, locked, calls, saved, mined,
                    hashed, offWidth>>
        /\ ended' = TRUE
    BY <1>2 DEF SendFails
  <2> QED BY <2>1 DEF JobInv, TypeOK, PayoutExact, ScriptIntact, RestIntact,
          SealIntact, CallsIntact, HashedLater, HashedAsMined, BlockAsJudged,
          SignatureStands, Push, PushOf
<1>3. ASSUME NEW value \in Values, NEW width \in Widths,
             NEW rolled \in BOOLEAN, NEW block \in BOOLEAN,
             Submit(value, width, rolled, block)
      PROVE  JobInv'
  BY <1>3, SubmitPreserves
<1>4. ASSUME NEW c \in calls,
             Accepted(c) \/ Refused(c) \/ SaveBlock(c) \/ SaveFails(c)
      PROVE  JobInv'
  BY <1>4, CallPreserves
<1>5. CASE UNCHANGED vars
  BY <1>5 DEF vars, JobInv, TypeOK, PayoutExact, ScriptIntact, RestIntact,
          SealIntact, CallsIntact, HashedLater, HashedAsMined, BlockAsJudged,
          SignatureStands, Push, PushOf
<1> QED BY <1>1, <1>2, <1>3, <1>4, <1>5 DEF Next

LEMMA JobInvariant == Spec => []JobInv
BY InitEstablishes, JobInvStep, PTL DEF Spec

-----------------------------------------------------------------------------
\* Type correctness of MiningJob.
THEOREM JobTyped == Spec => []TypeOK
<1>1. JobInv => TypeOK
  BY DEF JobInv
<1> QED BY <1>1, JobInvariant, PTL

\* Every coinbase pays out the reward exactly, and no less to the miner than
\* the fee leaves but for one unit of rounding, for every fee and reward.
THEOREM PaysExactly == Spec => []PayoutExact
<1>1. JobInv => PayoutExact
  BY DEF JobInv
<1> QED BY <1>1, JobInvariant, PTL

\* However many submissions rewrote the job's coinbase, the pool hashes what
\* the miner hashed while all of them sent four bytes.
THEOREM HashesAsMined == Spec => []HashedAsMined
<1>1. JobInv => HashedAsMined
  BY DEF JobInv
<1> QED BY <1>1, JobInvariant, PTL

\* A block is saved as it was judged, whatever ran while the node was asked.
THEOREM SavesAsJudged == Spec => []BlockAsJudged
<1>1. JobInv => BlockAsJudged
  BY DEF JobInv
<1> QED BY <1>1, JobInvariant, PTL

\* On signet no share is hashed with a coinbase or a time that was not signed.
THEOREM SignatureKept == Spec => []SignatureStands
<1>1. JobInv => SignatureStands
  BY DEF JobInv
<1> QED BY <1>1, JobInvariant, PTL

\* The height stays at the start of the script.
THEOREM HeightKept == Spec => []HeightCommitted
<1>1. JobInv => HeightCommitted
  <2> SUFFICES ASSUME JobInv, coinbase # NoTx, offWidth = 0
               PROVE  SubSeq(coinbase.script, 1, Len(Push)) = Push
    BY DEF HeightCommitted, Push, PushOf
  <2>1. coinbase.script \in Seq(Byte) /\ config \in Config
    BY DEF JobInv, TypeOK, Coinbase
  <2>2. /\ Len(coinbase.script) >= 8 /\ Head8(coinbase.script) = parts.head
        /\ Len(Push) <= Len(parts.head)
        /\ SubSeq(parts.head, 1, Len(Push)) = Push
    BY DEF JobInv, ScriptIntact
  <2>3. Len(Push) \in Nat
    BY <2>1, InputForm DEF Push
  <2>4. Len(Head8(coinbase.script)) = Len(coinbase.script) - 8
    BY <2>1, <2>2, Head8Typed
  <2>5. Len(Push) <= Len(coinbase.script) - 8
    BY <2>2, <2>4
  <2> QED BY <2>1, <2>2, <2>3, <2>5, HeadStart
<1> QED BY <1>1, JobInvariant, PTL
=============================================================================
