------------------------------ MODULE MiningJob ------------------------------
(***************************************************************************)
(* One mining job: how its coinbase is built (MiningJob), signed on signet *)
(* (SignetBlockSigningService), rewritten by every submission              *)
(* (copyAndUpdateBlock) and turned into a block for the node.              *)
(*                                                                         *)
(* The job holds one coinbase object.  The miner is sent that coinbase cut *)
(* in two, with eight bytes taken out of the end of its script: four are   *)
(* the session's own extranonce, four are the miner's to choose.  A        *)
(* submission cuts the last eight bytes of the job's script, appends the   *)
(* session's and the miner's, and hashes what results: the object that     *)
(* later submissions start from.  Nothing checks how many bytes the miner  *)
(* sends.  Blocks go to the node and into the database while the handlers  *)
(* of other submissions change the same object.                            *)
(*                                                                         *)
(* A byte is a pair of what it belongs to and its position there.  A       *)
(* header stands for what was hashed: its coinbase and whether the miner   *)
(* rolled the time or the version.                                         *)
(***************************************************************************)
EXTENDS Integers, Sequences, FiniteSets

CONSTANTS Fees,           \* DEV_FEE_PERCENT in tenths of a percent
          Rewards,        \* coinbasevalue of the template
          HeightBytes,    \* lengths of the encoded height
          IdBytes,        \* lengths of POOL_IDENTIFIER
          Rooms,          \* bytes the template's weight leaves to the script
          MaxScript,      \* MAX_SCRIPT_SIZE
          Values,         \* values of the miner's extranonce
          Widths,         \* how many bytes the miner sends
          LockedValue,    \* SIGNET_LOCKED_EXTRANONCE2
          MaxOffWidth,    \* bound: submissions of other than four bytes
          MaxCalls        \* bound: blocks whose handlers run at a time

\* A height of four bytes (8388608 and above) would leave the padding one
\* byte short of the two extranonces.
ASSUME JobAssumption ==
    /\ Fees \subseteq Nat /\ Rewards \subseteq Nat
    /\ HeightBytes \subseteq 0..3 /\ IdBytes \subseteq Nat /\ Rooms \subseteq Nat
    /\ LockedValue \in Values /\ Widths \subseteq Nat
    /\ MaxScript \in Nat /\ MaxCalls \in Nat /\ MaxOffWidth \in Nat

VARIABLES
    config,               \* the settings and the template
    coinbase,             \* coinbaseTransaction, NoTx before the job is sent
    parts,                \* coinbasePart1 and coinbasePart2
    locked,               \* signetLocked
    ended,                \* the socket was ended
    calls,                \* handlers of blocks, from SUBMIT_BLOCK on
    saved,                \* the last block saved
    mined, hashed,        \* history: the last share as its miner and as the
                          \* pool hashed it
    offWidth              \* history: submissions of other than four bytes

vars == <<config, coinbase, parts, locked, ended, calls, saved, mined, hashed,
          offWidth>>

NoFee     == -1           \* no DEV_FEE_ADDRESS
Announced == 4            \* extranonce2_size that the subscription announces
Payees   == {"dev", "miner"}
Owners   == {"push", "height", "id", "padding", "session"} \cup Values
Byte     == Owners \X Nat
Coinbase == [script : Seq(Byte), outs : [Payees -> Nat], seal : Seq(Byte)]
Header   == [coinbase : Coinbase, length : Nat, rolled : BOOLEAN]
Block    == [root : Header, data : Header]
Cut      == [length : Nat, head : Seq(Byte), outs : [Payees -> Nat],
             seal : Seq(Byte)]
Config   == [fee : Fees \cup {NoFee}, reward : Rewards, height : HeightBytes,
             id : IdBytes, room : Rooms, payable : BOOLEAN, segwit : BOOLEAN,
             signing : BOOLEAN]

TypeOK ==
    /\ config \in Config
    /\ coinbase \in Coinbase /\ parts \in Cut
    /\ locked \in BOOLEAN /\ ended \in BOOLEAN /\ offWidth \in Nat
    /\ calls \subseteq [block : Block, stage : {"rpc", "save"}]
    /\ saved \in Block
    /\ mined \in Header /\ hashed \in Header

NoOuts   == [p \in Payees |-> 0]
NoTx     == [script |-> <<>>, outs |-> NoOuts, seal |-> <<>>]
NoParts  == [length |-> 0, head |-> <<>>, outs |-> NoOuts, seal |-> <<>>]
NoHeader == [coinbase |-> NoTx, length |-> 0, rolled |-> FALSE]
NoBlock  == [root |-> NoHeader, data |-> NoHeader]

Init ==
    /\ config \in Config
    /\ coinbase = NoTx /\ parts = NoParts
    /\ locked = FALSE /\ ended = FALSE /\ offWidth = 0
    /\ calls = {} /\ saved = NoBlock
    /\ mined = NoHeader /\ hashed = NoHeader

-----------------------------------------------------------------------------
(***************************************************************************)
(* The outputs.  The developer's output comes first when there is one, and *)
(* the first output takes what the rounding leaves.  The floating product  *)
(* of a percentage and the reward may fall just short of a whole number,   *)
(* and its floor one below.                                                *)
(***************************************************************************)
\* Mutant: any number is taken as the fee.
AnyFee(c) == IF c.fee = NoFee THEN 0 ELSE c.fee

DevFee(c) ==
    IF c.fee = NoFee THEN 0
    ELSE IF 0 < c.fee /\ c.fee < 1000 THEN c.fee ELSE 15

Amounts(percent, reward) ==
    LET exact == percent * reward
    IN  {exact \div 1000} \cup
            IF exact % 1000 = 0 /\ exact > 0 /\ percent < 1000
            THEN {exact \div 1000 - 1} ELSE {}

\* Mutant: the remainder is not paid out.
OutsWithoutRemainder(c, dev, miner) == [dev |-> dev, miner |-> miner]

Outs(c, dev, miner) ==
    LET rewardBalance == c.reward - dev - miner
    IN  IF c.fee = NoFee THEN [dev |-> 0, miner |-> miner + rewardBalance]
        ELSE [dev |-> dev + rewardBalance, miner |-> miner]

Total(outs) == outs["dev"] + outs["miner"]

(***************************************************************************)
(* The script: the height, the identifier if it fits, and padding.         *)
(***************************************************************************)
\* Mutant: the padding takes the height out of the extranonces' eight bytes.
PaddingLessHeight(c) == 8 - c.height

Padding(c) == 8 + (3 - c.height)

Bytes(what, n) == [i \in 1..n |-> <<what, i>>]

Script(c, id) ==
    Bytes("push", 1) \o Bytes("height", c.height) \o Bytes("id", id)
        \o Bytes("padding", Padding(c))

InputScript(c) ==
    LET script == Script(c, c.id)
    IN  IF Len(script) > MaxScript \/ Len(script) > c.room
        THEN Script(c, 0) ELSE script

\* The script up to its last eight bytes, or nothing if it has fewer.
Head8(script) == SubSeq(script, 1, Len(script) - 8)

CopyAndUpdate(tx, value, width) ==
    [tx EXCEPT !.script = Head8(@) \o Bytes("session", 4)
                              \o Bytes(value, width)]

Parts(tx) == [length |-> Len(tx.script), head |-> Head8(tx.script),
              outs |-> tx.outs, seal |-> tx.seal]

(***************************************************************************)
(* sendNewMiningJob.  On signet the coinbase is signed as it will be       *)
(* submitted: with the locked extranonce, at the template's own time.      *)
(***************************************************************************)
Signed(tx) == [tx EXCEPT !.seal = @ \o tx.script]

LockedCoinbase(tx) == Signed(CopyAndUpdate(tx, LockedValue, Announced))

\* Mutant: the parts are not rebuilt after the signature.
PartsBeforeSigning(tx, job) == Parts(tx)

NotifiedParts(tx, job) == Parts(job)

CanSend(c) == c.payable /\ (c.signing => c.segwit)

SendNewMiningJob ==
    /\ coinbase = NoTx /\ ~ended
    /\ CanSend(config)
    /\ \E dev \in Amounts(DevFee(config), config.reward),
          miner \in Amounts(1000 - DevFee(config), config.reward) :
          LET tx  == [script |-> InputScript(config), seal |-> <<>>,
                      outs |-> Outs(config, dev, miner)]
              job == IF config.signing THEN LockedCoinbase(tx) ELSE tx
          IN  /\ coinbase' = job
              /\ parts' = NotifiedParts(tx, job)
    /\ locked' = config.signing
    /\ UNCHANGED <<config, ended, calls, saved, mined, hashed, offWidth>>

\* An address that has no script, or a coinbase without the commitment that
\* the signature extends: the subscriber ends the socket.
SendFails ==
    /\ coinbase = NoTx /\ ~ended
    /\ ~CanSend(config)
    /\ ended' = TRUE
    /\ UNCHANGED <<config, coinbase, parts, locked, calls, saved, mined,
                   hashed, offWidth>>

-----------------------------------------------------------------------------
(***************************************************************************)
(* A submission.  The header of the share is what its miner hashed: the    *)
(* parts with both extranonces between them, and the length of the script  *)
(* as the first part states it.                                            *)
(***************************************************************************)
MinerHeader(value, width, rolled) ==
    [coinbase |-> [script |-> parts.head \o Bytes("session", 4)
                                  \o Bytes(value, width),
                   outs |-> parts.outs, seal |-> parts.seal],
     length |-> parts.length, rolled |-> rolled]

HeaderOf(tx, rolled) ==
    [coinbase |-> tx, length |-> Len(tx.script), rolled |-> rolled]

\* Mutant: the extranonce is not compared.
MatchesLockedTime(value, width, rolled) == ~locked \/ ~rolled

MatchesLockedSubmission(value, width, rolled) ==
    \/ ~locked
    \/ value = LockedValue /\ width = Announced /\ ~rolled

\* From the comparison with the lock to the end of the handler, or to its
\* call of SUBMIT_BLOCK with the block serialised before it.
Submit(value, width, rolled, block) ==
    LET tx   == CopyAndUpdate(coinbase, value, width)
        root == HeaderOf(tx, rolled)
        new  == [root |-> root, data |-> root]
    IN  /\ coinbase # NoTx
        /\ MatchesLockedSubmission(value, width, rolled)
        /\ coinbase' = tx
        /\ mined' = MinerHeader(value, width, rolled)
        /\ hashed' = root
        /\ offWidth' = IF width = Announced THEN offWidth ELSE offWidth + 1
        /\ calls' = IF block THEN calls \cup {[block |-> new, stage |-> "rpc"]}
                     ELSE calls
        /\ UNCHANGED <<config, parts, locked, ended, saved>>

\* Mutant: the block is serialised when it is saved, from the shared object.
BlockDataNow(c) == HeaderOf(coinbase, c.block.root.rolled)

BlockData(c) == c.block.data

\* SUBMIT_BLOCK turns an error into its message and never throws.
Accepted(c) ==
    /\ c \in calls /\ c.stage = "rpc"
    /\ calls' = (calls \ {c}) \cup {[c EXCEPT !.stage = "save"]}
    /\ UNCHANGED <<config, coinbase, parts, locked, ended, saved, mined,
                   hashed, offWidth>>

Refused(c) ==
    /\ c \in calls /\ c.stage = "rpc"
    /\ calls' = calls \ {c}
    /\ UNCHANGED <<config, coinbase, parts, locked, ended, saved, mined,
                   hashed, offWidth>>

SaveBlock(c) ==
    /\ c \in calls /\ c.stage = "save"
    /\ calls' = calls \ {c}
    /\ saved' = [root |-> c.block.root, data |-> BlockData(c)]
    /\ UNCHANGED <<config, coinbase, parts, locked, ended, mined, hashed,
                   offWidth>>

SaveFails(c) ==
    /\ c \in calls /\ c.stage = "save"
    /\ calls' = calls \ {c}
    /\ ended' = TRUE
    /\ UNCHANGED <<config, coinbase, parts, locked, saved, mined, hashed,
                   offWidth>>

Next ==
    \/ SendNewMiningJob \/ SendFails
    \/ \E value \in Values, width \in Widths, rolled, block \in BOOLEAN :
          /\ width # Announced => offWidth < MaxOffWidth
          /\ block => Cardinality(calls) < MaxCalls
          /\ Submit(value, width, rolled, block)
    \/ \E c \in calls : Accepted(c) \/ Refused(c) \/ SaveBlock(c) \/ SaveFails(c)

Spec == Init /\ [][Next]_vars

-----------------------------------------------------------------------------
\* The outputs of every job add up to the reward and none is below zero;
\* the miner gets no less than the share that the configured fee leaves,
\* but for one unit of rounding.  A fee outside (0, 100) falls back to 1.5
\* (createCoinbaseTransaction, sendNewMiningJob).
PayoutExact ==
    coinbase # NoTx =>
        /\ Total(coinbase.outs) = config.reward
        /\ \A p \in Payees : coinbase.outs[p] >= 0
        /\ 1000 * (coinbase.outs["miner"] + 1)
              >= (1000 - DevFee(config)) * config.reward

\* The pool hashes what the miner hashed, for any sequence of submissions on
\* one job, as long as each of them sent the four bytes announced.  The job's
\* script is rewritten by every submission, those that were too low included.
HashedAsMined == offWidth = 0 => hashed = mined

\* Whatever other submissions did to the shared coinbase while the node was
\* asked, the block that is saved is the one whose proof of work was checked.
BlockAsJudged == saved.data = saved.root

\* On signet, every share that is hashed has the coinbase that was signed,
\* at the time that was signed: the lock admits no other.
SignatureStands ==
    locked /\ hashed # NoHeader =>
        /\ hashed.coinbase.script = parts.seal
        /\ ~hashed.rolled

\* The block commits to its height: the first bytes of the script survive
\* the removal of the identifier and every submission of four bytes.
HeightCommitted ==
    coinbase # NoTx /\ offWidth = 0 =>
        LET push == Bytes("push", 1) \o Bytes("height", config.height)
        IN  SubSeq(coinbase.script, 1, Len(push)) = push
=============================================================================
