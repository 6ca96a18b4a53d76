----------------------------- MODULE DeviceAuth -----------------------------
(***************************************************************************)
(* One stratum session of a pool that requires device authorization        *)
(* (MINING_AUTHZ_ENABLED=true): how the session comes to be bound to a     *)
(* device, when it starts to mine, and how it is checked again before each *)
(* job, on each share and every 15 seconds (StratumV1Client,               *)
(* MiningAuthzService).                                                    *)
(*                                                                         *)
(* Lines of the socket are handled concurrently, so every backend call may *)
(* be overtaken by any other handler.  The backend decides at one moment   *)
(* and its answer arrives at a later one; a call may also fail (5 s        *)
(* timeout, HTTP error).  Shares and jobs are in JobRegistry, the class    *)
(* policy that an allowed answer carries is in ClassBucket.                *)
(***************************************************************************)
EXTENDS Integers, FiniteSets

CONSTANTS Devices,
          Genuine,        \* devices whose key the miner holds
          NoDevice,
          MaxCalls        \* bound: calls in flight, those of timers apart

ASSUME DeviceAssumption ==
    /\ MaxCalls \in Nat
    /\ Genuine \subseteq Devices
    /\ NoDevice \notin Devices

VARIABLES
    granted,              \* the backend: devices allowed to mine
    process,              \* "up" or "down"
    socket,               \* "open", "ended" by the pool, or "closed"
    clientSubscription, clientAuthorization,   \* received yet?
    stratumInitialized,
    starting,             \* initStratum calls awaiting their first write
    subscriptions,        \* times this session subscribed to newMiningJob$
    timers,               \* the 15 s and 60 s intervals run
    destroying,           \* destroy() awaits the database
    pendingChallenge,     \* device of the pending challenge
    deviceAuthorized, deviceSession,
    calls,                \* backend calls in flight
    unbacked              \* history: a job or an accepted share went to a
                          \* device not granted at any time since its check

helloVars  == <<clientSubscription, clientAuthorization>>
initVars   == <<stratumInitialized, starting, subscriptions>>
deviceVars == <<deviceAuthorized, deviceSession>>
vars == <<granted, process, socket, helloVars, initVars, timers, destroying,
          pendingChallenge, deviceVars, calls, unbacked>>

\* verify, then authorize: the two calls of DEVICE_AUTH.  The others are the
\* isSessionAuthorized of a share or a new job (serve), of the 15 s timer,
\* and of the job that the 60 s difficulty timer sends (vardiff).
Intervals == {"timer", "vardiff"}
Checks    == {"serve"} \cup Intervals
Kinds     == {"verify", "authorize"} \cup Checks

Call == [kind : Kinds, device : Devices,
         answer : {"none", "allowed", "denied"}, backed : BOOLEAN]

TypeOK ==
    /\ granted \subseteq Devices
    /\ process \in {"up", "down"}
    /\ socket \in {"open", "ended", "closed"}
    /\ clientSubscription \in BOOLEAN /\ clientAuthorization \in BOOLEAN
    /\ stratumInitialized \in BOOLEAN
    /\ starting \in Nat /\ subscriptions \in Nat
    /\ timers \in BOOLEAN /\ destroying \in BOOLEAN
    /\ pendingChallenge \in Devices \cup {NoDevice}
    /\ deviceAuthorized \in BOOLEAN
    /\ deviceSession \in Devices \cup {NoDevice}
    /\ calls \subseteq Call
    /\ unbacked \in BOOLEAN

Init ==
    /\ granted \in SUBSET Devices
    /\ process = "up" /\ socket = "open"
    /\ clientSubscription = FALSE /\ clientAuthorization = FALSE
    /\ stratumInitialized = FALSE /\ starting = 0 /\ subscriptions = 0
    /\ timers = FALSE /\ destroying = FALSE
    /\ pendingChallenge = NoDevice
    /\ deviceAuthorized = FALSE /\ deviceSession = NoDevice
    /\ calls = {}
    /\ unbacked = FALSE

NewCall(kind, d) ==
    [kind |-> kind, device |-> d, answer |-> "none", backed |-> d \in granted]

CallsOf(kinds) == {c \in calls : c.kind \in kinds}

\* The backend's timeout is shorter than either interval: a call of a timer
\* has ended when the timer fires again.
CanCall(kind) ==
    IF kind \in Intervals THEN CallsOf({kind}) = {}
                         ELSE Cardinality(CallsOf(Kinds \ Intervals)) < MaxCalls

EndSocket == socket' = IF socket = "open" THEN "ended" ELSE socket

\* A line can still arrive after the pool has ended its side.
CanReceive == process = "up" /\ socket # "closed"

-----------------------------------------------------------------------------
(***************************************************************************)
(* The backend: an operator grants and revokes, calls are answered.        *)
(***************************************************************************)
Grant(d) ==
    /\ d \notin granted
    /\ granted' = granted \cup {d}
    /\ calls' = {[c EXCEPT !.backed = @ \/ c.device = d] : c \in calls}
    /\ UNCHANGED <<process, socket, helloVars, initVars, timers, destroying,
                   pendingChallenge, deviceVars, unbacked>>

Revoke(d) ==
    /\ d \in granted
    /\ granted' = granted \ {d}
    /\ UNCHANGED <<process, socket, helloVars, initVars, timers, destroying,
                   pendingChallenge, deviceVars, calls, unbacked>>

Allows(c) ==
    IF c.kind = "verify" THEN c.device \in Genuine ELSE c.device \in granted

Answer(c) ==
    /\ c \in calls /\ c.answer = "none"
    /\ calls' = (calls \ {c})
         \cup {[c EXCEPT !.answer = IF Allows(c) THEN "allowed" ELSE "denied"]}
    /\ UNCHANGED <<granted, process, socket, helloVars, initVars, timers,
                   destroying, pendingChallenge, deviceVars, unbacked>>

-----------------------------------------------------------------------------
(***************************************************************************)
(* mining.subscribe and mining.authorize.  Every message that is answered, *)
(* and even one that the switch does not know, ends in the test of         *)
(* CanInit; a write that failed ends the handler before it.                *)
(***************************************************************************)
Hello ==
    /\ CanReceive
    /\ \/ clientSubscription' = TRUE /\ UNCHANGED clientAuthorization
       \/ clientAuthorization' = TRUE /\ UNCHANGED clientSubscription
    /\ UNCHANGED <<granted, process, socket, initVars, timers, destroying,
                   pendingChallenge, deviceVars, calls, unbacked>>

CanInit ==
    /\ CanReceive
    /\ clientSubscription /\ clientAuthorization
    /\ ~stratumInitialized /\ deviceAuthorized

\* Mutant: the intervals are not started.
SubscribeWithoutTimers == subscriptions' = subscriptions + 1 /\ UNCHANGED timers

SubscribeTemplates == subscriptions' = subscriptions + 1 /\ timers' = TRUE

\* Mutant: stratumInitialized is set after the first write.
InitStratumLate ==
    /\ CanInit /\ starting < 2
    /\ starting' = starting + 1
    /\ UNCHANGED <<granted, process, socket, helloVars, stratumInitialized,
                   subscriptions, timers, destroying, pendingChallenge,
                   deviceVars, calls, unbacked>>

\* A miner that has suggested a difficulty is not sent one: the session
\* subscribes at once.
InitStratum ==
    /\ CanInit
    /\ stratumInitialized' = TRUE
    /\ \/ starting' = starting + 1 /\ UNCHANGED <<subscriptions, timers>>
       \/ SubscribeTemplates /\ UNCHANGED starting
    /\ UNCHANGED <<granted, process, socket, helloVars, destroying,
                   pendingChallenge, deviceVars, calls, unbacked>>

\* The write of the difficulty succeeded: subscribe, start the intervals.
Subscribed ==
    /\ starting > 0 /\ socket # "closed"
    /\ starting' = starting - 1
    /\ SubscribeTemplates
    /\ UNCHANGED <<granted, process, socket, helloVars, stratumInitialized,
                   destroying, pendingChallenge, deviceVars, calls, unbacked>>

\* The write failed: write() destroys the session and the socket.
InitWriteFails ==
    /\ starting > 0
    /\ starting' = starting - 1
    /\ destroying' = TRUE /\ socket' = "closed"
    /\ UNCHANGED <<granted, process, helloVars, stratumInitialized,
                   subscriptions, timers, pendingChallenge, deviceVars, calls,
                   unbacked>>

-----------------------------------------------------------------------------
(***************************************************************************)
(* DEVICE_CHALLENGE and DEVICE_AUTH.  A challenge that does not match, or  *)
(* has expired, is refused without effect.                                 *)
(***************************************************************************)
DeviceChallenge(d) ==
    /\ CanReceive
    /\ pendingChallenge' = d
    /\ UNCHANGED <<granted, process, socket, helloVars, initVars, timers,
                   destroying, deviceVars, calls, unbacked>>

DeviceAuthReceived(d) ==
    /\ CanReceive
    /\ pendingChallenge = d /\ CanCall("verify")
    /\ calls' = calls \cup {NewCall("verify", d)}
    /\ UNCHANGED <<granted, process, socket, helloVars, initVars, timers,
                   destroying, pendingChallenge, deviceVars, unbacked>>

Verified(c) ==
    /\ c \in calls /\ c.kind = "verify" /\ c.answer # "none"
    /\ calls' = (calls \ {c})
         \cup (IF c.answer = "allowed" THEN {NewCall("authorize", c.device)}
                                       ELSE {})
    /\ UNCHANGED <<granted, process, socket, helloVars, initVars, timers,
                   destroying, pendingChallenge, deviceVars, unbacked>>

\* Mutant: the device is read from the pending challenge after the awaits.
PendingDevice(c) == pendingChallenge

BoundDevice(c) == c.device

Authorized(c) ==
    /\ c \in calls /\ c.kind = "authorize" /\ c.answer # "none"
    /\ calls' = calls \ {c}
    /\ IF c.answer = "allowed"
         THEN /\ deviceAuthorized' = TRUE
              /\ deviceSession' = BoundDevice(c)
              /\ pendingChallenge' = NoDevice
         ELSE UNCHANGED <<deviceVars, pendingChallenge>>
    /\ UNCHANGED <<granted, process, socket, helloVars, initVars, timers,
                   destroying, unbacked>>

-----------------------------------------------------------------------------
(***************************************************************************)
(* enforceSessionAuthorizationOrClose: without a bound device the socket   *)
(* is ended at once, otherwise the backend is asked.                       *)
(***************************************************************************)
\* Mutant: the backend is asked although no device is bound.
StartCheckUnbound(kind) ==
    /\ CanCall(kind)
    /\ calls' = calls \cup {NewCall(kind, deviceSession)}
    /\ UNCHANGED <<granted, process, socket, helloVars, initVars, timers,
                   destroying, pendingChallenge, deviceVars, unbacked>>

\* Mutant: a session that was authorized once is served without asking again.
StartCheckOnce(kind) ==
    /\ deviceAuthorized
    /\ unbacked' = (unbacked \/ (kind # "timer" /\ deviceSession \notin granted))
    /\ UNCHANGED <<granted, process, socket, helloVars, initVars, timers,
                   destroying, pendingChallenge, deviceVars, calls>>

StartCheck(kind) ==
    /\ CanCall(kind)
    /\ IF deviceSession = NoDevice
         THEN EndSocket /\ UNCHANGED calls
         ELSE calls' = calls \cup {NewCall(kind, deviceSession)}
              /\ UNCHANGED socket
    /\ UNCHANGED <<granted, process, helloVars, initVars, timers, destroying,
                   pendingChallenge, deviceVars, unbacked>>

SubmitReceived == CanReceive /\ stratumInitialized /\ StartCheck("serve")

SubmitBeforeInit ==
    /\ CanReceive /\ ~stratumInitialized
    /\ EndSocket
    /\ UNCHANGED <<granted, process, helloVars, initVars, timers, destroying,
                   pendingChallenge, deviceVars, calls, unbacked>>

\* Until destroy() has unsubscribed and cleared them, templates and intervals
\* come, whatever the socket's state.
NewTemplate    == process = "up" /\ timers /\ StartCheck("serve")
RecheckTick    == process = "up" /\ timers /\ StartCheck("timer")
DifficultyTick == process = "up" /\ timers /\ StartCheck("vardiff")

CheckAllowed(c) ==
    /\ c \in calls /\ c.kind \in Checks /\ c.answer = "allowed"
    /\ calls' = calls \ {c}
    /\ unbacked' = (unbacked \/ (c.kind # "timer" /\ ~c.backed))
    /\ UNCHANGED <<granted, process, socket, helloVars, initVars, timers,
                   destroying, pendingChallenge, deviceVars>>

CheckDenied(c) ==
    /\ c \in calls /\ c.kind \in Checks /\ c.answer = "denied"
    /\ calls' = calls \ {c}
    /\ deviceAuthorized' = FALSE /\ deviceSession' = NoDevice
    /\ EndSocket
    /\ UNCHANGED <<granted, process, helloVars, initVars, timers, destroying,
                   pendingChallenge, unbacked>>

\* The handlers of socket lines and of templates catch the error and end the
\* socket; the interval callbacks do not, and the rejection ends the process.
CallFails(c) ==
    /\ c \in calls
    /\ IF c.kind \in Intervals
         THEN /\ process' = "down" /\ calls' = {} /\ starting' = 0
              /\ timers' = FALSE /\ destroying' = FALSE
              /\ socket' = "closed"
         ELSE /\ calls' = calls \ {c}
              /\ EndSocket
              /\ UNCHANGED <<process, starting, timers, destroying>>
    /\ UNCHANGED <<granted, helloVars, stratumInitialized, subscriptions,
                   pendingChallenge, deviceVars, unbacked>>

-----------------------------------------------------------------------------
(***************************************************************************)
(* The end of the connection: the peer leaves, the 5 minute timeout, or a  *)
(* write on an ended socket.  Handlers in flight go on.                    *)
(***************************************************************************)
Close ==
    /\ socket # "closed"
    /\ socket' = "closed"
    /\ destroying' = clientSubscription
    /\ UNCHANGED <<granted, process, helloVars, initVars, timers,
                   pendingChallenge, deviceVars, calls, unbacked>>

\* Mutant: destroy() does not clear the intervals.
DestroyedWithTimers ==
    /\ destroying
    /\ destroying' = FALSE
    /\ UNCHANGED <<granted, process, socket, helloVars, initVars, timers,
                   pendingChallenge, deviceVars, calls, unbacked>>

Destroyed ==
    /\ destroying
    /\ destroying' = FALSE /\ timers' = FALSE
    /\ UNCHANGED <<granted, process, socket, helloVars, initVars,
                   pendingChallenge, deviceVars, calls, unbacked>>

Next ==
    \/ \E d \in Devices : \/ Grant(d) \/ Revoke(d)
                          \/ DeviceChallenge(d) \/ DeviceAuthReceived(d)
    \/ Hello
    \/ InitStratum \/ Subscribed \/ InitWriteFails
    \/ SubmitReceived \/ SubmitBeforeInit
    \/ NewTemplate \/ RecheckTick \/ DifficultyTick
    \/ \E c \in calls : \/ Answer(c) \/ Verified(c) \/ Authorized(c)
                        \/ CheckAllowed(c) \/ CheckDenied(c) \/ CallFails(c)
    \/ Close \/ Destroyed

\* The 15 s interval runs; the backend answers its calls or they fail after
\* the timeout; the database answers destroy().
Fairness ==
    /\ WF_vars(RecheckTick)
    /\ WF_vars(Destroyed)
    /\ WF_vars(\E c \in CallsOf({"timer"}) : Answer(c))
    /\ WF_vars(\E c \in CallsOf({"timer"}) : CheckAllowed(c) \/ CheckDenied(c))

Spec     == Init /\ [][Next]_vars
FairSpec == Spec /\ Fairness

-----------------------------------------------------------------------------
(***************************************************************************)
(* The session is only ever bound to a device whose key the miner has      *)
(* proved, and is marked authorized exactly while it is bound, although    *)
(* other challenges, authorizations and denials complete between the       *)
(* verification of a proof and its use.                                    *)
(***************************************************************************)
BoundToProvedDevice ==
    /\ deviceSession # NoDevice => deviceSession \in Genuine
    /\ deviceAuthorized <=> deviceSession # NoDevice

(***************************************************************************)
(* A session subscribes to the templates at most once, although every      *)
(* message tests whether to do so and messages are handled concurrently.   *)
(***************************************************************************)
SubscribesOnce == starting + subscriptions <= 1

(***************************************************************************)
(* No job is sent and no share accepted for a device that the backend did  *)
(* not grant at some moment since the handler asked.                       *)
(***************************************************************************)
ServedOnlyWhenGranted == ~unbacked

(***************************************************************************)
(* A mining session whose device is not granted (any more) is ended, or is *)
(* granted in time, or bound to a granted device: the 15 s check sees to   *)
(* it even when the miner is silent.                                       *)
(***************************************************************************)
RevokedSessionEnds ==
    (subscriptions > 0 /\ socket = "open" /\ deviceSession \notin granted)
        ~> (deviceSession \in granted \/ socket # "open")

(***************************************************************************)
(* After the connection is closed the session stops asking the backend.    *)
(***************************************************************************)
ClosedSessionStopsAsking == (socket = "closed") ~> ~timers
=============================================================================
