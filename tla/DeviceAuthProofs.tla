-------------------------- MODULE DeviceAuthProofs --------------------------
(***************************************************************************)
(* Safety of DeviceAuth for every set of devices, every set of genuine     *)
(* ones and every number of calls in flight.                               *)
(***************************************************************************)
EXTENDS DeviceAuth, TLAPS

-----------------------------------------------------------------------------
LEMMA NewCallIsCall ==
    ASSUME NEW kind \in Kinds, NEW d \in Devices
    PROVE  /\ NewCall(kind, d) \in Call
           /\ NewCall(kind, d).kind = kind
           /\ NewCall(kind, d).device = d
           /\ NewCall(kind, d).answer = "none"
           /\ d \in granted => NewCall(kind, d).backed
<1>1. (d \in granted) \in BOOLEAN
  OBVIOUS
<1> QED BY <1>1 DEF NewCall, Call

LEMMA AnsweredIsCall ==
    ASSUME NEW c \in Call, NEW a \in {"allowed", "denied"}
    PROVE  /\ [c EXCEPT !.answer = a] \in Call
           /\ [c EXCEPT !.answer = a].kind = c.kind
           /\ [c EXCEPT !.answer = a].device = c.device
           /\ [c EXCEPT !.answer = a].answer = a
           /\ [c EXCEPT !.answer = a].backed = c.backed
BY DEF Call

\* What Grant does to a call in flight.
LEMMA BackedIsCall ==
    ASSUME NEW c \in Call, NEW d
    PROVE  /\ [c EXCEPT !.backed = @ \/ c.device = d] \in Call
           /\ [c EXCEPT !.backed = @ \/ c.device = d].kind = c.kind
           /\ [c EXCEPT !.backed = @ \/ c.device = d].device = c.device
           /\ [c EXCEPT !.backed = @ \/ c.device = d].answer = c.answer
           /\ c.backed => [c EXCEPT !.backed = @ \/ c.device = d].backed
           /\ c.device = d => [c EXCEPT !.backed = @ \/ c.device = d].backed
<1>1. (c.backed \/ c.device = d) \in BOOLEAN
  OBVIOUS
<1> QED BY <1>1 DEF Call

LEMMA KindsOfChecks == /\ Checks \subseteq Kinds
                       /\ "verify" \in Kinds /\ "authorize" \in Kinds
                       /\ "verify" \notin Checks /\ "authorize" \notin Checks
                       /\ "serve" \in Checks
                       /\ "timer" \in Checks /\ "vardiff" \in Checks
BY DEF Checks, Kinds, Intervals

-----------------------------------------------------------------------------
(* Type correctness of the session in every state.                         *)
THEOREM SessionTyped == Spec => []TypeOK
<1>1. Init => TypeOK
  <2> SUFFICES ASSUME Init PROVE TypeOK
    OBVIOUS
  <2>1. starting \in Nat /\ subscriptions \in Nat
    BY DEF Init
  <2>2. /\ clientSubscription \in BOOLEAN /\ clientAuthorization \in BOOLEAN
        /\ stratumInitialized \in BOOLEAN /\ timers \in BOOLEAN
        /\ destroying \in BOOLEAN /\ deviceAuthorized \in BOOLEAN
        /\ unbacked \in BOOLEAN
    BY Zenon DEF Init
  <2> QED BY <2>1, <2>2 DEF Init, TypeOK
<1>2. TypeOK /\ [Next]_vars => TypeOK'
  <2> SUFFICES ASSUME TypeOK, [Next]_vars PROVE TypeOK'
    OBVIOUS
  <2> USE DEF helloVars, initVars, deviceVars
  <2>1. ASSUME NEW d \in Devices, Grant(d) PROVE TypeOK'
    <3>1. calls' \subseteq Call
      <4>1. calls' = {[c EXCEPT !.backed = @ \/ c.device = d] : c \in calls}
        BY <2>1 DEF Grant
      <4>2. \A c \in calls : [c EXCEPT !.backed = @ \/ c.device = d] \in Call
        BY BackedIsCall DEF TypeOK
      <4> QED BY <4>1, <4>2
    <3> QED BY <2>1, <3>1 DEF Grant, TypeOK
  <2>2. ASSUME NEW d \in Devices, Revoke(d) PROVE TypeOK'
    BY <2>2 DEF Revoke, TypeOK
  <2>3. ASSUME NEW d \in Devices, DeviceChallenge(d) PROVE TypeOK'
    BY <2>3 DEF DeviceChallenge, TypeOK
  <2>4. ASSUME NEW d \in Devices, DeviceAuthReceived(d) PROVE TypeOK'
    <3>1. calls' \subseteq Call
      BY <2>4, NewCallIsCall, KindsOfChecks DEF DeviceAuthReceived, TypeOK
    <3> QED BY <2>4, <3>1 DEF DeviceAuthReceived, TypeOK
  <2>5. CASE Hello
    <3>1. clientSubscription' \in BOOLEAN /\ clientAuthorization' \in BOOLEAN
      BY <2>5, Zenon DEF Hello, TypeOK
    <3>2. UNCHANGED <<granted, process, socket, stratumInitialized, starting,
                      subscriptions, timers, destroying, pendingChallenge,
                      deviceAuthorized, deviceSession, calls, unbacked>>
      BY <2>5 DEF Hello
    <3> QED BY <3>1, <3>2 DEF TypeOK
  <2>6. CASE InitStratum
    <3>1. starting' \in Nat /\ subscriptions' \in Nat
      BY <2>6 DEF InitStratum, SubscribeTemplates, TypeOK
    <3>2. timers' \in BOOLEAN /\ stratumInitialized' \in BOOLEAN
      BY <2>6, Zenon DEF InitStratum, SubscribeTemplates, TypeOK
    <3>3. UNCHANGED <<granted, process, socket, clientSubscription,
                      clientAuthorization, destroying, pendingChallenge,
                      deviceAuthorized, deviceSession, calls, unbacked>>
      BY <2>6 DEF InitStratum
    <3> QED BY <3>1, <3>2, <3>3 DEF TypeOK
  <2>7. CASE Subscribed
    BY <2>7 DEF Subscribed, SubscribeTemplates, TypeOK
  <2>8. CASE InitWriteFails
    BY <2>8 DEF InitWriteFails, TypeOK
  <2>9. ASSUME NEW kind \in Checks, StartCheck(kind) PROVE TypeOK'
    <3>1. calls' \subseteq Call
      BY <2>9, NewCallIsCall, KindsOfChecks DEF StartCheck, TypeOK
    <3> QED BY <2>9, <3>1 DEF StartCheck, EndSocket, TypeOK
  <2>10. CASE SubmitBeforeInit
    BY <2>10 DEF SubmitBeforeInit, EndSocket, TypeOK
  <2>11. ASSUME NEW c \in calls, Answer(c) PROVE TypeOK'
    <3>1. calls' \subseteq Call
      BY <2>11, AnsweredIsCall DEF Answer, TypeOK
    <3> QED BY <2>11, <3>1 DEF Answer, TypeOK
  <2>12. ASSUME NEW c \in calls, Verified(c) PROVE TypeOK'
    <3>1. c.device \in Devices
      BY <2>12 DEF TypeOK, Call
    <3>2. calls' \subseteq Call
      BY <2>12, <3>1, NewCallIsCall, KindsOfChecks DEF Verified, TypeOK
    <3> QED BY <2>12, <3>2 DEF Verified, TypeOK
  <2>13. ASSUME NEW c \in calls, Authorized(c) PROVE TypeOK'
    <3>1. c.device \in Devices
      BY <2>13 DEF TypeOK, Call
    <3> QED BY <2>13, <3>1 DEF Authorized, BoundDevice, TypeOK
  <2>14. ASSUME NEW c \in calls, CheckAllowed(c) PROVE TypeOK'
    <3>1. unbacked' \in BOOLEAN
      BY <2>14 DEF CheckAllowed
    <3> QED BY <2>14, <3>1 DEF CheckAllowed, TypeOK
  <2>15. ASSUME NEW c \in calls, CheckDenied(c) PROVE TypeOK'
    BY <2>15 DEF CheckDenied, EndSocket, TypeOK
  <2>16. ASSUME NEW c \in calls, CallFails(c) PROVE TypeOK'
    <3>1. starting' \in Nat /\ calls' \subseteq Call
      BY <2>16 DEF CallFails, TypeOK
    <3>2. timers' \in BOOLEAN /\ destroying' \in BOOLEAN
      BY <2>16, Zenon DEF CallFails, TypeOK
    <3>3. process' \in {"up", "down"} /\ socket' \in {"open", "ended", "closed"}
      BY <2>16 DEF CallFails, EndSocket, TypeOK
    <3>4. UNCHANGED <<granted, clientSubscription, clientAuthorization,
                      stratumInitialized, subscriptions, pendingChallenge,
                      deviceAuthorized, deviceSession, unbacked>>
      BY <2>16 DEF CallFails
    <3> QED BY <3>1, <3>2, <3>3, <3>4 DEF TypeOK
  <2>17. CASE Close
    BY <2>17 DEF Close, TypeOK
  <2>18. CASE Destroyed
    BY <2>18 DEF Destroyed, TypeOK
  <2>19. CASE UNCHANGED vars
    BY <2>19 DEF vars, TypeOK
  <2> QED
    BY <2>1, <2>2, <2>3, <2>4, <2>5, <2>6, <2>7, <2>8, <2>9, <2>10, <2>11,
       <2>12, <2>13, <2>14, <2>15, <2>16, <2>17, <2>18, <2>19, KindsOfChecks
       DEF Next, SubmitReceived, NewTemplate, RecheckTick, DifficultyTick
<1> QED BY <1>1, <1>2, PTL DEF Spec

-----------------------------------------------------------------------------
(***************************************************************************)
(* What a call in flight vouches for.  Only a verify call may name a       *)
(* device that is not proved; an allowed verify call proves its device;    *)
(* any other allowed call is backed by a grant since it was made.          *)
(***************************************************************************)
Told(c) ==
    /\ c.kind # "verify" => c.device \in Genuine
    /\ c.answer = "allowed" /\ c.kind = "verify" => c.device \in Genuine
    /\ c.answer = "allowed" /\ c.kind # "verify" => c.backed

Backed(c) == c.device \in granted => c.backed

CallsTold == \A c \in calls : Told(c) /\ Backed(c)

SessionSound == CallsTold /\ BoundToProvedDevice /\ ServedOnlyWhenGranted

(* A step that adds no call, grants nothing and leaves the device and the  *)
(* history alone preserves all of it.                                      *)
LEMMA RemovingIsSound ==
    ASSUME SessionSound, calls' \subseteq calls, granted' \subseteq granted,
           UNCHANGED <<deviceAuthorized, deviceSession, unbacked>>
    PROVE  SessionSound'
BY DEF SessionSound, CallsTold, Told, Backed, BoundToProvedDevice,
       ServedOnlyWhenGranted

(* So does one that adds a single new call, unless it names an unproved    *)
(* device without being a verify call.                                     *)
LEMMA CallingIsSound ==
    ASSUME SessionSound, NEW kind \in Kinds, NEW d \in Devices,
           kind = "verify" \/ d \in Genuine,
           calls' \subseteq calls \cup {NewCall(kind, d)},
           UNCHANGED <<granted, deviceAuthorized, deviceSession, unbacked>>
    PROVE  SessionSound'
<1>1. CallsTold'
  BY NewCallIsCall DEF SessionSound, CallsTold, Told, Backed
<1> QED BY <1>1 DEF SessionSound, BoundToProvedDevice, ServedOnlyWhenGranted

THEOREM SessionSoundAlways == Spec => []SessionSound
<1>1. Init => SessionSound
  <2> SUFFICES ASSUME Init PROVE SessionSound
    OBVIOUS
  <2>1. CallsTold /\ BoundToProvedDevice
    BY DEF Init, CallsTold, BoundToProvedDevice
  <2>2. ServedOnlyWhenGranted
    BY DEF Init, ServedOnlyWhenGranted
  <2> QED BY <2>1, <2>2 DEF SessionSound
<1>2. TypeOK /\ SessionSound /\ [Next]_vars => SessionSound'
  <2> SUFFICES ASSUME TypeOK, SessionSound, [Next]_vars PROVE SessionSound'
    OBVIOUS
  <2> USE DEF helloVars, initVars, deviceVars
  <2>1. ASSUME NEW d \in Devices, Grant(d) PROVE SessionSound'
    <3>1. ASSUME NEW n \in calls' PROVE (Told(n) /\ Backed(n))'
      <4>1. PICK c \in calls : n = [c EXCEPT !.backed = @ \/ c.device = d]
        BY <2>1 DEF Grant
      <4>2. c \in Call /\ Told(c) /\ Backed(c)
        BY DEF TypeOK, SessionSound, CallsTold
      <4>3. Told(n)
        BY <4>1, <4>2, BackedIsCall DEF Told
      <4>4. n.device \in granted \cup {d} => n.backed
        BY <4>1, <4>2, BackedIsCall DEF Backed
      <4>5. granted' = granted \cup {d}
        BY <2>1 DEF Grant
      <4> QED BY <4>3, <4>4, <4>5 DEF Told, Backed
    <3>2. CallsTold'
      BY <3>1 DEF CallsTold
    <3> QED
      BY <2>1, <3>2 DEF Grant, SessionSound, BoundToProvedDevice,
                        ServedOnlyWhenGranted
  <2>2. ASSUME NEW d \in Devices, Revoke(d) PROVE SessionSound'
    BY <2>2, RemovingIsSound DEF Revoke
  <2>3. ASSUME NEW d \in Devices, DeviceChallenge(d) PROVE SessionSound'
    BY <2>3, RemovingIsSound DEF DeviceChallenge
  <2>4. ASSUME NEW d \in Devices, DeviceAuthReceived(d) PROVE SessionSound'
    BY <2>4, CallingIsSound, KindsOfChecks DEF DeviceAuthReceived
  <2>5. CASE Hello
    BY <2>5, RemovingIsSound DEF Hello
  <2>6. CASE InitStratum
    BY <2>6, RemovingIsSound DEF InitStratum
  <2>7. CASE Subscribed
    BY <2>7, RemovingIsSound DEF Subscribed
  <2>8. CASE InitWriteFails
    BY <2>8, RemovingIsSound DEF InitWriteFails
  <2>9. ASSUME NEW kind \in Checks, StartCheck(kind) PROVE SessionSound'
    <3>1. CASE deviceSession = NoDevice
      BY <2>9, <3>1, RemovingIsSound DEF StartCheck
    <3>2. CASE deviceSession # NoDevice
      <4>1. deviceSession \in Genuine /\ deviceSession \in Devices
        BY <3>2 DEF SessionSound, BoundToProvedDevice, TypeOK
      <4>2. /\ calls' \subseteq calls \cup {NewCall(kind, deviceSession)}
            /\ UNCHANGED <<granted, deviceAuthorized, deviceSession, unbacked>>
        BY <2>9, <3>2 DEF StartCheck
      <4> QED BY <4>1, <4>2, CallingIsSound, KindsOfChecks
    <3> QED BY <3>1, <3>2
  <2>10. CASE SubmitBeforeInit
    BY <2>10, RemovingIsSound DEF SubmitBeforeInit
  <2>11. ASSUME NEW c \in calls, Answer(c) PROVE SessionSound'
    <3>1. c \in Call /\ Told(c) /\ Backed(c)
      BY DEF TypeOK, SessionSound, CallsTold
    <3> DEFINE a == IF Allows(c) THEN "allowed" ELSE "denied"
               n == [c EXCEPT !.answer = a]
    <3>2. a \in {"allowed", "denied"} /\ (a = "allowed" => Allows(c))
      OBVIOUS
    <3>3. calls' \subseteq calls \cup {n} /\ UNCHANGED granted
      BY <2>11 DEF Answer
    <3> HIDE DEF a
    <3>4. Told(n) /\ Backed(n)
      BY <3>1, <3>2, AnsweredIsCall DEF Told, Backed, Allows
    <3> HIDE DEF n
    <3>5. CallsTold'
      BY <3>3, <3>4 DEF CallsTold, Told, Backed, SessionSound
    <3> QED
      BY <2>11, <3>5 DEF Answer, SessionSound, BoundToProvedDevice,
                         ServedOnlyWhenGranted
  <2>12. ASSUME NEW c \in calls, Verified(c) PROVE SessionSound'
    <3>1. CASE c.answer = "allowed"
      <4>1. c.device \in Genuine /\ c.device \in Devices
        BY <2>12, <3>1 DEF Verified, SessionSound, CallsTold, Told, TypeOK, Call
      <4>2. /\ calls' \subseteq calls \cup {NewCall("authorize", c.device)}
            /\ UNCHANGED <<granted, deviceAuthorized, deviceSession, unbacked>>
        BY <2>12, <3>1 DEF Verified
      <4> QED BY <4>1, <4>2, CallingIsSound, KindsOfChecks
    <3>2. CASE c.answer # "allowed"
      BY <2>12, <3>2, RemovingIsSound DEF Verified
    <3> QED BY <3>1, <3>2
  <2>13. ASSUME NEW c \in calls, Authorized(c) PROVE SessionSound'
    <3>1. CASE c.answer = "allowed"
      <4>1. c.device \in Genuine /\ c.device # NoDevice
        BY <2>13, <3>1, DeviceAssumption
           DEF Authorized, SessionSound, CallsTold, Told, TypeOK, Call
      <4>2. deviceSession' = c.device /\ deviceAuthorized' = TRUE
        BY <2>13, <3>1 DEF Authorized, BoundDevice
      <4>3. calls' \subseteq calls /\ UNCHANGED <<granted, unbacked>>
        BY <2>13 DEF Authorized
      <4>4. BoundToProvedDevice'
        BY <4>1, <4>2 DEF BoundToProvedDevice
      <4>5. CallsTold' /\ ServedOnlyWhenGranted'
        BY <4>3 DEF SessionSound, CallsTold, Told, Backed, ServedOnlyWhenGranted
      <4> QED BY <4>4, <4>5 DEF SessionSound
    <3>2. CASE c.answer # "allowed"
      BY <2>13, <3>2, RemovingIsSound DEF Authorized
    <3> QED BY <3>1, <3>2
  <2>14. ASSUME NEW c \in calls, CheckAllowed(c) PROVE SessionSound'
    <3>1. c.backed
      BY <2>14, KindsOfChecks
         DEF CheckAllowed, SessionSound, CallsTold, Told
    <3>2. unbacked' <=> unbacked
      BY <2>14, <3>1 DEF CheckAllowed
    <3>3. ServedOnlyWhenGranted'
      BY <3>2 DEF SessionSound, ServedOnlyWhenGranted
    <3>4. /\ calls' \subseteq calls
          /\ UNCHANGED <<granted, deviceAuthorized, deviceSession>>
      BY <2>14 DEF CheckAllowed
    <3> QED
      BY <3>3, <3>4 DEF SessionSound, CallsTold, Told, Backed,
                        BoundToProvedDevice
  <2>15. ASSUME NEW c \in calls, CheckDenied(c) PROVE SessionSound'
    <3>1. /\ calls' \subseteq calls /\ UNCHANGED <<granted, unbacked>>
          /\ deviceAuthorized' = FALSE /\ deviceSession' = NoDevice
      BY <2>15 DEF CheckDenied
    <3>2. BoundToProvedDevice'
      BY <3>1 DEF BoundToProvedDevice
    <3> QED
      BY <3>1, <3>2 DEF SessionSound, CallsTold, Told, Backed,
                        ServedOnlyWhenGranted
  <2>16. ASSUME NEW c \in calls, CallFails(c) PROVE SessionSound'
    <3>1. /\ calls' \subseteq calls
          /\ UNCHANGED <<granted, deviceAuthorized, deviceSession, unbacked>>
      BY <2>16 DEF CallFails
    <3> QED BY <3>1, RemovingIsSound
  <2>17. CASE Close
    BY <2>17, RemovingIsSound DEF Close
  <2>18. CASE Destroyed
    BY <2>18, RemovingIsSound DEF Destroyed
  <2>19. CASE UNCHANGED vars
    BY <2>19, RemovingIsSound DEF vars
  <2> QED
    BY <2>1, <2>2, <2>3, <2>4, <2>5, <2>6, <2>7, <2>8, <2>9, <2>10, <2>11,
       <2>12, <2>13, <2>14, <2>15, <2>16, <2>17, <2>18, <2>19, KindsOfChecks
       DEF Next, SubmitReceived, NewTemplate, RecheckTick, DifficultyTick
<1> QED BY <1>1, <1>2, SessionTyped, PTL DEF Spec

(***************************************************************************)
(* The session is bound only to a device whose key the miner has proved    *)
(* (handleMessage DEVICE_AUTH, isSessionAuthorized).                       *)
(***************************************************************************)
THEOREM BoundToProvedDeviceAlways == Spec => []BoundToProvedDevice
BY SessionSoundAlways, PTL DEF SessionSound

(***************************************************************************)
(* Jobs and accepted shares go only to devices granted since the handler   *)
(* asked (enforceSessionAuthorizationOrClose before a job and a share).    *)
(***************************************************************************)
THEOREM ServedOnlyWhenGrantedAlways == Spec => []ServedOnlyWhenGranted
BY SessionSoundAlways, PTL DEF SessionSound

-----------------------------------------------------------------------------
(***************************************************************************)
(* SubscribesOnce is not inductive: that InitStratum finds nothing started *)
(* needs that the flag it tests is set whenever something was.             *)
(***************************************************************************)
FlagCovers == ~stratumInitialized => starting = 0 /\ subscriptions = 0

(***************************************************************************)
(* A session subscribes to the templates at most once (handleMessage's     *)
(* final test, initStratum).                                               *)
(***************************************************************************)
THEOREM SubscribesOnceAlways == Spec => []SubscribesOnce
<1>1. Init => FlagCovers /\ SubscribesOnce
  BY DEF Init, FlagCovers, SubscribesOnce
<1>2. TypeOK /\ FlagCovers /\ SubscribesOnce /\ [Next]_vars
        => FlagCovers' /\ SubscribesOnce'
  <2> SUFFICES ASSUME TypeOK, FlagCovers, SubscribesOnce, [Next]_vars
               PROVE  FlagCovers' /\ SubscribesOnce'
    OBVIOUS
  <2> USE DEF helloVars, initVars, deviceVars
  <2>1. CASE InitStratum
    BY <2>1 DEF InitStratum, CanInit, SubscribeTemplates, FlagCovers,
                SubscribesOnce, TypeOK
  <2>2. CASE Subscribed
    BY <2>2 DEF Subscribed, SubscribeTemplates, FlagCovers, SubscribesOnce,
                TypeOK
  <2>3. CASE InitWriteFails
    BY <2>3 DEF InitWriteFails, FlagCovers, SubscribesOnce, TypeOK
  <2>4. ASSUME NEW c \in calls, CallFails(c) PROVE FlagCovers' /\ SubscribesOnce'
    <3>1. /\ starting' \in {0, starting}
          /\ UNCHANGED <<stratumInitialized, subscriptions>>
      BY <2>4 DEF CallFails
    <3>2. starting' = 0 \/ starting' = starting
      BY <3>1
    <3>3. FlagCovers'
      <4>1. stratumInitialized' = stratumInitialized
        BY <3>1
      <4>2. subscriptions' = subscriptions
        BY <3>1
      <4> QED BY <3>2, <4>1, <4>2, Zenon DEF FlagCovers
    <3>4. SubscribesOnce'
      <4>1. starting \in Nat /\ subscriptions \in Nat
        BY DEF TypeOK
      <4>2. subscriptions' = subscriptions
        BY <3>1
      <4> QED BY <3>2, <4>1, <4>2 DEF SubscribesOnce
    <3> QED BY <3>3, <3>4
  <2>5. CASE UNCHANGED initVars
    BY <2>5 DEF FlagCovers, SubscribesOnce
  <2>6. ASSUME NEW d \in Devices,
               Grant(d) \/ Revoke(d) \/ DeviceChallenge(d) \/ DeviceAuthReceived(d)
        PROVE  UNCHANGED initVars
    BY <2>6 DEF Grant, Revoke, DeviceChallenge, DeviceAuthReceived
  <2>7. ASSUME Hello \/ SubmitBeforeInit \/ Close \/ Destroyed
        PROVE  UNCHANGED initVars
    BY <2>7 DEF Hello, SubmitBeforeInit, Close, Destroyed
  <2>8. ASSUME NEW kind \in Checks, StartCheck(kind) PROVE UNCHANGED initVars
    BY <2>8 DEF StartCheck
  <2>9. ASSUME NEW c \in calls,
               \/ Answer(c) \/ Verified(c) \/ Authorized(c)
               \/ CheckAllowed(c) \/ CheckDenied(c)
        PROVE  UNCHANGED initVars
    BY <2>9 DEF Answer, Verified, Authorized, CheckAllowed, CheckDenied
  <2>10. CASE UNCHANGED vars
    BY <2>5, <2>10 DEF vars
  <2> QED
    BY <2>1, <2>2, <2>3, <2>4, <2>5, <2>6, <2>7, <2>8, <2>9, <2>10, KindsOfChecks
       DEF Next, SubmitReceived, NewTemplate, RecheckTick, DifficultyTick
<1> QED BY <1>1, <1>2, SessionTyped, PTL DEF Spec
-----------------------------------------------------------------------------
(***************************************************************************)
(* What the 15 s check, which ends the session of a revoked device, rests  *)
(* on: a session that is served templates has its intervals running until  *)
(* its connection is closed, and once it is closed they run only while a   *)
(* destroy() that clears them waits for the database.  No order of         *)
(* subscribing, failing writes, closing and destroying leaves a session    *)
(* unwatched, or an interval behind it (destroy, initStratum, the 'close'  *)
(* handler of the socket).                                                 *)
(***************************************************************************)
IntervalsFollowSubscription ==
    /\ subscriptions > 0 /\ socket # "closed" => timers
    /\ timers /\ socket = "closed" => destroying

\* 'close' destroys sessions that have subscribed, and only those start;
\* destroy() runs on closed sockets only.
StartedOnSubscription ==
    /\ starting > 0 \/ timers => clientSubscription
    /\ destroying => socket = "closed"

THEOREM IntervalsFollowSubscriptionAlways ==
    Spec => []IntervalsFollowSubscription
<1> DEFINE Inv == IntervalsFollowSubscription /\ StartedOnSubscription
<1>1. Init => Inv
  BY DEF Init, IntervalsFollowSubscription, StartedOnSubscription
<1>2. TypeOK /\ Inv /\ [Next]_vars => Inv'
  <2> SUFFICES ASSUME TypeOK, Inv, [Next]_vars PROVE Inv'
    OBVIOUS
  <2> USE DEF IntervalsFollowSubscription, StartedOnSubscription, helloVars,
              initVars, deviceVars
  <2>0. starting \in Nat /\ subscriptions \in Nat
    BY DEF TypeOK
  <2>1. CASE Hello
    BY <2>1 DEF Hello
  <2>2. CASE InitStratum
    BY <2>0, <2>2 DEF InitStratum, CanInit, CanReceive, SubscribeTemplates
  <2>3. CASE Subscribed
    BY <2>0, <2>3 DEF Subscribed, SubscribeTemplates
  <2>4. CASE InitWriteFails
    BY <2>0, <2>4 DEF InitWriteFails
  <2>5. CASE Close
    BY <2>5 DEF Close
  <2>6. CASE Destroyed
    BY <2>6 DEF Destroyed
  <2>7. ASSUME UNCHANGED <<clientSubscription, starting, subscriptions, timers,
                           destroying>>,
               UNCHANGED socket \/ EndSocket
        PROVE  Inv'
    BY <2>7 DEF EndSocket
  <2>8. ASSUME NEW c \in calls, CallFails(c) PROVE Inv'
    <3>1. CASE c.kind \in Intervals
      BY <2>8, <3>1 DEF CallFails
    <3>2. CASE c.kind \notin Intervals
      BY <2>7, <2>8, <3>2 DEF CallFails
    <3> QED BY <3>1, <3>2
  <2>9. ASSUME NEW d \in Devices,
               Grant(d) \/ Revoke(d) \/ DeviceChallenge(d) \/ DeviceAuthReceived(d)
        PROVE  Inv'
    BY <2>7, <2>9 DEF Grant, Revoke, DeviceChallenge, DeviceAuthReceived
  <2>10. ASSUME NEW kind \in Checks, StartCheck(kind) PROVE Inv'
    BY <2>7, <2>10 DEF StartCheck
  <2>11. CASE SubmitBeforeInit \/ UNCHANGED vars
    BY <2>7, <2>11 DEF SubmitBeforeInit, vars
  <2>12. ASSUME NEW c \in calls,
                \/ Answer(c) \/ Verified(c) \/ Authorized(c)
                \/ CheckAllowed(c) \/ CheckDenied(c)
         PROVE  Inv'
    BY <2>7, <2>12 DEF Answer, Verified, Authorized, CheckAllowed, CheckDenied
  <2> QED
    BY <2>1, <2>2, <2>3, <2>4, <2>5, <2>6, <2>8, <2>9, <2>10, <2>11, <2>12,
       KindsOfChecks
       DEF Next, SubmitReceived, NewTemplate, RecheckTick, DifficultyTick
<1> QED BY <1>1, <1>2, SessionTyped, PTL DEF Spec
=============================================================================
