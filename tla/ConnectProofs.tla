----------------------------- MODULE ConnectProofs -----------------------------
(***************************************************************************)
(* Proofs about Connect, for any backoff and any number of silent deaths,  *)
(* rivals and early watchdogs: reconnecting leaks no interval, and the     *)
(* backoff is capped if its first step is.                                 *)
(***************************************************************************)
EXTENDS Connect, TLAPS

\* An open connection has both of its intervals, so that clearing one of them
\* and later the rest leaves none.
BothArmed == control = "open" => own = 2

ConnectInv == TypeOK /\ NoTimerLeak /\ BothArmed

LEMMA ConnectStep == ConnectInv /\ [Next]_vars => ConnectInv'
<1> SUFFICES ASSUME ConnectInv, [Next]_vars PROVE ConnectInv'
  OBVIOUS
<1> USE ConnectAssumption DEF ConnectInv, TypeOK, NoTimerLeak, BothArmed
<1>1. CASE connectToServer
  BY <1>1 DEF connectToServer, budget
<1>2. CASE DialFails
  BY <1>2 DEF DialFails, timers, peer, budget
<1>3. CASE Connected
  BY <1>3 DEF Connected, budget
<1>4. CASE FirstData
  BY <1>4 DEF FirstData, timers, peer, budget
<1>5. CASE MoreData
  BY <1>5 DEF MoreData, vars, timers, peer, budget
<1>6. ASSUME LivenessTimeout \/ LivenessTooEarly PROVE ConnectInv'
  <2>1. LivenessDestroys
    BY <1>6 DEF LivenessTimeout, LivenessTooEarly
  <2>2. cuts' = cuts /\ others' = others /\ early' \in 0 .. MaxEarly
    BY <1>6 DEF LivenessTimeout, LivenessTooEarly, budget
  <2>3. QED BY <2>1, <2>2 DEF LivenessDestroys, peer
<1>7. CASE PeerClosed
  BY <1>7 DEF PeerClosed, timers, peer, budget
<1>8. CASE Closed
  <2>1. reconnectDelay' \in Nat
    BY <1>8 DEF Closed, NextDelay
  <2>2. intervals' = 0 /\ own' = 0
    BY <1>8 DEF Closed, StillOwned
  <2>3. QED BY <1>8, <2>1, <2>2 DEF Closed, budget
<1>9. CASE Authenticated
  BY <1>9 DEF Authenticated, timers, budget
<1>10. CASE ListenDrops
  BY <1>10 DEF ListenDrops, timers, budget
<1>11. CASE ListenDropsUs
  BY <1>11 DEF ListenDropsUs, timers
<1>12. CASE OtherConnects
  BY <1>12 DEF OtherConnects, timers
<1>13. CASE GoesSilent
  BY <1>13 DEF GoesSilent, timers
<1>14. CASE UNCHANGED vars
  BY <1>14 DEF vars, timers, peer, budget
<1>15. QED
  BY <1>1, <1>2, <1>3, <1>4, <1>5, <1>6, <1>7, <1>8, <1>9, <1>10, <1>11, <1>12, <1>13, <1>14 DEF Next

-----------------------------------------------------------------------------
\* The invariant holds in every reachable state.
THEOREM ConnectInvHolds == Spec => []ConnectInv
<1>1. Init => ConnectInv
  <2> SUFFICES ASSUME Init PROVE ConnectInv
    OBVIOUS
  <2>1. TypeOK
    <3>1. established \in BOOLEAN /\ cut \in BOOLEAN
      BY DEF Init
    <3>2. cuts \in 0 .. MaxCuts /\ others \in 0 .. MaxOthers /\ early \in 0 .. MaxEarly
      BY ConnectAssumption DEF Init
    <3>3. QED BY <3>1, <3>2 DEF Init, TypeOK
  <2>2. NoTimerLeak /\ BothArmed
    BY DEF Init, NoTimerLeak, BothArmed
  <2>3. QED BY <2>1, <2>2 DEF ConnectInv
<1>2. QED BY <1>1, ConnectStep, PTL DEF Spec

\* Every reachable state is well typed (TypeOK): no counter ever goes negative.
THEOREM ConnectTypeOK == Spec => []TypeOK
  BY ConnectInvHolds, PTL DEF ConnectInv

\* Reconnecting leaks no interval (NoTimerLeak), however often and however each
\* connection ends.
THEOREM NoTimerLeakHolds == Spec => []NoTimerLeak
  BY ConnectInvHolds, PTL DEF ConnectInv

\* The backoff never exceeds its cap (DelayCapped), provided that the first
\* step does not, which the code fails to ensure.
THEOREM DelayCappedHolds ==
    ASSUME Step <= MaxDelay
    PROVE  Spec => []DelayCapped
<1>1. Init => DelayCapped
  BY ConnectAssumption DEF Init, DelayCapped
<1>2. ConnectInv /\ DelayCapped /\ [Next]_vars => DelayCapped'
  <2> SUFFICES ASSUME ConnectInv, DelayCapped, [Next]_vars PROVE DelayCapped'
    OBVIOUS
  <2>1. CASE Closed
    BY <2>1, ConnectAssumption DEF Closed, NextDelay, DelayCapped, ConnectInv, TypeOK
  <2>2. CASE reconnectDelay' = reconnectDelay \/ reconnectDelay' = 0
    BY <2>2, ConnectAssumption DEF DelayCapped
  <2>3. Closed \/ reconnectDelay' = reconnectDelay \/ reconnectDelay' = 0
    BY DEF Next, vars, connectToServer, DialFails, Connected, FirstData, MoreData, LivenessTimeout,
           LivenessTooEarly, LivenessDestroys, PeerClosed, Authenticated, ListenDrops,
           ListenDropsUs, OtherConnects, GoesSilent
  <2>4. QED BY <2>1, <2>2, <2>3
<1>3. QED BY ConnectInvHolds, <1>1, <1>2, PTL DEF Spec
=============================================================================
