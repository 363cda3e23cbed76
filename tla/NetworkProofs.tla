---------------------------- MODULE NetworkProofs ----------------------------
(***************************************************************************)
(* Proofs about the way the device is reached, for any credentials, any    *)
(* parameters of the policy, and any number of guests, saves and power     *)
(* cuts.  The parts of the invariant are proved one after the other,       *)
(* action by action.                                                       *)
(***************************************************************************)
EXTENDS Network, TLAPS
(* The interval between attempts never exceeds its cap. *)
LEMMA LongerIsBounded ==
  ASSUME NEW b \in 0 .. MaxBackoff
  PROVE  Longer(b) \in 0 .. MaxBackoff
BY PolicyParameters DEF Longer, AtMost

(* A count that goes up by one stays at its limit. *)
LEMMA AtMostIsBounded ==
  ASSUME NEW limit \in Nat, NEW n \in 0 .. limit
  PROVE  AtMost(n + 1, limit) \in 0 .. limit
BY DEF AtMost

(* What storage holds after a power cut. *)
LEMMA BootedTypes ==
  ASSUME NEW pair
  PROVE  /\ Booted(pair).provisioned \in BOOLEAN /\ Booted(pair).apUp \in BOOLEAN
         /\ Booted(pair).phase \in {"backoff", "unprovisioned"}
         /\ Booted(pair).provisioned <=> Present(pair)
         /\ Booted(pair).phase = "backoff" <=> Present(pair)
BY DEF Booted, Present

(* The password read completes the pair. *)
LEMMA LoadedTypes ==
  ASSUME TypeOK
  PROVE  /\ [loaded EXCEPT !.ssid = stored.ssid] \in Pair
         /\ [loaded EXCEPT !.pass = stored.pass] \in Pair
         /\ [loaded EXCEPT !.pass = stored.pass].ssid = loaded.ssid
         /\ [loaded EXCEPT !.pass = stored.pass].pass = stored.pass
         /\ [loaded EXCEPT !.ssid = stored.ssid].ssid = stored.ssid
BY DEF TypeOK, Pair

(* So does each half that is saved. *)
LEMMA SavedTypes ==
  ASSUME TypeOK
  PROVE  [stored EXCEPT !.ssid = entered] \in Pair /\ [stored EXCEPT !.pass = entered] \in Pair
BY DEF TypeOK, Pair

(* Every step keeps the types. *)
LEMMA TypeStep ==
  ASSUME TypeOK, Next
  PROVE  TypeOK'
<1> USE PolicyParameters, Bounds DEF TypeOK, policy, flags, radio, main, http, fate, Phases, Whole
<1>a. \A c \in Cred \cup {NoCred} : [ssid |-> c, pass |-> c] \in Pair
  BY DEF Pair
<1>1. CASE TakeGotIp
  <2>1. waited' \in 0 .. MaxBackoff
    BY <1>1, AtMostIsBounded DEF TakeGotIp
  <2>2. known' \subseteq Cred
    BY <1>1 DEF TakeGotIp
  <2>3. phase' \in Phases /\ failures' \in 0 .. MaxFailures /\ backoff' \in 0 .. MaxBackoff
    BY <1>1 DEF TakeGotIp
  <2>4. /\ gotIp' \in BOOLEAN /\ mpc' = "lost"
        /\ UNCHANGED <<provisioned, guests, lost, apGuests, apUp, stored, radio, loaded,
                       counted, http, saves, cuts, untried, missed>>
    BY <1>1 DEF TakeGotIp, Goto
  <2>5. QED
    BY <2>1, <2>2, <2>3, <2>4
<1>2. CASE TakeLost
  <2>1. missed' \in BOOLEAN
    BY <1>2, Zenon DEF TakeLost
  <2>2. counted' \in 0 .. MaxFailures /\ mpc' \in {"failed", "decide"} /\ lost' \in BOOLEAN
    BY <1>2 DEF TakeLost, Goto, OnFailed
  <2>3. UNCHANGED <<policy, gotIp, apGuests, apUp, stored, radio, loaded, http, saves,
                    cuts, known, untried>>
    BY <1>2 DEF TakeLost
  <2>4. QED
    BY <2>1, <2>2, <2>3
<1>3. CASE RecordFailure
  <2>1. failures' \in 0 .. MaxFailures
    BY <1>3, AtMostIsBounded DEF RecordFailure
  <2>2. known' \subseteq Cred /\ mpc' \in {"decide", "access"}
    BY <1>3 DEF RecordFailure, Goto
  <2>3. backoff' \in 0 .. MaxBackoff
    BY <1>3, LongerIsBounded DEF RecordFailure
  <2>4. waited' = 0 /\ phase' = "backoff"
    BY <1>3 DEF RecordFailure
  <2>5. missed' \in BOOLEAN
    BY <1>3, Zenon DEF RecordFailure
  <2>6. QED
    BY <1>3, <2>1, <2>2, <2>3, <2>4, <2>5 DEF RecordFailure
<1>4. CASE Decide
  BY <1>4 DEF Decide, Goto
<1>5. CASE LoadSsid
  <2>1. loaded' \in Pair
    BY <1>5, LoadedTypes DEF LoadSsid
  <2>2. mpc' = "pass" /\ UNCHANGED <<policy, flags, apGuests, apUp, stored, radio, counted, http, fate>>
    BY <1>5 DEF LoadSsid, Goto
  <2>3. QED
    BY <2>1, <2>2
<1>6. CASE LoadPassword
  <2>1. loaded' \in Pair
    BY <1>6, LoadedTypes DEF LoadPassword
  <2>2. mpc' \in {"configure", "forget"} /\ provisioned' \in BOOLEAN
    BY <1>6 DEF LoadPassword, Goto
  <2>3. UNCHANGED <<phase, guests, failures, backoff, waited, flags, apGuests, apUp,
                    stored, radio, counted, http, fate>>
    BY <1>6 DEF LoadPassword
  <2>4. QED
    BY <2>1, <2>2, <2>3
<1>7. CASE ForgetPolicy
  BY <1>7 DEF ForgetPolicy, Goto
<1>8. CASE Configure
  <2>1. untried' \in BOOLEAN
    BY <1>8, Zenon DEF Configure
  <2>2. QED
    BY <1>8, <2>1 DEF Configure, Goto, OnFailed
<1>9. CASE Connect
  BY <1>9 DEF Connect, Goto, OnFailed
<1>10. CASE RaiseAccessPoint
  BY <1>10, <1>a DEF RaiseAccessPoint, EndTick
<1>11. CASE LeaveAccessPoint
  BY <1>11, <1>a DEF LeaveAccessPoint, EndTick
<1>12. CASE BeginSave
  BY <1>12 DEF BeginSave
<1>13. CASE SaveFails
  BY <1>13 DEF SaveFails
<1>14. CASE SaveSsid
  <2>1. stored' \in Pair
    BY <1>14, SavedTypes DEF SaveSsid
  <2>2. hpc' = "pass" /\ UNCHANGED <<policy, flags, apGuests, apUp, radio, main, entered, seen, fate>>
    BY <1>14 DEF SaveSsid
  <2>3. QED
    BY <2>1, <2>2
<1>15. CASE SavePassword
  <2>1. stored' \in Pair
    BY <1>15, SavedTypes DEF SavePassword
  <2>2. hpc' = "commit" /\ UNCHANGED <<policy, flags, apGuests, apUp, radio, main, entered, seen, fate>>
    BY <1>15 DEF SavePassword
  <2>3. QED
    BY <2>1, <2>2
<1>16. CASE Commit
  BY <1>16 DEF Commit
<1>17. CASE ResetPolicy
  BY <1>17 DEF ResetPolicy
<1>18. CASE LookAtPhase
  BY <1>18 DEF LookAtPhase
<1>19. CASE StorePhase
  BY <1>19 DEF StorePhase
<1>20. CASE Outcome
  BY <1>20 DEF Outcome
<1>21. CASE Deliver
  <2>1. missed' \in BOOLEAN
    BY <1>21, Zenon DEF Deliver
  <2>2. events' \in Seq({"ip", "lost"})
    BY <1>21 DEF Deliver
  <2>3. gotIp' \in BOOLEAN /\ lost' \in BOOLEAN
    BY <1>21 DEF Deliver
  <2>4. QED
    BY <1>21, <2>1, <2>2, <2>3 DEF Deliver
<1>22. CASE Visit
  BY <1>22 DEF Visit
<1>23. CASE Restart
  <2>1. provisioned' \in BOOLEAN /\ apUp' \in BOOLEAN /\ phase' \in Phases
    BY <1>23, BootedTypes DEF Restart
  <2>2. cuts' \in 0 .. PowerCuts
    BY <1>23 DEF Restart
  <2>3. using' \in Pair /\ loaded' \in Pair /\ events' \in Seq({"ip", "lost"})
    BY <1>23, <1>a DEF Restart
  <2>4. /\ guests' = 0 /\ failures' = 0 /\ backoff' = 0 /\ waited' = 0
        /\ gotIp' \in BOOLEAN /\ lost' \in BOOLEAN /\ apGuests' = 0 /\ link' = "off" /\ mpc' = "idle"
        /\ counted' = 0 /\ hpc' = "idle" /\ entered' = NoCred /\ seen' = "unprovisioned"
        /\ known' = {} /\ untried' \in BOOLEAN /\ missed' \in BOOLEAN /\ UNCHANGED <<stored, saves>>
    BY <1>23 DEF Restart
  <2>5. QED
    BY <2>1, <2>2, <2>3, <2>4
<1>24. QED
  BY <1>1, <1>2, <1>3, <1>4, <1>5, <1>6, <1>7, <1>8, <1>9, <1>10, <1>11, <1>12,
     <1>13, <1>14, <1>15, <1>16, <1>17, <1>18, <1>19, <1>20, <1>21, <1>22, <1>23 DEF Next, Tick, Saving

(* Where the two tasks are still says what policy and storage hold. *)
LEMMA WalkStep ==
  ASSUME TypeOK, Walk, Next
  PROVE  Walk'
<1> USE DEF Walk, policy, flags, radio, main, http, fate
<1>a. stored \in Pair /\ entered \in Cred \cup {NoCred} /\ guests \in Nat
  BY Bounds DEF TypeOK
<1>1. CASE TakeGotIp
  BY <1>1, <1>a DEF TakeGotIp, Goto
<1>2. CASE TakeLost
  BY <1>2, <1>a DEF TakeLost, Goto, OnFailed
<1>3. CASE RecordFailure
  BY <1>3, <1>a DEF RecordFailure, Goto
<1>4. CASE Decide
  BY <1>4, <1>a DEF Decide, Goto, ShouldAttempt
<1>5. CASE LoadSsid
  BY <1>5, <1>a DEF LoadSsid, Goto
<1>6. CASE LoadPassword
  BY <1>6, <1>a DEF LoadPassword, Goto
<1>7. CASE ForgetPolicy
  BY <1>7, <1>a DEF ForgetPolicy, Goto
<1>8. CASE Configure
  BY <1>8, <1>a DEF Configure, Goto, OnFailed
<1>9. CASE Connect
  BY <1>9, <1>a DEF Connect, Goto, OnFailed
<1>10. CASE RaiseAccessPoint
  BY <1>10, <1>a DEF RaiseAccessPoint, EndTick
<1>11. CASE LeaveAccessPoint
  BY <1>11, <1>a DEF LeaveAccessPoint, EndTick
<1>12. CASE BeginSave
  BY <1>12, <1>a DEF BeginSave
<1>13. CASE SaveFails
  BY <1>13, <1>a DEF SaveFails
<1>14. CASE SaveSsid
  BY <1>14, <1>a DEF SaveSsid, Pair
<1>15. CASE SavePassword
  BY <1>15, <1>a DEF SavePassword, Pair
<1>16. CASE Commit
  BY <1>16, <1>a DEF Commit
<1>17. CASE ResetPolicy
  BY <1>17, <1>a DEF ResetPolicy
<1>18. CASE LookAtPhase
  BY <1>18, <1>a DEF LookAtPhase
<1>19. CASE StorePhase
  BY <1>19, <1>a DEF StorePhase
<1>20. CASE Outcome
  BY <1>20, <1>a DEF Outcome
<1>21. CASE Deliver
  BY <1>21, <1>a DEF Deliver
<1>22. CASE Visit
  BY <1>22, <1>a DEF Visit
<1>23. CASE Restart
  <2>1. mpc' = "idle" /\ hpc' = "idle" /\ phase' \in {"backoff", "unprovisioned"}
    BY <1>23, BootedTypes DEF Restart
  <2>2. QED
    BY <2>1
<1>24. QED
  BY <1>1, <1>2, <1>3, <1>4, <1>5, <1>6, <1>7, <1>8, <1>9, <1>10, <1>11, <1>12,
     <1>13, <1>14, <1>15, <1>16, <1>17, <1>18, <1>19, <1>20, <1>21, <1>22, <1>23 DEF Next, Tick, Saving

(* What may be tried while a guest is there is not known to fail. *)
LEMMA SparedStep ==
  ASSUME TypeOK, Walk, Spared, Next
  PROVE  Spared'
<1> USE DEF Spared, Fresh, Whole, policy, flags, radio, main, http, fate
<1>a. /\ stored \in Pair /\ loaded \in Pair /\ using \in Pair /\ guests \in Nat /\ failures \in Nat
      /\ provisioned \in BOOLEAN /\ known \subseteq Cred
  BY Bounds, PolicyParameters DEF TypeOK
<1>1. CASE TakeGotIp
  BY <1>1, <1>a DEF TakeGotIp, Goto
<1>2. CASE TakeLost
  BY <1>2, <1>a DEF TakeLost, Goto, OnFailed
<1>3. CASE RecordFailure
  <2>1. failures' # 0
    <3>1. failures' = AtMost(counted + 1, MaxFailures) /\ counted \in Nat
      BY <1>3 DEF RecordFailure, TypeOK
    <3>2. QED
      BY <3>1, PolicyParameters DEF AtMost
  <2>2. /\ known' = known \cup {c \in Cred : Whole(c) = using} /\ mpc' \in {"decide", "access"}
        /\ UNCHANGED <<hpc, entered, using>>
    BY <1>3 DEF RecordFailure, Goto
  <2>3. hpc' \in {"look", "store"} /\ entered' \in known' => using' = Whole(entered')
    BY <2>2
  <2>4. QED
    BY <2>1, <2>2, <2>3
<1>4. CASE Decide
  BY <1>4, <1>a DEF Decide, Goto, Walk, ShouldAttempt
<1>5. CASE LoadSsid
  BY <1>5, <1>a DEF LoadSsid, Goto, Walk, Pair
<1>6. CASE LoadPassword
  BY <1>6, <1>a DEF LoadPassword, Goto, Walk, Pair
<1>7. CASE ForgetPolicy
  BY <1>7, <1>a DEF ForgetPolicy, Goto, Walk
<1>8. CASE Configure
  BY <1>8, <1>a DEF Configure, Goto, OnFailed, Walk, Pair
<1>9. CASE Connect
  BY <1>9, <1>a DEF Connect, Goto, OnFailed, Walk
<1>10. CASE RaiseAccessPoint
  BY <1>10, <1>a DEF RaiseAccessPoint, EndTick
<1>11. CASE LeaveAccessPoint
  BY <1>11, <1>a DEF LeaveAccessPoint, EndTick
<1>12. CASE BeginSave
  BY <1>12, <1>a DEF BeginSave
<1>13. CASE SaveFails
  BY <1>13, <1>a DEF SaveFails
<1>14. CASE SaveSsid
  BY <1>14, <1>a DEF SaveSsid, Walk, Pair
<1>15. CASE SavePassword
  BY <1>15, <1>a DEF SavePassword, Walk, Pair
<1>16. CASE Commit
  BY <1>16, <1>a DEF Commit, Walk
<1>17. CASE ResetPolicy
  BY <1>17, <1>a DEF ResetPolicy, Walk
<1>18. CASE LookAtPhase
  BY <1>18, <1>a DEF LookAtPhase
<1>19. CASE StorePhase
  BY <1>19, <1>a DEF StorePhase, Walk
<1>20. CASE Outcome
  BY <1>20, <1>a DEF Outcome
<1>21. CASE Deliver
  BY <1>21, <1>a DEF Deliver
<1>22. CASE Visit
  BY <1>22, <1>a DEF Visit
<1>23. CASE Restart
  BY <1>23, <1>a DEF Restart
<1>24. QED
  BY <1>1, <1>2, <1>3, <1>4, <1>5, <1>6, <1>7, <1>8, <1>9, <1>10, <1>11, <1>12,
     <1>13, <1>14, <1>15, <1>16, <1>17, <1>18, <1>19, <1>20, <1>21, <1>22, <1>23 DEF Next, Tick, Saving

(* The policy is still told of every loss it can be told of. *)
LEMMA ToldStep ==
  ASSUME TypeOK, Walk, Told, Next
  PROVE  Told'
<1> USE DEF Told, Pending, policy, flags, radio, main, http, fate
<1>a. /\ events \in Seq({"ip", "lost"}) /\ link \in {"off", "trying", "up"}
      /\ gotIp \in BOOLEAN /\ lost \in BOOLEAN /\ missed \in BOOLEAN /\ provisioned \in BOOLEAN
  BY DEF TypeOK
<1>1. CASE TakeGotIp
  BY <1>1, <1>a DEF TakeGotIp, Goto
<1>2. CASE TakeLost
  BY <1>2, <1>a DEF TakeLost, Goto, OnFailed, Walk
<1>3. CASE RecordFailure
  BY <1>3, <1>a DEF RecordFailure, Goto
<1>4. CASE Decide
  BY <1>4, <1>a DEF Decide, Goto
<1>5. CASE LoadSsid
  BY <1>5, <1>a DEF LoadSsid, Goto
<1>6. CASE LoadPassword
  BY <1>6, <1>a DEF LoadPassword, Goto, Walk
<1>7. CASE ForgetPolicy
  BY <1>7, <1>a DEF ForgetPolicy, Goto, Walk
<1>8. CASE Configure
  BY <1>8, <1>a DEF Configure, Goto, OnFailed, Walk
<1>9. CASE Connect
  BY <1>9, <1>a DEF Connect, Goto, OnFailed, Walk
<1>10. CASE RaiseAccessPoint
  BY <1>10, <1>a DEF RaiseAccessPoint, EndTick
<1>11. CASE LeaveAccessPoint
  BY <1>11, <1>a DEF LeaveAccessPoint, EndTick
<1>12. CASE BeginSave
  BY <1>12, <1>a DEF BeginSave
<1>13. CASE SaveFails
  BY <1>13, <1>a DEF SaveFails
<1>14. CASE SaveSsid
  BY <1>14, <1>a DEF SaveSsid
<1>15. CASE SavePassword
  BY <1>15, <1>a DEF SavePassword
<1>16. CASE Commit
  BY <1>16, <1>a DEF Commit
<1>17. CASE ResetPolicy
  BY <1>17, <1>a DEF ResetPolicy
<1>18. CASE LookAtPhase
  BY <1>18, <1>a DEF LookAtPhase
<1>19. CASE StorePhase
  BY <1>19, <1>a DEF StorePhase
<1>20. CASE Outcome
  BY <1>20, <1>a DEF Outcome
<1>21. CASE Deliver
  <2>1. /\ events # <<>> /\ events' = Tail(events)
        /\ missed' = (missed \/ (mpc = "lost" /\ gotIp /\ Head(events) = "lost"))
        /\ UNCHANGED <<phase, link, mpc, provisioned>>
    BY <1>21 DEF Deliver
  <2>2. \/ Head(events) = "ip" /\ gotIp' = TRUE /\ UNCHANGED lost
        \/ Head(events) = "lost" /\ lost' = TRUE /\ UNCHANGED gotIp
    BY <1>21, <1>a DEF Deliver
  <2>3. /\ Len(events') = Len(events) - 1 /\ Len(events) \in Nat \ {0}
        /\ \A i \in 1 .. Len(events') : events'[i] = events[i + 1]
        /\ events[1] = Head(events)
    BY <1>a, <2>1
  <2>4. link' = "off" /\ events' # <<>> => events'[Len(events')] = "lost"
    BY <1>a, <2>1, <2>3
  <2>5. \A e \in {"ip", "lost"} : Pending(e) => Pending(e)'
    <3>1. ASSUME NEW e \in {"ip", "lost"}, Pending(e)
          PROVE  Pending(e)'
      <4>1. CASE e = Head(events)
        BY <2>2, <4>1
      <4>2. CASE e # Head(events) /\ \E i \in 1 .. Len(events) : events[i] = e
        <5>1. PICK i \in 1 .. Len(events) : events[i] = e
          BY <4>2
        <5>2. i - 1 \in 1 .. Len(events') /\ events'[i - 1] = e
          BY <2>3, <4>2, <5>1
        <5>3. QED
          BY <5>2
      <4>3. CASE e # Head(events) /\ ~\E i \in 1 .. Len(events) : events[i] = e
        BY <2>2, <3>1, <4>3
      <4>4. QED
        BY <4>1, <4>2, <4>3
    <3>2. QED
      BY <3>1
  <2>6. ASSUME ~missed'
        PROVE  /\ gotIp' /\ link' = "off" => events' # <<>> \/ (mpc' # "lost" /\ lost')
               /\ phase' = "connected" /\ mpc' # "failed" => link' # "off" \/ Pending("lost")'
    <3>1. ~missed /\ ~(mpc = "lost" /\ gotIp /\ Head(events) = "lost")
      BY <2>1, <2>6
    <3>2. CASE Head(events) = "ip"
      <4>1. link = "off" => events' # <<>>
        <5>1. ASSUME link = "off" PROVE Len(events) # 1
          BY <2>1, <2>3, <3>2, <5>1
        <5>2. Len(<<>>) = 0
          OBVIOUS
        <5>3. QED
          BY <2>3, <5>1, <5>2
      <4>2. QED
        BY <2>1, <2>5, <3>1, <4>1
    <3>3. CASE Head(events) = "lost"
      <4>1. lost' = TRUE /\ gotIp' = gotIp
        BY <2>2, <3>3
      <4>2. QED
        BY <1>a, <2>1, <2>5, <3>1, <3>3, <4>1
    <3>4. QED
      BY <2>2, <3>2, <3>3
  <2>7. QED
    BY <2>1, <2>4, <2>5, <2>6
<1>22. CASE Visit
  BY <1>22, <1>a DEF Visit
<1>23. CASE Restart
  <2>1. phase' \in {"backoff", "unprovisioned"} /\ events' = <<>> /\ gotIp' = FALSE
    BY <1>23, BootedTypes DEF Restart
  <2>2. QED
    BY <2>1
<1>24. QED
  BY <1>1, <1>2, <1>3, <1>4, <1>5, <1>6, <1>7, <1>8, <1>9, <1>10, <1>11, <1>12,
     <1>13, <1>14, <1>15, <1>16, <1>17, <1>18, <1>19, <1>20, <1>21, <1>22, <1>23 DEF Next, Tick, Saving

(* Before its first tick the device has tried nothing. *)
LEMMA InitInv == Init => Inv
<1> SUFFICES ASSUME Init PROVE Inv
  OBVIOUS
<1> USE DEF Init
<1>1. provisioned \in BOOLEAN /\ apUp \in BOOLEAN /\ phase \in {"backoff", "unprovisioned"}
  BY BootedTypes
<1>2. stored \in Pair /\ using \in Pair /\ loaded \in Pair
  BY DEF Whole, Pair
<1>3. TypeOK
  <2>1. /\ gotIp \in BOOLEAN /\ lost \in BOOLEAN /\ untried \in BOOLEAN /\ missed \in BOOLEAN
    OBVIOUS
  <2>2. /\ guests = 0 /\ failures = 0 /\ backoff = 0 /\ waited = 0 /\ apGuests = 0 /\ counted = 0
        /\ link = "off" /\ events = <<>> /\ mpc = "idle" /\ hpc = "idle" /\ entered = NoCred
        /\ seen = "unprovisioned" /\ saves = Saves /\ cuts = PowerCuts /\ known = {}
    OBVIOUS
  <2>3. QED
    BY <1>1, <1>2, <2>1, <2>2, PolicyParameters, Bounds DEF TypeOK, Phases
<1>4. Walk /\ Spared /\ Told
  BY <1>1 DEF Walk, Spared, Told
<1>5. QED
  BY <1>3, <1>4 DEF Inv

(* A step that changes nothing disturbs nothing. *)
LEMMA StutterInv ==
  ASSUME Inv, UNCHANGED vars
  PROVE  Inv'
<1> USE DEF Inv, vars, policy, flags, radio, main, http, fate
<1>1. TypeOK'
  BY DEF TypeOK
<1>2. Walk' /\ Spared'
  BY DEF Walk, Spared, Fresh
<1>3. Told'
  BY DEF Told, Pending
<1>4. QED
  BY <1>1, <1>2, <1>3

(* The invariant of the way the device is reached. *)
THEOREM Invariance == Spec => []Inv
<1>1. Inv /\ [Next]_vars => Inv'
  BY TypeStep, WalkStep, SparedStep, ToldStep, StutterInv DEF Inv
<1>2. QED
  BY <1>1, InitInv, PTL DEF Spec

(* Every variable keeps its type; the interval between attempts never      *)
(* exceeds its cap (network_policy.cpp:66-76).                             *)
THEOREM TypeCorrect == Spec => []TypeOK
<1>1. Inv => TypeOK
  BY DEF Inv
<1>2. QED
  BY <1>1, Invariance, PTL

(* The phase never waits for what will not come, unless a loss was missed, *)
(* whatever the number of saves, guests and power cuts (wifi.cpp:130-131). *)
THEOREM PhasesAreTrue == Spec => []PhaseIsTrue
<1>1. Inv => PhaseIsTrue
  BY DEF Inv, Told, PhaseIsTrue
<1>2. QED
  BY <1>1, Invariance, PTL

(* While somebody is on the setup page nothing is tried that is known to   *)
(* fail, however saves, attempts and their failures fall together          *)
(* (network_policy.hpp:66-69).                                             *)
THEOREM GuestsAreLeftAlone == Spec => []GuestsLeftAlone
<1>1. Inv => GuestsLeftAlone
  BY DEF Inv, TypeOK, Spared, GuestsLeftAlone
<1>2. QED
  BY <1>1, Invariance, PTL
=============================================================================
