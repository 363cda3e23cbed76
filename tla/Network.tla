------------------------------- MODULE Network -------------------------------
(***************************************************************************)
(* How the device stays reachable: it connects with the stored             *)
(* credentials, backs off after failures, and raises an access point with  *)
(* a setup page when it cannot connect.                                    *)
(*                                                                         *)
(* Three tasks meet here.  The main loop's tick drives domain::            *)
(* NetworkPolicy; the driver's event task sets flags for it; the HTTP      *)
(* server stores new credentials and, although the policy has no lock,     *)
(* calls it too.  What one task reads of the policy and then writes is two *)
(* steps wherever the other can tell.  Storage and driver calls may fail,  *)
(* power may fail anywhere.                                                *)
(*                                                                         *)
(* A tick of the loop is the unit of time.  The text of the status and the *)
(* scan for the setup page are left out.                                   *)
(***************************************************************************)
EXTENDS Naturals, Sequences

CONSTANTS
  Cred,         \* what somebody may enter: a name and its password
  NoCred,       \* nothing stored
  FirstBackoff, MaxBackoff, ApAfterFailures,  \* the policy's parameters
  MaxFailures,  \* where the failure count saturates (UINT8_MAX)
  MaxGuests,    \* clients the access point takes
  Saves, PowerCuts \* bounds

ASSUME CredentialsDistinct == NoCred \notin Cred
ASSUME PolicyParameters ==   \* g_policy{1000, 60000, 3}
  /\ MaxBackoff \in Nat /\ FirstBackoff \in 1 .. MaxBackoff
  /\ MaxFailures \in Nat /\ ApAfterFailures \in 1 .. MaxFailures
ASSUME Bounds ==
  MaxGuests \in Nat /\ Saves \in Nat /\ PowerCuts \in Nat

VARIABLES
  phase, provisioned, guests, failures, backoff,  \* NetworkPolicy
  waited,       \* time since backoff_since_, up to MaxBackoff
  gotIp, lost,  \* g_sta_got_ip, g_sta_lost
  apGuests,     \* g_ap_guests
  apUp,         \* g_status.access_point_up
  stored,       \* NVS: the name of one and the password of one
  link, using,  \* the driver: station state, and what it connects with
  events,       \* events it has still to deliver
  mpc, loaded, counted,  \* tick: step, credentials read, failures read
  hpc, entered, seen,    \* save_credentials: step, argument, phase read
  saves, cuts,  \* saves and power cuts still to come
  \* history
  known,        \* credentials that failed since they were last entered
  untried,      \* the credentials entered last are not those tried last
  missed        \* the policy was told of a lost connection when it could not tell,
                \*   and has recorded no failure since that would correct it

policy == <<phase, provisioned, guests, failures, backoff, waited>>
flags  == <<gotIp, lost>>
radio  == <<link, using, events>>
main   == <<mpc, loaded, counted>>
http   == <<hpc, entered, seen>>
fate   == <<saves, cuts, known, untried, missed>>
vars   == <<policy, flags, apGuests, apUp, stored, radio, main, http, fate>>

Phases == {"unprovisioned", "connecting", "connected", "backoff"}
Pair   == [ssid : Cred \cup {NoCred}, pass : Cred \cup {NoCred}]
Whole(c) == [ssid |-> c, pass |-> c]

TypeOK ==
  /\ phase \in Phases /\ seen \in Phases /\ provisioned \in BOOLEAN
  /\ gotIp \in BOOLEAN /\ lost \in BOOLEAN /\ apUp \in BOOLEAN
  /\ guests \in 0 .. MaxGuests /\ apGuests \in 0 .. MaxGuests
  /\ failures \in 0 .. MaxFailures /\ counted \in 0 .. MaxFailures
  /\ backoff \in 0 .. MaxBackoff /\ waited \in 0 .. MaxBackoff
  /\ stored \in Pair /\ using \in Pair /\ loaded \in Pair
  /\ link \in {"off", "trying", "up"}
  /\ events \in Seq({"ip", "lost"})
  /\ mpc \in {"idle", "lost", "failed", "decide", "ssid", "pass",
              "forget", "configure", "connect", "access"}
  /\ hpc \in {"idle", "ssid", "pass", "commit", "reset", "look", "store"}
  /\ entered \in Cred \cup {NoCred}
  /\ saves \in 0 .. Saves /\ cuts \in 0 .. PowerCuts
  /\ known \subseteq Cred /\ untried \in BOOLEAN /\ missed \in BOOLEAN

Present(pair) == pair.ssid # NoCred /\ pair.pass # NoCred

(* begin(), with what storage holds: set_provisioned() on a new policy, and *)
(* the access point at once if it asks for one.                            *)
Booted(pair) ==
  [provisioned |-> Present(pair),
   phase       |-> IF Present(pair) THEN "backoff" ELSE "unprovisioned",
   apUp        |-> ~Present(pair)]

Init ==
  /\ stored \in {Whole(c) : c \in Cred \cup {NoCred}}
  /\ provisioned = Booted(stored).provisioned
  /\ phase = Booted(stored).phase
  /\ apUp = Booted(stored).apUp
  /\ guests = 0 /\ failures = 0 /\ backoff = 0 /\ waited = 0
  /\ gotIp = FALSE /\ lost = FALSE /\ apGuests = 0
  /\ link = "off" /\ using = Whole(NoCred) /\ events = <<>>
  /\ mpc = "idle" /\ loaded = Whole(NoCred) /\ counted = 0
  /\ hpc = "idle" /\ entered = NoCred /\ seen = "unprovisioned"
  /\ saves = Saves /\ cuts = PowerCuts
  /\ known = {} /\ untried = FALSE /\ missed = FALSE

-----------------------------------------------------------------------------
(* NetworkPolicy's decisions.                                              *)

AtMost(a, b) == IF a < b THEN a ELSE b

(* The interval after one more failure: doubled, up to the cap. *)
Longer(b) ==
  IF b = 0 THEN FirstBackoff ELSE IF b < MaxBackoff THEN AtMost(2 * b, MaxBackoff) ELSE b

(* Mutant of ShouldAttempt: guests do not hold a retry back. *)
ShouldAttemptAnyway ==
  /\ provisioned
  /\ phase \notin {"connecting", "connected"}
  /\ waited >= backoff

(* Mutant of ShouldAttempt: one failure is not enough to give up. *)
ShouldAttemptTwice ==
  /\ provisioned
  /\ phase \notin {"connecting", "connected"}
  /\ guests' = 0 \/ failures <= 1
  /\ waited >= backoff

ShouldAttempt ==
  /\ provisioned
  /\ phase \notin {"connecting", "connected"}
  /\ guests' = 0 \/ failures = 0
  /\ waited >= backoff

(* Mutant of ShouldOpenAccessPoint: only a device without credentials. *)
ShouldOpenWhenUnprovisioned == ~provisioned

ShouldOpenAccessPoint ==
  \/ ~provisioned
  \/ phase # "connected" /\ failures >= ApAfterFailures

-----------------------------------------------------------------------------
(* tick(): the event flags, connected first.                               *)

Goto(step) == mpc' = step

TakeGotIp ==
  /\ mpc = "idle"
  /\ waited' = AtMost(waited + 1, MaxBackoff)
  /\ gotIp' = FALSE
  /\ IF gotIp
       THEN /\ phase' = "connected" /\ failures' = 0 /\ backoff' = 0
            /\ known' = {c \in known : Whole(c) # using}
       ELSE UNCHANGED <<phase, failures, backoff, known>>
  /\ Goto("lost")
  /\ UNCHANGED <<provisioned, guests, lost, apGuests, apUp, stored, radio, loaded,
                 counted, http, saves, cuts, untried, missed>>

(* Mutant of TakeLost: a lost connection is not a failure. *)
TakeLostQuietly ==
  /\ mpc = "lost"
  /\ lost' = FALSE
  /\ Goto("decide")
  /\ UNCHANGED <<policy, gotIp, apGuests, apUp, stored, radio, loaded, counted,
                 http, fate>>

(* on_failed() without credentials does nothing; otherwise it reads the    *)
(* count that it increments, ...                                           *)
OnFailed(next) ==
  IF provisioned THEN Goto("failed") /\ counted' = failures
                 ELSE Goto(next) /\ UNCHANGED counted

TakeLost ==
  /\ mpc = "lost"
  /\ lost' = FALSE
  /\ IF lost THEN OnFailed("decide") ELSE Goto("decide") /\ UNCHANGED counted
  /\ missed' = (missed \/ (lost /\ ~provisioned /\ phase = "connected"))
  /\ UNCHANGED <<policy, gotIp, apGuests, apUp, stored, radio, loaded, http, saves,
                 cuts, known, untried>>

(* ... and stores it, with a longer interval.  From try_connect the tick   *)
(* goes on with the access point.                                          *)
RecordFailure ==
  /\ mpc = "failed"
  /\ failures' = AtMost(counted + 1, MaxFailures)
  /\ backoff' = Longer(backoff)
  /\ waited' = 0
  /\ phase' = "backoff"
  /\ known' = known \cup {c \in Cred : Whole(c) = using}
  /\ missed' = (missed /\ gotIp)
  /\ Goto(IF loaded = Whole(NoCred) THEN "decide" ELSE "access")
  /\ UNCHANGED <<provisioned, guests, flags, apGuests, apUp, stored, radio, loaded,
                 counted, http, saves, cuts, untried>>

-----------------------------------------------------------------------------
(* tick(): try_connect().                                                  *)

(* The guests are counted, and should_attempt() decides.  Nothing another  *)
(* task does in between depends on the count or changes it.                *)
Decide ==
  /\ mpc = "decide"
  /\ guests' = apGuests
  /\ Goto(IF ShouldAttempt THEN "ssid" ELSE "access")
  /\ UNCHANGED <<phase, provisioned, failures, backoff, waited, flags, apGuests,
                 apUp, stored, radio, loaded, counted, http, fate>>

LoadSsid ==
  /\ mpc = "ssid"
  /\ loaded' = [loaded EXCEPT !.ssid = stored.ssid]
  /\ Goto("pass")
  /\ UNCHANGED <<policy, flags, apGuests, apUp, stored, radio, counted, http, fate>>

(* Read, or not there or not readable: set_provisioned(false), ... *)
LoadPassword ==
  /\ mpc = "pass"
  /\ loaded' = [loaded EXCEPT !.pass = stored.pass]
  /\ \/ Present(loaded') /\ Goto("configure") /\ UNCHANGED provisioned
     \/ Goto("forget") /\ provisioned' = FALSE
  /\ UNCHANGED <<phase, guests, failures, backoff, waited, flags, apGuests, apUp,
                 stored, radio, counted, http, fate>>

(* ... which also forgets the phase, the failures and the interval. *)
ForgetPolicy ==
  /\ mpc = "forget"
  /\ phase' = "unprovisioned" /\ failures' = 0 /\ backoff' = 0
  /\ Goto("access")
  /\ UNCHANGED <<provisioned, guests, waited, flags, apGuests, apUp, stored, radio,
                 loaded, counted, http, fate>>

(* on_failed() if the driver refuses the configuration, on_attempt_started() *)
(* if it accepts it.                                                       *)
Configure ==
  /\ mpc = "configure"
  /\ using' = loaded
  /\ untried' = (untried /\ loaded # stored)
  /\ \/ OnFailed("access") /\ UNCHANGED phase
     \/ /\ Goto("connect")
        /\ phase' = IF provisioned THEN "connecting" ELSE phase
        /\ UNCHANGED counted
  /\ UNCHANGED <<provisioned, guests, failures, backoff, waited, flags, apGuests,
                 apUp, stored, link, events, loaded, http, saves, cuts, known,
                 missed>>

(* Mutant of Connect: a refusal is left for the driver to report. *)
ConnectIgnoringRefusal ==
  /\ mpc = "connect"
  /\ link' \in {"trying", link}
  /\ Goto("access")
  /\ UNCHANGED <<policy, flags, apGuests, apUp, stored, using, events, loaded,
                 counted, http, fate>>

(* esp_wifi_connect(): an attempt whose outcome the driver will report, or *)
(* a refusal.                                                              *)
Connect ==
  /\ mpc = "connect"
  /\ \/ link' = "trying" /\ Goto("access") /\ UNCHANGED counted
     \/ OnFailed("access") /\ UNCHANGED link
  /\ UNCHANGED <<policy, flags, apGuests, apUp, stored, using, events, loaded,
                 http, fate>>

-----------------------------------------------------------------------------
(* tick(): start_access_point(), which never comes down again.             *)

EndTick ==
  /\ mpc' = "idle"
  /\ loaded' = Whole(NoCred)
  /\ counted' = 0
  /\ UNCHANGED <<policy, flags, apGuests, stored, radio, http, fate>>

RaiseAccessPoint ==
  /\ mpc = "access"
  /\ ShouldOpenAccessPoint /\ ~apUp
  /\ apUp' = TRUE
  /\ EndTick

(* Not needed, up already, or refused by the driver. *)
LeaveAccessPoint ==
  /\ mpc = "access"
  /\ EndTick
  /\ UNCHANGED apUp

-----------------------------------------------------------------------------
(* save_credentials(), on the HTTP server's task.                          *)

(* Only a request that arrived on the access point may configure. *)
ProvisioningAllowed == apUp /\ apGuests > 0

(* POST of the setup page: checked, received, parsed; then save_credentials. *)
BeginSave ==
  /\ hpc = "idle" /\ saves > 0
  /\ ProvisioningAllowed
  /\ saves' = saves - 1
  /\ entered' \in Cred
  /\ known' = known \ {entered'}
  /\ hpc' = "ssid"
  /\ UNCHANGED <<policy, flags, apGuests, apUp, stored, radio, main, seen, cuts, untried,
                 missed>>

(* Each write may fail; the name that was written stays. *)
SaveFails ==
  /\ hpc \in {"ssid", "pass", "commit"}
  /\ hpc' = "idle" /\ entered' = NoCred
  /\ UNCHANGED <<policy, flags, apGuests, apUp, stored, radio, main, seen, fate>>

SaveSsid ==
  /\ hpc = "ssid"
  /\ stored' = [stored EXCEPT !.ssid = entered]
  /\ hpc' = "pass"
  /\ UNCHANGED <<policy, flags, apGuests, apUp, radio, main, entered, seen, fate>>

SavePassword ==
  /\ hpc = "pass"
  /\ stored' = [stored EXCEPT !.pass = entered]
  /\ hpc' = "commit"
  /\ UNCHANGED <<policy, flags, apGuests, apUp, radio, main, entered, seen, fate>>

Commit ==
  /\ hpc = "commit"
  /\ hpc' = "reset"
  /\ UNCHANGED <<policy, flags, apGuests, apUp, stored, radio, main, entered, seen, fate>>

(* set_provisioned(true): failures and interval start again, ... *)
ResetPolicy ==
  /\ hpc = "reset"
  /\ provisioned' = TRUE /\ failures' = 0 /\ backoff' = 0
  /\ known' = known \ {entered}
  /\ untried' = (Whole(entered) # using)
  /\ hpc' = "look"
  /\ UNCHANGED <<phase, guests, waited, flags, apGuests, apUp, stored, radio, main,
                 entered, seen, saves, cuts, missed>>

(* ... and unless an attempt is in flight or the device is connected, *)
LookAtPhase ==
  /\ hpc = "look"
  /\ seen' = phase
  /\ hpc' = "store"
  /\ UNCHANGED <<policy, flags, apGuests, apUp, stored, radio, main, entered, fate>>

(* the phase asks for an attempt. *)
StorePhase ==
  /\ hpc = "store"
  /\ phase' = IF seen \in {"connecting", "connected"} THEN phase ELSE "backoff"
  /\ hpc' = "idle" /\ entered' = NoCred /\ seen' = "unprovisioned"
  /\ UNCHANGED <<provisioned, guests, failures, backoff, waited, flags, apGuests,
                 apUp, stored, radio, main, fate>>

-----------------------------------------------------------------------------
(* The driver and its event task.                                          *)

(* An attempt succeeds or fails, a connection is lost. *)
Outcome ==
  /\ Len(events) < 2
  /\ \/ link = "trying" /\ link' = "up" /\ events' = Append(events, "ip")
     \/ link \in {"trying", "up"} /\ link' = "off" /\ events' = Append(events, "lost")
  /\ UNCHANGED <<policy, flags, apGuests, apUp, stored, using, main, http, fate>>

(* on_wifi_event() for the station. *)
Deliver ==
  /\ events # <<>>
  /\ events' = Tail(events)
  /\ missed' = (missed \/ (mpc = "lost" /\ gotIp /\ Head(events) = "lost"))
  /\ IF Head(events) = "ip" THEN gotIp' = TRUE /\ UNCHANGED lost
                            ELSE lost' = TRUE /\ UNCHANGED gotIp
  /\ UNCHANGED <<policy, apGuests, apUp, stored, link, using, main, http, saves, cuts,
                 known, untried>>

(* A guest joins or leaves. *)
Visit ==
  /\ apUp
  /\ apGuests' \in {apGuests + 1, apGuests - 1} \cap 0 .. MaxGuests
  /\ UNCHANGED <<policy, flags, apUp, stored, radio, main, http, fate>>

(* Power fails, anywhere; only storage survives. *)
Restart ==
  /\ cuts > 0
  /\ cuts' = cuts - 1
  /\ provisioned' = Booted(stored).provisioned
  /\ phase' = Booted(stored).phase
  /\ apUp' = Booted(stored).apUp
  /\ guests' = 0 /\ failures' = 0 /\ backoff' = 0 /\ waited' = 0
  /\ gotIp' = FALSE /\ lost' = FALSE /\ apGuests' = 0
  /\ link' = "off" /\ using' = Whole(NoCred) /\ events' = <<>>
  /\ mpc' = "idle" /\ loaded' = Whole(NoCred) /\ counted' = 0
  /\ hpc' = "idle" /\ entered' = NoCred /\ seen' = "unprovisioned"
  /\ known' = {} /\ untried' = FALSE /\ missed' = FALSE
  /\ UNCHANGED <<stored, saves>>

-----------------------------------------------------------------------------
Tick == \/ TakeGotIp \/ TakeLost \/ RecordFailure
        \/ Decide \/ LoadSsid \/ LoadPassword \/ ForgetPolicy \/ Configure \/ Connect
        \/ RaiseAccessPoint \/ LeaveAccessPoint

Saving == \/ SaveFails \/ SaveSsid \/ SavePassword \/ Commit
          \/ ResetPolicy \/ LookAtPhase \/ StorePhase

Next == Tick \/ BeginSave \/ Saving \/ Outcome \/ Deliver \/ Visit \/ Restart

Spec == Init /\ [][Next]_vars

(* Every task is scheduled and the driver reports each attempt; it does    *)
(* not refuse the access point for ever.                                   *)
FairSpec ==
  /\ Spec
  /\ WF_vars(Tick) /\ WF_vars(Saving) /\ WF_vars(Deliver)
  /\ WF_vars(link = "trying" /\ Outcome)
  /\ SF_vars(RaiseAccessPoint)

-----------------------------------------------------------------------------
(* An event that will correct the policy is still on its way. *)
Pending(event) ==
  \/ \E i \in 1 .. Len(events) : events[i] = event
  \/ event = "ip" /\ gotIp
  \/ event = "lost" /\ lost

(* Between ticks the phase of a device with credentials never waits for    *)
(* something that will not come: while it says connecting the driver still *)
(* has an outcome to report, and while it says connected there is a link   *)
(* or its loss is about to be noticed.  Otherwise the device would never   *)
(* try again (wifi.cpp:130-131 and :465-467).  Two things do bring it      *)
(* there, and missed says when, until a failure is recorded with no        *)
(* connection left to take: a connection that comes up and drops between   *)
(* the two exchanges of one tick, and a loss that is reported while the    *)
(* credentials could not be read.                                          *)
PhaseIsTrue ==
  mpc = "idle" /\ provisioned /\ ~missed =>
    /\ phase = "connecting" => link = "trying" \/ Pending("ip") \/ Pending("lost")
    /\ phase = "connected" => link # "off" \/ Pending("lost")

(* While somebody is on the setup page no connection is attempted with     *)
(* credentials already known to fail, which would throw them off it        *)
(* (network_policy.hpp:66-69).  A name and a password of two saves are     *)
(* nobody's credentials, and not known to fail.                            *)
GuestsLeftAlone == mpc = "connect" /\ guests > 0 => \A c \in known : loaded # Whole(c)

(* A device that has credentials, no connection and no guest keeps trying, *)
(* unless it missed that its connection is gone (wifi.cpp:463-474).        *)
KeepsTrying ==
  []<>(mpc = "ssid" \/ link = "up" \/ apGuests > 0 \/ ~provisioned \/ missed)

(* A device that cannot connect ends up with a setup page                  *)
(* (network_policy.hpp:101-104).                                           *)
SetupIsReachable == []<>(link = "up" \/ apUp \/ missed)

(* Whoever enters credentials sees them tried: the suppression while       *)
(* guests are attached does not hold back the first attempt                *)
(* (network_policy.hpp:71-73, wifi.hpp:54-55).                             *)
FreshCredentialsAllowed ==
  untried /\ hpc = "idle" /\ phase = "backoff" => guests = 0 \/ failures = 0

-----------------------------------------------------------------------------
(* The inductive invariant.                                                *)

(* Where the two tasks are says what the policy and the storage hold.      *)
Walk ==
  /\ mpc \in {"ssid", "pass", "configure", "connect", "failed"} => provisioned
  /\ mpc \in {"ssid", "pass", "forget", "configure"} => phase \notin {"connecting", "connected"}
  /\ mpc \in {"ssid", "pass", "configure", "connect"} /\ guests > 0 => failures = 0
  /\ mpc = "forget" /\ provisioned => failures = 0
  /\ phase = "connecting" => provisioned
  /\ hpc # "idle" => entered \in Cred
  /\ hpc \in {"pass", "commit", "reset", "look", "store"} => stored.ssid = entered
  /\ hpc \in {"commit", "reset", "look", "store"} => stored.pass = entered

(* While no failure is counted, what is stored is not known to fail, nor   *)
(* will be what is being saved, nor is what the tick goes on to use.       *)
Fresh == provisioned /\ failures = 0

Spared ==
  /\ Fresh /\ phase # "connected" =>
       /\ \A c \in known : stored # Whole(c)
       /\ hpc # "idle" => entered \notin known
  /\ Fresh /\ hpc \in {"look", "store"} => entered \notin known
  /\ hpc \in {"look", "store"} /\ entered \in known =>
       /\ using = Whole(entered)
       /\ mpc \in {"pass", "configure"} => loaded.ssid = entered
       /\ mpc = "configure" => loaded.pass = entered
  /\ guests > 0 =>
       /\ mpc = "pass" => \A c \in known : loaded.ssid = c => stored.pass # c
       /\ mpc \in {"configure", "connect"} => \A c \in known : loaded # Whole(c)

(* Without a link the last event on its way is its loss, and a connection  *)
(* the tick has still to take is taken before its loss.                    *)
Told ==
  /\ link = "off" /\ events # <<>> => events[Len(events)] = "lost"
  /\ ~missed =>
       /\ gotIp /\ link = "off" => events # <<>> \/ (mpc # "lost" /\ lost)
       /\ phase = "connected" /\ mpc # "failed" => link # "off" \/ Pending("lost")
  /\ phase = "connecting" /\ mpc \notin {"connect", "failed"} =>
       link = "trying" \/ Pending("ip") \/ Pending("lost")

Inv == TypeOK /\ Walk /\ Spared /\ Told
=============================================================================
