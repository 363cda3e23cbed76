--------------------------- MODULE StoredSetting ---------------------------
(***************************************************************************)
(* A setting that lives in flash and in memory: the access token and the   *)
(* gateway's URL.  The server's task replaces it (token.rotate,            *)
(* gateway.configure), the conversation task copies it when it opens a     *)
(* connection, and power may fail anywhere.  Both values are character     *)
(* arrays copied without a lock, so a copy is made of two halves.          *)
(*                                                                         *)
(* The differences between the two: a rotation draws its value and is      *)
(* refused while a conversation runs; a configuration is given its value   *)
(* and is accepted at any time.  A token that is missing, unusable or      *)
(* cannot be read at power-on is generated anew; a URL is left out.        *)
(***************************************************************************)
EXTENDS Integers

CONSTANTS
  Values,     \* the values a setting may have
  Unset,      \* no value: absent from flash, or not loaded
  Unusable    \* stored text that is not a token

ASSUME ValuesAssumption == Unset \notin Values /\ Unusable \notin Values /\ Unset # Unusable

VARIABLES
  kind,       \* which of the two this is: "token" or "url"
  on,         \* the device is up
  flash,      \* what a restart would load
  pending,    \* written by nvs_set_str and not committed, or Unset
  left, right,          \* the halves of the value in memory
  step, new,    \* the command at work on the server's task, and its value
  sending,       \* the conversation: "idle", "before", "copying", "after" the copy
  copyLeft, copyRight,  \* the halves the conversation has copied
  \* history
  told,       \* the value of the last successful reply, until the next write
  exposed,    \* this conversation began inside a change, or a change inside it
  misread     \* since that reply a token in flash could not be read and was made anew

memory == <<left, right>>
cmd    == <<step, new>>
copy   == <<copyLeft, copyRight>>
settingVars == <<kind, on, flash, pending, memory, cmd, sending, copy, told, exposed,
                 misread>>

Halves   == Values \cup {Unset}
Changing == {"checked", "written", "stored", "half"}

SettingTypeOK ==
  /\ kind \in {"token", "url"} /\ on \in BOOLEAN
  /\ flash \in Values \cup {Unset, Unusable} /\ pending \in Halves
  /\ left \in Halves /\ right \in Halves
  /\ step \in Changing \cup {"idle", "swapped"} /\ new \in Halves
  /\ sending \in {"idle", "before", "copying", "after"}
  /\ copyLeft \in Halves /\ copyRight \in Halves
  /\ told \in Halves /\ exposed \in BOOLEAN /\ misread \in BOOLEAN

SettingInit ==
  /\ kind \in {"token", "url"} /\ on = FALSE
  /\ flash \in Values \cup {Unset} \cup IF kind = "token" THEN {Unusable} ELSE {}
  /\ pending = Unset /\ left = Unset /\ right = Unset
  /\ step = "idle" /\ new = Unset /\ sending = "idle"
  /\ copyLeft = Unset /\ copyRight = Unset
  /\ told = Unset /\ exposed = FALSE /\ misread = FALSE

(***************************************************************************)
(* Power-on: nothing else runs yet.                                        *)
(***************************************************************************)
Load(v) == left' = v /\ right' = v /\ on' = TRUE

Started(stored) ==
  /\ flash' = stored
  /\ UNCHANGED <<kind, pending, cmd, sending, copy, exposed>>

Draw(v) == v \in Values \ {flash, told}

\* What flash holds is read and is usable.
BootLoads ==
  /\ ~on /\ flash \in Values
  /\ Load(flash)
  /\ Started(flash) /\ UNCHANGED told
  /\ misread' = (misread /\ flash # told)

\* nvs_flash_init fails: there is no token, and every request is refused.
BootFails ==
  /\ ~on /\ kind = "token"
  /\ Load(Unset)
  /\ Started(flash) /\ UNCHANGED <<told, misread>>

\* There is no URL, or it could not be read.
BootWithoutUrl ==
  /\ ~on /\ kind = "url"
  /\ Load(Unset)
  /\ Started(flash) /\ UNCHANGED <<told, misread>>

Misread == misread' = (misread \/ flash \in Values)

\* There is no usable token, or nvs_open or nvs_get_str failed on a good one:
\* either way one is drawn and used, whether or not it could be stored.
BootGenerates(v) ==
  /\ ~on /\ kind = "token" /\ Draw(v)
  /\ Load(v)
  /\ \E stored \in {flash, v} : Started(stored)
  /\ Misread
  /\ UNCHANGED told

\* Power fails after the new token was stored and before anything used it.
BootCut(v) ==
  /\ ~on /\ kind = "token" /\ Draw(v)
  /\ Started(v)
  /\ Misread
  /\ UNCHANGED <<on, memory, told>>

\* A partition of another format is erased, with everything in it.
BootErases ==
  /\ ~on
  /\ Started(Unset)
  /\ told' = Unset /\ misread' = FALSE
  /\ UNCHANGED <<on, memory>>

(***************************************************************************)
(* The command, on the server's task.                                      *)
(***************************************************************************)
(* Mutant of Rotate: it does not ask what the conversation is doing. *)
RotateAnytime(v) ==
  /\ on /\ step = "idle" /\ kind = "token"
  /\ left # Unset
  /\ v \notin {left, flash, told}
  /\ step' = "checked" /\ new' = v
  /\ UNCHANGED <<kind, on, flash, pending, memory, sending, copy, told, exposed, misread>>

\* token.rotate: refused during a conversation, and without a token to replace.
Rotate(v) ==
  /\ on /\ step = "idle" /\ kind = "token"
  /\ sending = "idle" /\ left # Unset
  /\ v \notin {left, flash, told}
  /\ step' = "checked" /\ new' = v
  /\ UNCHANGED <<kind, on, flash, pending, memory, sending, copy, told, exposed, misread>>

\* gateway.configure: whatever is going on.
Configure(v) ==
  /\ on /\ step = "idle" /\ kind = "url"
  /\ step' = "checked" /\ new' = v
  /\ exposed' = (exposed \/ sending # "idle")
  /\ UNCHANGED <<kind, on, flash, pending, memory, sending, copy, told, misread>>

Refuse == step' = "idle" /\ new' = Unset

\* nvs_open and nvs_set_str; a failure of either changes nothing.
Write ==
  /\ step = "checked"
  /\ \/ step' = "written" /\ pending' = new /\ told' = Unset /\ UNCHANGED new
     \/ Refuse /\ UNCHANGED <<pending, told>>
  /\ UNCHANGED <<kind, on, flash, memory, sending, copy, exposed, misread>>

(* Mutant of Commit: the new value is used though it may not be stored. *)
CommitUnchecked ==
  /\ step = "written"
  /\ pending' = Unset
  /\ flash' \in {flash, pending} /\ step' = "stored"
  /\ UNCHANGED <<kind, on, memory, new, sending, copy, told, exposed, misread>>

\* nvs_commit; when it fails, either value may be what flash holds.
Commit ==
  /\ step = "written"
  /\ pending' = Unset
  /\ \/ flash' = pending /\ step' = "stored" /\ UNCHANGED new
     \/ flash' \in {flash, pending} /\ Refuse
  /\ UNCHANGED <<kind, on, memory, sending, copy, told, exposed, misread>>

SwapLeft ==
  /\ step = "stored"
  /\ left' = new /\ step' = "half"
  /\ UNCHANGED <<kind, on, flash, pending, right, new, sending, copy, told, exposed, misread>>

SwapRight ==
  /\ step = "half"
  /\ right' = new /\ step' = "swapped"
  /\ UNCHANGED <<kind, on, flash, pending, left, new, sending, copy, told, exposed, misread>>

\* The reply carries the value in memory.
Reply ==
  /\ step = "swapped"
  /\ told' = left /\ misread' = FALSE
  /\ Refuse
  /\ UNCHANGED <<kind, on, flash, pending, memory, sending, copy, exposed>>

(***************************************************************************)
(* The conversation task.                                                  *)
(***************************************************************************)
BeginSending ==
  /\ on /\ sending = "idle"
  /\ sending' = "before"
  /\ exposed' = (step \in Changing)
  /\ UNCHANGED <<kind, on, flash, pending, memory, cmd, copy, told, misread>>

CopyLeft ==
  /\ sending = "before"
  /\ copyLeft' = left /\ sending' = "copying"
  /\ UNCHANGED <<kind, on, flash, pending, memory, cmd, copyRight, told, exposed, misread>>

CopyRight ==
  /\ sending = "copying"
  /\ copyRight' = right /\ sending' = "after"
  /\ UNCHANGED <<kind, on, flash, pending, memory, cmd, copyLeft, told, exposed, misread>>

EndSending ==
  /\ sending = "after"
  /\ sending' = "idle" /\ copyLeft' = Unset /\ copyRight' = Unset /\ exposed' = FALSE
  /\ UNCHANGED <<kind, on, flash, pending, memory, cmd, told, misread>>

(***************************************************************************)
(* Power fails: what was written and not committed may have been stored.   *)
(***************************************************************************)
PowerCut ==
  /\ on
  /\ on' = FALSE
  /\ flash' \in {flash} \cup ({pending} \ {Unset})
  /\ pending' = Unset /\ left' = Unset /\ right' = Unset
  /\ Refuse
  /\ sending' = "idle" /\ copyLeft' = Unset /\ copyRight' = Unset /\ exposed' = FALSE
  /\ UNCHANGED <<kind, told, misread>>

BootStep == BootLoads \/ BootFails \/ BootWithoutUrl \/ BootErases
            \/ \E v \in Values : BootGenerates(v) \/ BootCut(v)
Change == Write \/ Commit \/ SwapLeft \/ SwapRight \/ Reply
           \/ \E v \in Values : Rotate(v) \/ Configure(v)
Sending == BeginSending \/ CopyLeft \/ CopyRight \/ EndSending

SettingNext == BootStep \/ Change \/ Sending \/ PowerCut

SettingSpec == SettingInit /\ [][SettingNext]_settingVars

\* A caller that was told its value may rely on it: from the reply until the
\* next write (or until storage is erased), flash holds it, so a restart that
\* can read it loads it again, and the device uses it (or, when its storage
\* will not open, nothing at all).  Excepted is a token that a power-on could
\* not read and made anew (token.cpp:88-116), until a power-on reads it again
\* or another reply names its successor.
ReplyIsDurable ==
  told # Unset /\ ~misread =>
    /\ flash = told /\ pending = Unset
    /\ on => left \in {told, Unset} /\ right = left

\* A conversation is sent with one whole value, old or new, unless a change
\* of it and the conversation began inside each other.
CopyIsWhole == sending = "after" /\ ~exposed => copyLeft = copyRight

-----------------------------------------------------------------------------
(* The inductive invariant: how far a change has come, in flash and in     *)
(* memory, and that an unexposed conversation never runs beside one.       *)
InFlash ==
  /\ (pending # Unset) = (step = "written")
  /\ step # "idle" => new # Unset
  /\ step = "written" => pending = new
  /\ step \in {"stored", "half", "swapped"} => flash = new
  /\ step \in {"written", "stored", "half", "swapped"} => told = Unset

InMemory ==
  /\ step \in {"half", "swapped"} => left = new
  /\ step # "half" => left = right

WhenOff == ~on => step = "idle" /\ sending = "idle"

Copying ==
  sending # "idle" /\ ~exposed =>
    /\ step \notin Changing
    /\ sending = "copying" => copyLeft = right
    /\ sending = "after" => copyLeft = copyRight

SettingInv == SettingTypeOK /\ InFlash /\ InMemory /\ WhenOff /\ Copying /\ ReplyIsDurable
=============================================================================
