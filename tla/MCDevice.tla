------------------------------ MODULE MCDevice ------------------------------
(***************************************************************************)
(* What the device's owner meets: the button, the screen, and the two      *)
(* settings kept in flash.  The three share no state; one of them runs in  *)
(* a behaviour and the others stay at rest.                                *)
(***************************************************************************)
EXTENDS Button, Screen, StoredSetting

VARIABLE part

deviceVars == <<part, vars, screenVars, settingVars>>

ButtonRest  == Init /\ now = 0
ScreenRest  == ScreenInit /\ connected = FALSE /\ apUp = FALSE
SettingRest == SettingInit /\ kind = "url" /\ flash = Unset

DeviceInit ==
  \/ part = "button"  /\ Init       /\ ScreenRest /\ SettingRest
  \/ part = "screen"  /\ ButtonRest /\ ScreenInit /\ SettingRest
  \/ part = "setting" /\ ButtonRest /\ ScreenRest /\ SettingInit

DeviceNext ==
  \/ part = "button"  /\ Next        /\ UNCHANGED <<part, screenVars, settingVars>>
  \/ part = "screen"  /\ ScreenNext  /\ UNCHANGED <<part, vars, settingVars>>
  \/ part = "setting" /\ SettingNext /\ UNCHANGED <<part, vars, screenVars>>

DeviceSpec == DeviceInit /\ [][DeviceNext]_deviceVars
=============================================================================
