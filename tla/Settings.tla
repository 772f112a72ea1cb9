------------------------------- MODULE Settings -------------------------------
(***************************************************************************)
(* The settings dialog (src/src/conf/configurationdialog.cpp) with six of  *)
(* its pages: history limit, display, audio, hooks, macros and video.  The *)
(* page of the accounts is in Accounts, the one of the address books in    *)
(* Contacts.                                                               *)
(*                                                                         *)
(* A page is made the first time it is shown and fills its boxes from what *)
(* the program or the daemon holds.  Most pages keep the user's changes in *)
(* their boxes until Apply and remember in a flag that there are any; the  *)
(* sound system, the camera and the macros change at once.  Apply is       *)
(* offered by updateButtons, which every page has to call.                 *)
(*                                                                         *)
(* Each page has one value where it has several boxes of the same kind.    *)
(* No other client of the daemon changes the settings meanwhile.  The      *)
(* sound systems are listed in the order of ManagerModel::Manager.         *)
(***************************************************************************)
EXTENDS MacroTree, VideoSettings

CONSTANTS
  Values,      (* what a box may hold                                      *)
  Managers,    (* number of sound systems                                  *)
  AudioDevices,(* number of devices of each                                *)
  MaxDays,     (* bound: days the history may be kept                      *)
  MaxSteps     (* bound: steps of the user, restarts included              *)

ASSUME SettingsAssumption ==
  /\ Managers \in Nat \ {0} /\ AudioDevices \in Nat \ {0}
  /\ MaxDays \in Nat \ {0} /\ MaxSteps \in Nat

VARIABLES
  open,        (* the dialog is shown                                      *)
  loaded,      (* pages made: PlaceHolderWidget::m_pReal                   *)
  changed,     (* pages whose m_Changed, m_HasChanged or m_IsChanged is set*)
  offered,     (* the Apply button is enabled                              *)
  steps,       (* bounded: steps of the user                               *)
  limit, maxBox,            (* history limit of the daemon, 0 for none     *)
  detail, detailBox,        (* ConfigurationSkeleton, in memory            *)
  hook, daemonHook, hookBox,(* HookManager's copy, the daemon's            *)
  manager, managerBox,      (* sound system of the daemon                  *)
  device, rowBox,           (* [sound system -> its device], the daemon's  *)
  loading                   (* m_IsLoading of DlgAudio                     *)

dialogVars  == <<open, loaded, changed, offered>>
historyVars == <<limit, maxBox>>
displayVars == <<detail, detailBox>>
hookVars    == <<hook, daemonHook, hookBox>>
audioVars   == <<manager, managerBox, device, rowBox, loading>>
vars == <<dialogVars, historyVars, displayVars, hookVars, audioVars, steps, macroVars, video>>

Pages == {"general", "display", "audio", "hooks", "macros", "video"}

Init ==
  /\ open = FALSE /\ loaded = {} /\ changed = {} /\ offered = FALSE /\ steps = 0
  /\ limit \in 0..MaxDays /\ maxBox = 1
  /\ detail \in Values /\ detailBox = detail
  /\ hook \in Values /\ daemonHook = hook /\ hookBox = hook
  /\ manager = 1 /\ managerBox = 1 /\ device = [s \in 1..Managers |-> 1] /\ rowBox = 1
  /\ loading = FALSE
  /\ MacroInit /\ VideoInit

Step == steps < MaxSteps /\ steps' = steps + 1
On(page) == open /\ page \in loaded /\ Step

(* changed() and updateButtons of a page. *)
Mark(page) == changed' = changed \union {page} /\ offered' = TRUE /\ UNCHANGED <<open, loaded>>

configureSflPhone ==
  /\ ~open /\ Step
  /\ open' = TRUE /\ loaded' = {} /\ changed' = {} /\ offered' = FALSE
  /\ picked' = FALSE
  /\ video' = [video EXCEPT !.deviceBox = 0]
  /\ UNCHANGED <<historyVars, displayVars, hookVars, audioVars, tree, current, file, undefined>>

AfterLoading == FALSE

(* Faulty form: the flag is still set when the boxes are loaded. *)
StillLoading == TRUE

Loading == AfterLoading

(* What each page shows when it is made. *)
FillGeneral(page) == maxBox' = IF page = "general" /\ limit # 0 THEN limit ELSE maxBox
FillDisplay(page) == detailBox' = IF page = "display" THEN detail ELSE detailBox
FillHooks(page)   == hookBox' = IF page = "hooks" THEN hook ELSE hookBox
FillAudio(page) ==
  IF page = "audio"
    THEN managerBox' = manager /\ rowBox' = device[manager] /\ loading' = Loading
    ELSE UNCHANGED <<managerBox, rowBox, loading>>
FillVideo(page)   == video' = IF page = "video" THEN slotReloadDevices(video) ELSE video

(* PlaceHolderWidget::display: the page is made and filled, which leaves   *)
(* its flag unset.                                                         *)
display ==
  \E page \in Pages \ loaded :
    /\ open /\ Step
    /\ loaded' = loaded \union {page} /\ UNCHANGED <<open, changed, offered>>
    /\ FillGeneral(page) /\ FillDisplay(page) /\ FillHooks(page) /\ FillAudio(page) /\ FillVideo(page)
    /\ UNCHANGED <<limit, detail, hook, daemonHook, manager, device, macroVars>>

(* The number of days can only be edited when there is a limit. *)
EditDays ==
  \E days \in 1..MaxDays \ {maxBox} :
    /\ On("general") /\ limit # 0 /\ maxBox' = days /\ Mark("general")
    /\ UNCHANGED <<limit, displayVars, hookVars, audioVars, macroVars, video>>

EditDetail ==
  \E v \in Values \ {detailBox} :
    /\ On("display") /\ detailBox' = v /\ Mark("display")
    /\ UNCHANGED <<detail, historyVars, hookVars, audioVars, macroVars, video>>

EditHook ==
  \E v \in Values \ {hookBox} :
    /\ On("hooks") /\ hookBox' = v /\ Mark("hooks")
    /\ UNCHANGED <<hook, daemonHook, historyVars, displayVars, audioVars, macroVars, video>>

(* DlgAudio::changed does nothing while the boxes are loaded. *)
MarkAudio ==
  /\ changed' = IF loading THEN changed ELSE changed \union {"audio"}
  /\ offered' = (offered \/ ~loading)
  /\ UNCHANGED <<open, loaded>>

EditDevice ==
  \E row \in 1..AudioDevices \ {rowBox} :
    /\ On("audio") /\ rowBox' = row /\ MarkAudio
    /\ UNCHANGED <<manager, managerBox, device, loading, historyVars, displayVars, hookVars, macroVars, video>>

(* Faulty form: the box keeps what the user took. *)
BoxKept(taken, inUse) == taken

(* currentManagerChanged sets the box back when the daemon refuses. *)
BoxAfter(taken, inUse) == inUse

(* setCurrentManager and the slots after it: the daemon takes the sound    *)
(* system or refuses it, and the devices are loaded again.                 *)
setCurrentManager ==
  \E taken \in 1..Managers \ {managerBox} :
    /\ On("audio") /\ MarkAudio
    /\ manager' \in {manager, taken}
    /\ managerBox' = BoxAfter(taken, manager')
    /\ rowBox' = device[manager']
    /\ loading' = Loading
    /\ UNCHANGED <<device, historyVars, displayVars, hookVars, macroVars, video>>

(* The form is marked when one of its fields gets another text. *)
EditMacros ==
  /\ On("macros") /\ ~undefined
  /\ \/ (addMacro \/ setCurrent) /\ (Mark("macros") \/ UNCHANGED dialogVars)
     \/ picked /\ EditMacro /\ Mark("macros")
     \/ picked /\ removeMacro /\ UNCHANGED dialogVars
  /\ UNCHANGED <<historyVars, displayVars, hookVars, audioVars, video>>

EditVideo ==
  /\ On("video") /\ Choose /\ Mark("video")
  /\ UNCHANGED <<historyVars, displayVars, hookVars, audioVars, macroVars>>

(* updateSettings of each page, once it was made. *)
SaveGeneral == limit' = IF "general" \in loaded /\ limit # 0 THEN maxBox ELSE limit
SaveDisplay == detail' = IF "display" \in loaded THEN detailBox ELSE detail
SaveHooks   == /\ hook' = IF "hooks" \in loaded THEN hookBox ELSE hook
               /\ daemonHook' = IF "hooks" \in loaded THEN hookBox ELSE daemonHook
SaveAudio   == device' = IF "audio" \in changed THEN [device EXCEPT ![manager] = rowBox] ELSE device
SaveMacros  == IF "macros" \in loaded THEN saveMacros ELSE UNCHANGED macroVars
SaveVideo   == video' = IF "video" \in loaded THEN setActive(video, video.deviceBox) ELSE video

updateSettings ==
  /\ SaveGeneral /\ SaveDisplay /\ SaveHooks /\ SaveAudio /\ SaveMacros /\ SaveVideo
  /\ changed' = {}

(* applyCustomSettings: then the boxes are filled again, of which only the *)
(* audio page's may have changed, and the button is computed.              *)
applyCustomSettings ==
  /\ updateSettings
  /\ rowBox' = IF "audio" \in loaded THEN device'[manager] ELSE rowBox
  /\ loading' = IF "audio" \in loaded THEN Loading ELSE loading
  /\ offered' = FALSE
  /\ UNCHANGED <<loaded, maxBox, detailBox, hookBox, manager, managerBox>>

Apply == open /\ offered /\ ~undefined /\ Step /\ applyCustomSettings /\ UNCHANGED open

Ok == open /\ ~undefined /\ Step /\ applyCustomSettings /\ open' = FALSE

(* cancelSettings: the pages of this module have nothing to cancel. *)
Cancel ==
  /\ open /\ open' = FALSE
  /\ UNCHANGED <<loaded, changed, offered, steps, historyVars, displayVars, hookVars, audioVars, macroVars, video>>

(* The program ends and starts: what it remembers is read again. *)
Restart ==
  /\ ~open /\ Step
  /\ hook' = daemonHook
  /\ initMacros(file) /\ picked' = FALSE /\ undefined' = FALSE
  /\ video' = setActive(Forgotten(video.stored), Row(Devices, video.default))
  /\ UNCHANGED <<dialogVars, historyVars, displayVars, daemonHook, hookBox, audioVars, file>>

Next ==
  \/ configureSflPhone \/ display
  \/ EditDays \/ EditDetail \/ EditHook \/ EditDevice \/ setCurrentManager \/ EditMacros \/ EditVideo
  \/ Apply \/ Ok \/ Cancel \/ Restart

Spec == Init /\ [][Next]_vars

(* A box that does not show what is in effect comes with the offer to      *)
(* apply it, also after the daemon refused a sound system and after the    *)
(* boxes were loaded again underneath the user's changes.                  *)
EditsAreOffered ==
  open /\ ~offered =>
    /\ "general" \in loaded /\ limit # 0 => maxBox = limit
    /\ "display" \in loaded => detailBox = detail
    /\ "hooks" \in loaded => hookBox = hook /\ hook = daemonHook
    /\ "audio" \in loaded => managerBox = manager /\ rowBox = device[manager]
=============================================================================
