---------------------------- MODULE BootProofs ----------------------------
(***************************************************************************)
(* What Boot keeps, proved for every set of releases, any number of power  *)
(* cuts, failed installations and manifests, and every limit of retries.   *)
(***************************************************************************)
EXTENDS Boot, TLAPS

\* The retry counter is what the history counts, from the station's start on and as
\* long as it goes on.
Retries ==
  /\ link = "off" => retries = 0 /\ misses = 0
  /\ link \in {"connecting", "up"} => misses = retries
  /\ link = "idle" => misses = MaxRetries + 1
  /\ app \in {"off", "nvs", "wifi"} => link = "off"

\* What otadata selects is what runs, until an image has been installed.
RunsSelected ==
  app # "off" =>
    \/ running = selected
    \/ /\ ota \in {"save", "restart"} /\ selected = Other(running)
       /\ otadata[selected] = "new"

\* What otadata selects was not given up, and what runs is no longer new.
Started ==
  /\ otadata[selected] # "aborted"
  /\ app # "off" => otadata[running] \in {"undefined", "pending", "valid"}

\* An installation is under way only on an image that is confirmed.
InstallsConfirmed ==
  /\ app \notin {"check", "loop"} => ota = "idle"
  /\ ota \in {"write", "save", "restart"} => otadata[running] # "pending"

\* A release that is to be confirmed is good.
MarksGood == app = "mark" => image[running] \in Good

Flash == FallsBackToGood /\ RunsSelected /\ Started /\ InstallsConfirmed /\ MarksGood

IInv == BootTypeOK /\ Retries /\ Flash

LEMMA OtherSlot ==
  \A s \in Slot : Other(s) \in Slot /\ Other(s) # s /\ Other(Other(s)) = s
    /\ \A t \in Slot : t = s \/ t = Other(s)
  BY DEF Slot, Other

LEMMA BootInitOK == BootInit => IInv
  <1> SUFFICES ASSUME BootInit PROVE IInv
    OBVIOUS
  <1>1. BootTypeOK
    BY BootAssumption DEF BootInit, FlashInit, RamInit, BootTypeOK, Slot
  <1>2. Retries
    BY DEF BootInit, RamInit, Retries
  <1>3. Flash
    BY BootAssumption
    DEF BootInit, FlashInit, RamInit, Flash, FallsBackToGood, RunsSelected, Started, InstallsConfirmed, MarksGood,
        Confirmed, Slot
  <1> QED BY <1>1, <1>2, <1>3 DEF IInv

-----------------------------------------------------------------------------
\* A reset: by a cut of the power, a panic, or at the end of an installation.
LEMMA ResetOK ==
  ASSUME IInv, PowerCut \/ Crashes \/ Restart
  PROVE  IInv'
  <1>1. /\ app' = "off" /\ ota' = "idle" /\ current' = Default /\ target' = None
        /\ link' = "off" /\ retries' = 0 /\ wifiBits' = {} /\ misses' = 0
        /\ UNCHANGED <<running, flash, manifest, published, installs, lost>>
    BY DEF PowerCut, Crashes, Restart, Resets, world
  <1>2. cuts' \in 0..MaxCuts
    BY BootAssumption DEF PowerCut, Crashes, Restart, world, IInv, BootTypeOK
  <1>3. BootTypeOK'
    BY <1>1, <1>2, BootAssumption DEF IInv, BootTypeOK, flash
  <1>4. Retries' /\ Flash'
    BY <1>1 DEF IInv, Retries, Flash, FallsBackToGood, RunsSelected, Started, InstallsConfirmed, MarksGood,
       Confirmed, flash
  <1> QED BY <1>3, <1>4 DEF IInv

\* The bootloader passes over an image that was started and not confirmed.
LEMMA BootloaderOK == ASSUME IInv, Bootloader PROVE IInv'
  <1>1. /\ app = "off" /\ app' = "nvs" /\ ota = "idle" /\ ota' = "idle"
        /\ running' = NextSlot /\ selected' = NextSlot
        /\ UNCHANGED <<image, nvs, current, target, station, world>>
    BY DEF Bootloader, IInv, Flash, InstallsConfirmed
  <1>2. otadata' = [otadata EXCEPT ![selected] =
          CASE @ = "new" -> "pending" [] @ = "pending" -> "aborted" [] OTHER -> @]
    BY DEF Bootloader
  <1>3. selected \in Slot /\ otadata[selected] \in {"undefined", "new", "pending", "valid"}
    BY DEF IInv, BootTypeOK, Flash, Started
  <1>4. CASE otadata[selected] = "pending"
    <2>1. NextSlot = Other(selected) /\ otadata' = [otadata EXCEPT ![selected] = "aborted"]
      BY <1>2, <1>4 DEF NextSlot
    <2>2. Confirmed(Other(selected)) /\ image[Other(selected)] \in Good
      BY <1>4 DEF IInv, Flash, FallsBackToGood, Confirmed
    <2>3. otadata'[Other(selected)] = otadata[Other(selected)]
      BY <1>3, <2>1, OtherSlot DEF IInv, BootTypeOK
    <2>4. BootTypeOK'
      BY <1>1, <1>3, <2>1, OtherSlot DEF IInv, BootTypeOK, station, world
    <2>5. Retries' /\ Flash'
      BY <1>1, <2>1, <2>2, <2>3, BootAssumption
      DEF IInv, Retries, Flash, FallsBackToGood, RunsSelected, Started, InstallsConfirmed, MarksGood,
          Confirmed, station
    <2> QED BY <2>4, <2>5 DEF IInv
  <1>5. CASE otadata[selected] = "new"
    <2>1. NextSlot = selected /\ otadata' = [otadata EXCEPT ![selected] = "pending"]
      BY <1>2, <1>5 DEF NextSlot
    <2>2. otadata'[selected] = "pending" /\ otadata'[Other(selected)] = otadata[Other(selected)]
      BY <1>3, <2>1, OtherSlot DEF IInv, BootTypeOK
    <2>3. BootTypeOK'
      BY <1>1, <1>3, <2>1 DEF IInv, BootTypeOK, station, world
    <2>4. Retries' /\ Flash'
      BY <1>1, <1>5, <2>1, <2>2
      DEF IInv, Retries, Flash, FallsBackToGood, RunsSelected, Started, InstallsConfirmed, MarksGood,
          Confirmed, station
    <2> QED BY <2>3, <2>4 DEF IInv
  <1>6. CASE otadata[selected] \in {"undefined", "valid"}
    <2>1. NextSlot = selected
      BY <1>6 DEF NextSlot
    <2>2. otadata' = otadata
      BY <1>2, <1>3, <1>6 DEF IInv, BootTypeOK
    <2>3. BootTypeOK'
      BY <1>1, <1>3, <2>1, <2>2 DEF IInv, BootTypeOK, station, world
    <2>4. Retries' /\ Flash'
      BY <1>1, <1>6, <2>1, <2>2
      DEF IInv, Retries, Flash, FallsBackToGood, RunsSelected, Started, InstallsConfirmed, MarksGood,
          Confirmed, station
    <2> QED BY <2>3, <2>4 DEF IInv
  <1> QED BY <1>3, <1>4, <1>5, <1>6

\* app_main confirms what runs when it is about to enter its loop.
LEMMA MarkValidOK == ASSUME IInv, MarkValid PROVE IInv'
  <1>1. /\ app = "mark" /\ app' = "loop"
        /\ UNCHANGED <<ota, running, current, target, image, selected, nvs, station, world>>
    BY DEF MarkValid, MarksLast, AppGoes
  <1>2. otadata' = [otadata EXCEPT ![running] = IF @ = "pending" THEN "valid" ELSE @]
    BY DEF MarkValid
  <1>3. running \in Slot /\ selected \in Slot /\ otadata \in [Slot -> {"undefined", "new", "pending", "valid", "aborted"}]
    BY DEF IInv, BootTypeOK
  <1>4. /\ \A s \in Slot : s # running => otadata'[s] = otadata[s]
        /\ otadata'[running] \in {"undefined", "valid"}
        /\ image[running] \in Good
    BY <1>1, <1>2, <1>3 DEF IInv, Flash, Started, MarksGood
  <1>5. BootTypeOK'
    BY <1>1, <1>2, <1>3 DEF IInv, BootTypeOK, station, world
  <1>6. Retries'
    BY <1>1 DEF IInv, Retries, station
  <1>7. FallsBackToGood'
    <2>1. CASE running = selected
      BY <1>1, <1>4, <2>1 DEF IInv, Flash, FallsBackToGood, Confirmed
    <2>2. CASE running # selected
      <3>1. running = Other(selected)
        BY <1>3, <2>2, OtherSlot
      <3> QED BY <1>1, <1>3, <1>4, <2>2, <3>1 DEF IInv, Flash, FallsBackToGood, Confirmed
    <2> QED BY <2>1, <2>2
  <1>8. RunsSelected' /\ Started' /\ InstallsConfirmed' /\ MarksGood'
    BY <1>1, <1>3, <1>4 DEF IInv, Flash, RunsSelected, Started, InstallsConfirmed, MarksGood
  <1> QED BY <1>5, <1>6, <1>7, <1>8 DEF IInv, Flash

\* The other steps of app_main, and the timer, leave the partitions alone.
LEMMA AppOK ==
  ASSUME IInv, NvsInit \/ WifiInit \/ WifiReturns \/ OtaInit \/ OtaReturns
  PROVE  IInv'
  <1>1. /\ UNCHANGED <<running, target, image, otadata, selected, misses, retries, wifiBits>>
        /\ UNCHANGED <<manifest, published, installs, cuts>>
        /\ app # "off" /\ app' # "off"
    BY DEF NvsInit, WifiInit, WifiReturns, OtaInit, OtaReturns, AppOnly, AppGoes, flash, station, world
  <1>2. app' \in {"wifi", "wait", "init", "check", "mark"}
    BY DEF NvsInit, WifiInit, WifiReturns, OtaInit, OtaReturns, AppGoes
  <1>3. \/ ota' = ota /\ current' = current
        \/ ota' = "fetch" /\ current' = Loaded /\ app' = "check"
    BY DEF NvsInit, WifiInit, WifiReturns, OtaInit, OtaReturns, AppOnly, AppGoes
  <1>4. nvs' \in {nvs, None} /\ lost' \in 0..MaxLost
    BY BootAssumption
    DEF NvsInit, WifiInit, WifiReturns, OtaInit, OtaReturns, AppOnly, flash, world, IInv, BootTypeOK
  <1>5. link' = link \/ (link' = "connecting" /\ app = "wifi")
    BY DEF NvsInit, WifiInit, WifiReturns, OtaInit, OtaReturns, AppGoes, station
  <1>6. Loaded \in Version
    BY BootAssumption DEF Loaded, IInv, BootTypeOK
  <1>7. BootTypeOK'
    BY <1>1, <1>2, <1>3, <1>4, <1>5, <1>6 DEF IInv, BootTypeOK
  <1>8. Flash'
    <2>1. app' = "mark" => image[running] \in Good
      BY DEF NvsInit, WifiInit, WifiReturns, OtaInit, OtaReturns, AppGoes
    <2>2. ota = "idle"
      BY DEF NvsInit, WifiInit, WifiReturns, OtaInit, OtaReturns, AppGoes, IInv, Flash, InstallsConfirmed
    <2>3. ota' = "idle" \/ (ota' = "fetch" /\ app' = "check")
      BY <1>3, <2>2
    <2>4. running = selected
      BY <1>1, <2>2 DEF IInv, Flash, RunsSelected
    <2>5. FallsBackToGood' /\ Started'
      BY <1>1 DEF IInv, Flash, FallsBackToGood, Started, Confirmed
    <2> QED
      BY <1>1, <1>2, <2>1, <2>3, <2>4, <2>5 DEF Flash, RunsSelected, InstallsConfirmed, MarksGood
  <1>9. Retries'
    <2>1. app' \in {"off", "nvs", "wifi"} => link' = "off"
      BY DEF NvsInit, WifiInit, WifiReturns, OtaInit, OtaReturns, AppGoes, station, IInv, Retries
    <2> QED BY <1>1, <1>5, <2>1 DEF IInv, Retries
  <1> QED BY <1>7, <1>8, <1>9 DEF IInv

\* The station's events.
LEMMA StationOK == ASSUME IInv, GotIp \/ Disconnected PROVE IInv'
  <1>1. UNCHANGED <<flash, program, world>>
    BY DEF GotIp, Disconnected, StationOnly
  <1>2. retries \in Nat /\ retries <= MaxRetries /\ misses \in Nat
    BY BootAssumption DEF IInv, BootTypeOK
  <1>3. Retries' /\ retries' \in 0..MaxRetries /\ misses' \in 0..MaxRetries + 1
    <2>1. CASE GotIp
      BY <1>1, <2>1, BootAssumption DEF GotIp, GivesRetriesBack, IInv, Retries, program
    <2>2. CASE Disconnected
      BY <1>1, <1>2, <2>2, BootAssumption DEF Disconnected, IInv, Retries, program
    <2> QED BY <2>1, <2>2
  <1>4. link' \in {"up", "connecting", "idle"} /\ wifiBits' \subseteq {"CONNECTED", "FAIL"}
    BY DEF GotIp, Disconnected, ReportsFailure, IInv, BootTypeOK
  <1>5. BootTypeOK' /\ Flash'
    BY <1>1, <1>3, <1>4
    DEF IInv, BootTypeOK, Flash, FallsBackToGood, RunsSelected, Started, InstallsConfirmed, MarksGood,
        Confirmed, flash, program, world
  <1> QED BY <1>3, <1>5 DEF IInv

-----------------------------------------------------------------------------
(* ota_check_and_update.                                                    *)

\* Its steps up to the erasure of the other partition, and its failures.
LEMMA CheckOK ==
  ASSUME IInv, TimerFires \/ FetchFails \/ UpToDate \/ FindsUpdate \/ BeginRefused \/ WriteFails
  PROVE  IInv'
  <1>1. /\ UNCHANGED <<flash, current, installs, lost, app, running, station, cuts, manifest, published>>
        /\ ota' \in {"idle", "fetch", "begin"}
        /\ (ota' = "idle" \/ app = "loop" \/ ota # "idle")
    BY DEF TimerFires, FetchFails, UpToDate, FindsUpdate, BeginRefused, WriteFails, OtaGoes, OtaOnly
  <1>2. ota \notin {"save", "restart"}
    BY DEF TimerFires, FetchFails, UpToDate, FindsUpdate, BeginRefused, WriteFails, OtaGoes
  <1>3. target' \in Version \cup {None} /\ (ota' = "begin" => target' # None)
    BY DEF TimerFires, FetchFails, UpToDate, FindsUpdate, BeginRefused, WriteFails, OtaGoes, Fetched,
       IInv, BootTypeOK
  <1>4. BootTypeOK'
    BY <1>1, <1>3 DEF IInv, BootTypeOK, flash, station
  <1>5. Retries' /\ Flash'
    BY <1>1, <1>2
    DEF IInv, Retries, Flash, FallsBackToGood, RunsSelected, Started, InstallsConfirmed, MarksGood,
        Confirmed, flash, station
  <1> QED BY <1>4, <1>5 DEF IInv

\* Erasing the other partition takes nothing away that a fall back would need.
LEMMA BeginOK == ASSUME IInv, Begin PROVE IInv'
  <1>1. /\ ota = "begin" /\ ota' = "write" /\ otadata[running] # "pending"
        /\ image' = [image EXCEPT ![Other(running)] = None]
        /\ UNCHANGED <<otadata, selected, nvs, current, target, installs, lost,
                       app, running, station, cuts, manifest, published>>
    BY DEF Begin, OtaGoes, OtaOnly
  <1>2. running \in Slot /\ Other(running) \in Slot /\ Other(running) # running
    BY OtherSlot DEF IInv, BootTypeOK
  <1>3. app # "off" /\ running = selected /\ otadata[running] \in {"undefined", "valid"}
    BY <1>1 DEF IInv, Flash, InstallsConfirmed, RunsSelected, Started
  <1>4. image'[running] = image[running]
    BY <1>1, <1>2 DEF IInv, BootTypeOK
  <1>5. BootTypeOK'
    BY <1>1, <1>2 DEF IInv, BootTypeOK, station
  <1>6. Retries' /\ Flash'
    BY <1>1, <1>3, <1>4
    DEF IInv, Retries, Flash, FallsBackToGood, RunsSelected, Started, InstallsConfirmed, MarksGood,
        Confirmed, station
  <1> QED BY <1>5, <1>6 DEF IInv

\* The installed image is selected, and what runs stays to fall back to.
LEMMA WriteDoneOK == ASSUME IInv, WriteDone PROVE IInv'
  <1>1. /\ ota = "write" /\ ota' = "save"
        /\ image' = [image EXCEPT ![Other(running)] = target]
        /\ otadata' = [otadata EXCEPT ![Other(running)] = "new"]
        /\ selected' = Other(running)
        /\ UNCHANGED <<nvs, current, target, lost, app, running, station, cuts, manifest, published>>
    BY DEF WriteDone, OtaGoes, OtaOnly
  <1>2. installs' \in 0..MaxInstalls
    BY BootAssumption DEF WriteDone, IInv, BootTypeOK
  <1>3. /\ running \in Slot /\ Other(running) \in Slot /\ Other(running) # running
        /\ Other(Other(running)) = running
    BY OtherSlot DEF IInv, BootTypeOK
  <1>4. app # "off" /\ running = selected /\ otadata[running] \in {"undefined", "valid"}
    BY <1>1 DEF IInv, Flash, InstallsConfirmed, RunsSelected, Started
  <1>5. target \in Version /\ target # None
    BY <1>1, BootAssumption DEF IInv, BootTypeOK
  <1>6. /\ image'[running] = image[running] /\ otadata'[running] = otadata[running]
        /\ image'[Other(running)] = target /\ otadata'[Other(running)] = "new"
    BY <1>1, <1>3 DEF IInv, BootTypeOK
  <1>7. BootTypeOK'
    BY <1>1, <1>2, <1>3, <1>5 DEF IInv, BootTypeOK, station
  <1>8. image[running] \in Good
    BY <1>4 DEF IInv, Flash, FallsBackToGood, Confirmed
  <1>9. Retries' /\ Flash'
    BY <1>1, <1>3, <1>4, <1>5, <1>6, <1>8
    DEF IInv, Retries, Flash, FallsBackToGood, RunsSelected, Started, InstallsConfirmed, MarksGood,
        Confirmed, station
  <1> QED BY <1>7, <1>9 DEF IInv

LEMMA SaveVersionOK == ASSUME IInv, SaveVersion PROVE IInv'
  <1>1. /\ ota = "save" /\ ota' = "restart" /\ target' = None
        /\ UNCHANGED <<image, otadata, selected, installs, app, running, station, cuts, manifest, published>>
    BY DEF SaveVersion, OtaGoes, OtaOnly
  <1>2. nvs' \in Version \cup {None} /\ current' \in Version /\ lost' \in 0..MaxLost
    BY <1>1, BootAssumption DEF SaveVersion, SavesTarget, IInv, BootTypeOK
  <1>3. BootTypeOK'
    BY <1>1, <1>2 DEF IInv, BootTypeOK, station
  <1>4. Retries' /\ Flash'
    BY <1>1
    DEF IInv, Retries, Flash, FallsBackToGood, RunsSelected, Started, InstallsConfirmed, MarksGood,
        Confirmed, station
  <1> QED BY <1>3, <1>4 DEF IInv

LEMMA PublishOK == ASSUME IInv, Publish PROVE IInv'
  <1>1. /\ UNCHANGED <<flash, program, station, cuts, lost>>
        /\ manifest' \in Version /\ installs' = 0 /\ published' \in 0..MaxPublished
    BY BootAssumption DEF Publish, IInv, BootTypeOK
  <1>2. BootTypeOK'
    BY <1>1, BootAssumption DEF IInv, BootTypeOK, flash, program, station
  <1>3. Retries' /\ Flash'
    BY <1>1
    DEF IInv, Retries, Flash, FallsBackToGood, RunsSelected, Started, InstallsConfirmed, MarksGood,
        Confirmed, flash, program, station
  <1> QED BY <1>2, <1>3 DEF IInv

LEMMA BootStepOK == IInv /\ [BootNext]_bootVars => IInv'
  <1> SUFFICES ASSUME IInv, [BootNext]_bootVars PROVE IInv'
    OBVIOUS
  <1>1. CASE UNCHANGED bootVars
    BY <1>1
    DEF bootVars, flash, program, station, world, IInv, BootTypeOK, Retries, Flash, FallsBackToGood,
        RunsSelected, Started, InstallsConfirmed, MarksGood, Confirmed
  <1>2. CASE AppStep
    BY <1>2, BootloaderOK, AppOK, MarkValidOK, ResetOK DEF AppStep
  <1>3. CASE StationStep
    BY <1>3, StationOK DEF StationStep
  <1>4. CASE OtaStep \/ TimerFires
    BY <1>4, CheckOK, BeginOK, WriteDoneOK, SaveVersionOK, ResetOK DEF OtaStep
  <1>5. CASE PowerCut \/ Publish
    BY <1>5, ResetOK, PublishOK
  <1> QED BY <1>1, <1>2, <1>3, <1>4, <1>5 DEF BootNext

LEMMA BootInductive == BootSpec => []IInv
  BY BootInitOK, BootStepOK, PTL DEF BootSpec

\* The unit's boot, station and update are always well typed.
THEOREM BootTypes == BootSpec => []BootTypeOK
  BY BootInductive, PTL DEF IInv

\* No sequence of releases, power cuts and failed installations leaves the unit without
\* a good image that the bootloader falls back to.
THEOREM AlwaysBoots == BootSpec => []FallsBackToGood
  BY BootInductive, PTL DEF IInv, Flash

\* Reconnecting is given up after MaxRetries + 1 disconnections in a row, never before.
THEOREM RetriesUsed == BootSpec => []GivesUpLate
  <1>1. IInv => GivesUpLate
    BY DEF IInv, Retries, GivesUpLate
  <1> QED BY <1>1, BootInductive, PTL

-----------------------------------------------------------------------------
(* A release is installed once.                                             *)

\* The present manifest is installed and what NVS holds, or is about to, says so.
Settled ==
  /\ manifest # None
  /\ \/ ota = "save" /\ target = manifest
     \/ /\ nvs = manifest
        /\ \/ ota = "restart"
           \/ app \in {"off", "nvs", "wifi", "wait", "init"}
           \/ ota \in {"idle", "fetch"} /\ current = manifest

\* Every installation was paid for by a cut or a lost version, but for the last one.
Paid ==
  manifest \notin Long /\ installs > cuts + lost => installs = cuts + lost + 1 /\ Settled

LEMMA PaidInit == BootInit => Paid
  BY DEF BootInit, Paid

\* What installs is a good image: a panic does not come between writing and saving.
LEMMA InstallerGood ==
  ASSUME IInv, ota \in {"write", "save", "restart"}
  PROVE  image[running] \in Good
  <1>1. app # "off" /\ otadata[running] \in {"undefined", "valid"}
    BY DEF IInv, Flash, InstallsConfirmed, Started
  <1>2. running \in Slot
    BY DEF IInv, BootTypeOK
  <1> QED
    BY <1>1, <1>2, OtherSlot DEF IInv, Flash, FallsBackToGood, RunsSelected, Confirmed

LEMMA PaidStep == ASSUME IInv, Paid, [BootNext]_bootVars PROVE Paid'
  <1>0. /\ installs \in Nat /\ cuts \in Nat /\ lost \in Nat
        /\ ota \in {"idle", "fetch", "begin", "write", "save", "restart"}
        /\ app \in {"off", "nvs", "wifi", "wait", "init", "check", "mark", "loop"}
    BY BootAssumption DEF IInv, BootTypeOK
  <1>1. CASE PowerCut
    BY <1>0, <1>1 DEF PowerCut, Paid
  <1>2. CASE Publish
    BY <1>0, <1>2 DEF Publish, Paid
  <1>3. CASE WriteDone
    <2>1. ~Settled
      BY <1>3 DEF WriteDone, OtaGoes, Settled, IInv, Flash, InstallsConfirmed
    <2>2. target # None /\ UNCHANGED <<target, manifest, cuts, lost>> /\ ota' = "save"
      BY <1>3 DEF WriteDone, OtaGoes, OtaOnly, IInv, BootTypeOK
    <2>3. installs' = IF target = manifest /\ installs < MaxInstalls THEN installs + 1 ELSE installs
      BY <1>3 DEF WriteDone
    <2> QED BY <1>0, <2>1, <2>2, <2>3 DEF Paid, Settled
  <1>4. CASE SaveVersion
    <2>1. UNCHANGED <<manifest, installs, cuts>> /\ ota = "save" /\ ota' = "restart"
      BY <1>4 DEF SaveVersion, OtaGoes, OtaOnly
    <2>2. CASE lost' = lost + 1
      BY <1>0, <2>1, <2>2 DEF Paid
    <2>3. CASE nvs' = target /\ lost' = lost
      BY <2>1, <2>3 DEF Paid, Settled, IInv, Flash, InstallsConfirmed
    <2> QED BY <1>4, <2>2, <2>3 DEF SaveVersion, SavesTarget
  <1>5. CASE NvsInit
    <2>1. /\ UNCHANGED <<manifest, installs, cuts, ota, target, current>>
          /\ app = "nvs" /\ app' = "wifi"
      BY <1>5 DEF NvsInit, AppOnly, AppGoes
    <2>2. CASE lost' = lost + 1
      BY <1>0, <2>1, <2>2 DEF Paid
    <2>3. CASE nvs' = nvs /\ lost' = lost
      BY <2>1, <2>3 DEF Paid, Settled
    <2> QED BY <1>5, <2>2, <2>3 DEF NvsInit
  <1>6. CASE \/ Bootloader \/ WifiInit \/ WifiReturns \/ OtaInit \/ OtaReturns \/ MarkValid \/ Crashes
            \/ StationStep \/ TimerFires \/ FetchFails \/ UpToDate \/ FindsUpdate \/ BeginRefused
            \/ Begin \/ WriteFails \/ Restart \/ UNCHANGED bootVars
    <2>1. UNCHANGED <<nvs, manifest, installs, cuts, lost>>
      BY <1>6
      DEF Bootloader, WifiInit, WifiReturns, OtaInit, OtaReturns, MarkValid, Crashes, StationStep,
          GotIp, Disconnected, StationOnly, TimerFires, FetchFails, UpToDate, FindsUpdate,
          BeginRefused, Begin, WriteFails, Restart, AppOnly, OtaOnly, flash, world, bootVars
    <2>2. SUFFICES ASSUME Settled, manifest \notin Long PROVE Settled'
      BY <2>1 DEF Paid
    <2>3. CASE Bootloader \/ WifiInit \/ WifiReturns \/ OtaReturns \/ MarkValid
      <3>1. UNCHANGED <<ota, target, current>>
        BY <2>3 DEF Bootloader, WifiInit, WifiReturns, OtaReturns, MarkValid, AppOnly
      <3>2. \/ app' \in {"nvs", "wifi", "wait", "init"} /\ app \in {"off", "nvs", "wifi", "wait", "init"}
            \/ app \notin {"off", "nvs", "wifi", "wait", "init"}
        BY <2>3 DEF Bootloader, WifiInit, WifiReturns, OtaReturns, MarkValid, MarksLast, AppGoes
      <3> QED BY <2>1, <2>2, <3>1, <3>2 DEF Settled
    <2>4. CASE OtaInit
      <3>1. app = "init" /\ ota = "idle" /\ ota' = "fetch" /\ current' = Loaded
        BY <2>4 DEF OtaInit, AppGoes, IInv, Flash, InstallsConfirmed
      <3>2. Loaded = manifest
        BY <2>2, <3>1 DEF Settled, Loaded
      <3> QED BY <2>1, <2>2, <3>1, <3>2 DEF Settled
    <2>5. CASE Crashes \/ Restart
      <3>1. app' = "off" /\ ota' = "idle"
        BY <2>5 DEF Crashes, Restart, Resets
      <3>2. ota # "save"
        BY <2>5, InstallerGood DEF Crashes, Restart
      <3> QED BY <2>1, <2>2, <3>1, <3>2 DEF Settled
    <2>6. CASE StationStep \/ UNCHANGED bootVars
      BY <2>2, <2>6 DEF StationStep, GotIp, Disconnected, StationOnly, flash, program, world, bootVars, Settled
    <2>7. CASE TimerFires \/ FetchFails \/ UpToDate
      <3>1. UNCHANGED <<app, current, target>> /\ ota \in {"idle", "fetch"} /\ ota' \in {"idle", "fetch"}
        BY <2>7 DEF TimerFires, FetchFails, UpToDate, OtaGoes, OtaOnly
      <3> QED BY <2>1, <2>2, <3>1 DEF Settled
    <2>8. CASE FindsUpdate \/ BeginRefused \/ Begin \/ WriteFails
      <3>1. app \in {"check", "loop"}
        BY <2>8 DEF FindsUpdate, BeginRefused, Begin, WriteFails, OtaGoes, IInv, Flash, InstallsConfirmed
      <3>2. FALSE
        BY <2>2, <2>8, <3>1 DEF FindsUpdate, BeginRefused, Begin, WriteFails, OtaGoes, Settled
      <3> QED BY <3>2
    <2> QED BY <1>6, <2>3, <2>4, <2>5, <2>6, <2>7, <2>8
  <1> QED
    BY <1>1, <1>2, <1>3, <1>4, <1>5, <1>6 DEF BootNext, AppStep, OtaStep

\* A unit installs a release once, and again only for a power cut or a version that NVS
\* did not keep.
THEOREM NoReinstall == BootSpec => []InstalledOnce
  <1>1. IInv /\ Paid => InstalledOnce
    <2> SUFFICES ASSUME IInv, Paid PROVE InstalledOnce
      OBVIOUS
    <2>1. installs \in Nat /\ cuts \in Nat /\ lost \in Nat
      BY BootAssumption DEF IInv, BootTypeOK
    <2> QED BY <2>1 DEF Paid, InstalledOnce
  <1>2. BootInit => Paid
    BY PaidInit
  <1>3. IInv /\ Paid /\ [BootNext]_bootVars => Paid'
    BY PaidStep
  <1> QED BY <1>1, <1>2, <1>3, BootInductive, PTL DEF BootSpec
=============================================================================
