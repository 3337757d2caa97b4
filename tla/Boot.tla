------------------------------- MODULE Boot -------------------------------
(***************************************************************************)
(* What the unit runs: app_main up to its loop, the WiFi station that it   *)
(* waits for (main/wifi.c), the update over the air (main/ota.c), and the  *)
(* bootloader with its two app partitions.  A power cut may come between   *)
(* any two steps: the flash (partitions, otadata, NVS) stays, the RAM is   *)
(* lost.  A release is named by the version string of its manifest.        *)
(***************************************************************************)
EXTENDS Naturals

CONSTANTS
  Version,       (* releases                                               *)
  Default,       (* FW_VERSION_DEFAULT, the release flashed by cable       *)
  Good,          (* releases that get through app_main to ota_mark_valid   *)
  Long,          (* versions that do not fit char s_current_version[32]    *)
  None,          (* an empty or half-written partition, an absent key      *)
  MaxRetries,    (* MAX_RETRIES of wifi.c                                  *)
  MaxCuts,       (* bound: power cuts                                      *)
  MaxLost,       (* bound: versions NVS fails to keep                      *)
  MaxPublished,  (* bound: manifests published                             *)
  MaxInstalls    (* bound: how far the installations are counted           *)

ASSUME BootAssumption ==
  /\ Default \in Good \ Long /\ Good \subseteq Version /\ None \notin Version
  /\ MaxRetries \in Nat /\ MaxCuts \in Nat /\ MaxLost \in Nat
  /\ MaxPublished \in Nat /\ MaxInstalls \in Nat
  /\ MaxInstalls > MaxCuts + MaxLost + 1

Slot == 0..1
Other(s) == 1 - s

VARIABLES
  image,      (* flash: the release in each app partition                  *)
  otadata,    (* flash: the state of each partition's image                *)
  selected,   (* flash: the partition otadata selects                      *)
  nvs,        (* flash: fw_version                                         *)
  app,        (* where app_main stands                                     *)
  ota,        (* where ota_check_and_update stands                         *)
  running,    (* the partition that runs                                   *)
  current,    (* s_current_version                                         *)
  target,     (* the manifest's version, while it is being installed       *)
  link,       (* the station                                               *)
  retries,    (* s_retry_count                                             *)
  wifiBits,   (* s_wifi_events                                             *)
  misses,     (* history: disconnections since the last address            *)
  manifest,   (* the version the server offers                             *)
  published,  (* bound                                                     *)
  installs,   (* history: how often the present manifest was installed,    *)
              (* up to MaxInstalls                                         *)
  cuts, lost  (* history: power cuts, and versions NVS did not keep        *)

flash   == <<image, otadata, selected, nvs>>
program == <<app, ota, running, current, target>>
station == <<link, retries, wifiBits, misses>>
world   == <<manifest, published, installs, cuts, lost>>
bootVars == <<flash, program, station, world>>

BootTypeOK ==
  /\ image \in [Slot -> Version \cup {None}]
  /\ otadata \in [Slot -> {"undefined", "new", "pending", "valid", "aborted"}]
  /\ selected \in Slot /\ running \in Slot
  /\ nvs \in Version \cup {None} /\ current \in Version
  /\ app \in {"off", "nvs", "wifi", "wait", "init", "check", "mark", "loop"}
  /\ ota \in {"idle", "fetch", "begin", "write", "save", "restart"}
  /\ target \in Version \cup {None} /\ manifest \in Version \cup {None}
  /\ ota \in {"begin", "write", "save"} => target # None
  /\ link \in {"off", "connecting", "up", "idle"} /\ retries \in 0..MaxRetries
  /\ wifiBits \subseteq {"CONNECTED", "FAIL"}
  /\ misses \in 0..MaxRetries + 1
  /\ published \in 0..MaxPublished /\ installs \in 0..MaxInstalls
  /\ cuts \in 0..MaxCuts /\ lost \in 0..MaxLost

\* What a reset of the chip leaves in RAM.
RamInit ==
  /\ app = "off" /\ ota = "idle" /\ current = Default /\ target = None
  /\ link = "off" /\ retries = 0 /\ wifiBits = {} /\ misses = 0

\* A unit flashed by cable.
FlashInit ==
  /\ image = [s \in Slot |-> IF s = 0 THEN Default ELSE None]
  /\ otadata = [s \in Slot |-> "undefined"]
  /\ selected = 0 /\ nvs = None /\ running = 0

BootInit ==
  /\ FlashInit /\ RamInit
  /\ manifest = None /\ published = 0 /\ installs = 0 /\ cuts = 0 /\ lost = 0

Resets ==
  /\ app' = "off" /\ ota' = "idle" /\ current' = Default /\ target' = None
  /\ link' = "off" /\ retries' = 0 /\ wifiBits' = {} /\ misses' = 0
  /\ UNCHANGED running

-----------------------------------------------------------------------------
(* The bootloader, with CONFIG_BOOTLOADER_APP_ROLLBACK_ENABLE.              *)

\* An image that was started once and not confirmed is given up for the other one.
NextSlot == IF otadata[selected] = "pending" THEN Other(selected) ELSE selected

Bootloader ==
  /\ app = "off" /\ image[NextSlot] # None
  /\ running' = NextSlot /\ selected' = NextSlot
  /\ otadata' = [otadata EXCEPT ![selected] =
       CASE @ = "new" -> "pending" [] @ = "pending" -> "aborted" [] OTHER -> @]
  /\ app' = "nvs"
  /\ UNCHANGED <<image, nvs, ota, current, target, station, world>>

PowerCut ==
  /\ app # "off" /\ cuts < MaxCuts
  /\ Resets /\ cuts' = cuts + 1
  /\ UNCHANGED <<flash, manifest, published, installs, lost>>

\* A release that is not good panics somewhere before ota_mark_valid.
Crashes ==
  /\ app \notin {"off", "loop"} /\ image[running] \notin Good
  /\ Resets
  /\ UNCHANGED <<flash, world>>

-----------------------------------------------------------------------------
(* app_main.                                                                *)
AppGoes(from, to) == app = from /\ app' = to
AppOnly == UNCHANGED <<ota, running, target, image, otadata, selected>>

\* A partition NVS cannot read is erased.
NvsInit ==
  /\ AppGoes("nvs", "wifi") /\ AppOnly
  /\ \/ UNCHANGED <<nvs, lost>>
     \/ lost < MaxLost /\ lost' = lost + 1 /\ nvs' = None
  /\ UNCHANGED <<current, station, manifest, published, installs, cuts>>

\* wifi_init_sta starts the station; its start event asks for a connection.
WifiInit ==
  /\ AppGoes("wifi", "wait") /\ AppOnly
  /\ link' = "connecting"
  /\ UNCHANGED <<nvs, current, retries, wifiBits, misses, world>>

\* It waits, without a limit, for either bit; app_main goes on in both cases, and
\* with whatever the sensors and the microphone return.
WifiReturns ==
  /\ AppGoes("wait", "init") /\ AppOnly
  /\ wifiBits # {}
  /\ UNCHANGED <<nvs, current, station, world>>

\* Mutant: what nvs_get_str returns is not looked at.
LoadedUnchecked == nvs

\* nvs_get_str fails on a string that does not fit.
Loaded == IF nvs = None \/ nvs \in Long THEN Default ELSE nvs

\* ota_init: the stored version, then a first check in the same task.
OtaInit ==
  /\ AppGoes("init", "check")
  /\ current' = Loaded /\ ota' = "fetch"
  /\ UNCHANGED <<running, target, flash, station, world>>

OtaReturns ==
  /\ AppGoes("check", "mark") /\ AppOnly
  /\ ota = "idle" /\ image[running] \in Good
  /\ UNCHANGED <<nvs, current, station, world>>

\* Mutant: the image is confirmed first thing in app_main.
MarksFirst == app = "nvs" /\ app' = "wifi"

MarksLast == AppGoes("mark", "loop")

\* ota_mark_valid, with or without a network and an update.
MarkValid ==
  /\ MarksLast
  /\ otadata' = [otadata EXCEPT ![running] = IF @ = "pending" THEN "valid" ELSE @]
  /\ UNCHANGED <<ota, running, current, target, image, selected, nvs, station, world>>

-----------------------------------------------------------------------------
(* The station's event handler.  Its delay of 500 ms stops the event loop,  *)
(* which has nothing else to do here.                                       *)
StationOnly == UNCHANGED <<flash, program, world>>

\* Mutant: an address does not give the retries back.
KeepsRetries == UNCHANGED retries

GivesRetriesBack == retries' = 0

GotIp ==
  /\ link = "connecting" /\ link' = "up"
  /\ GivesRetriesBack /\ misses' = 0
  /\ wifiBits' = wifiBits \cup {"CONNECTED"}
  /\ StationOnly

\* Mutant: the last disconnection is not reported.
GivesUpSilently == UNCHANGED wifiBits

ReportsFailure == wifiBits' = wifiBits \cup {"FAIL"}

\* After the last retry nothing connects again until the next reset.
Disconnected ==
  /\ link \in {"connecting", "up"}
  /\ misses' = misses + 1
  /\ \/ /\ retries < MaxRetries
        /\ retries' = retries + 1 /\ link' = "connecting" /\ UNCHANGED wifiBits
     \/ /\ retries = MaxRetries
        /\ ReportsFailure /\ link' = "idle" /\ UNCHANGED retries
  /\ StationOnly

-----------------------------------------------------------------------------
(* ota_check_and_update, from ota_init and then from the hourly timer.      *)
OtaGoes(from, to) == ota = from /\ ota' = to
OtaOnly == UNCHANGED <<app, running, station, cuts, manifest, published>>

TimerFires ==
  /\ app = "loop" /\ OtaGoes("idle", "fetch") /\ OtaOnly
  /\ UNCHANGED <<flash, current, target, installs, lost>>

\* No connection, an error status, or not a manifest.
FetchFails ==
  /\ OtaGoes("fetch", "idle") /\ OtaOnly
  /\ UNCHANGED <<flash, current, target, installs, lost>>

Fetched == link = "up" /\ manifest # None

\* "Already running latest version".
UpToDate ==
  /\ OtaGoes("fetch", "idle") /\ Fetched /\ manifest = current /\ OtaOnly
  /\ UNCHANGED <<flash, current, target, installs, lost>>

FindsUpdate ==
  /\ OtaGoes("fetch", "begin") /\ Fetched /\ manifest # current /\ OtaOnly
  /\ target' = manifest
  /\ UNCHANGED <<flash, current, installs, lost>>

\* esp_https_ota does not begin while the running image is unconfirmed.
BeginRefused ==
  /\ OtaGoes("begin", "idle") /\ otadata[running] = "pending" /\ OtaOnly
  /\ target' = None
  /\ UNCHANGED <<flash, current, installs, lost>>

\* It erases the partition that does not run.
Begin ==
  /\ OtaGoes("begin", "write") /\ otadata[running] # "pending" /\ OtaOnly
  /\ image' = [image EXCEPT ![Other(running)] = None]
  /\ UNCHANGED <<otadata, selected, nvs, current, target, installs, lost>>

WriteFails ==
  /\ OtaGoes("write", "idle") /\ OtaOnly
  /\ target' = None
  /\ UNCHANGED <<flash, current, installs, lost>>

\* The image is whole and verified before otadata selects it.
WriteDone ==
  /\ OtaGoes("write", "save") /\ OtaOnly
  /\ installs' = IF target = manifest /\ installs < MaxInstalls THEN installs + 1 ELSE installs
  /\ image' = [image EXCEPT ![Other(running)] = target]
  /\ otadata' = [otadata EXCEPT ![Other(running)] = "new"]
  /\ selected' = Other(running)
  /\ UNCHANGED <<nvs, current, target, lost>>

\* Mutant: the version is not committed.
SavesNothing == UNCHANGED nvs

SavesTarget == nvs' = target

\* save_version_to_nvs; what it returns is not looked at.
SaveVersion ==
  /\ OtaGoes("save", "restart") /\ OtaOnly
  /\ \/ SavesTarget /\ current' = target /\ UNCHANGED lost
     \/ lost < MaxLost /\ lost' = lost + 1 /\ UNCHANGED <<nvs, current>>
  /\ target' = None
  /\ UNCHANGED <<image, otadata, selected, installs>>

\* esp_restart, whatever main is doing.
Restart ==
  /\ ota = "restart" /\ Resets
  /\ UNCHANGED <<flash, world>>

\* The server offers another release.
Publish ==
  /\ published < MaxPublished /\ published' = published + 1
  /\ manifest' \in Version \ {manifest} /\ installs' = 0
  /\ UNCHANGED <<flash, program, station, cuts, lost>>

AppStep ==
  \/ Bootloader \/ NvsInit \/ WifiInit \/ WifiReturns \/ OtaInit \/ OtaReturns
  \/ MarkValid \/ Crashes

StationStep == GotIp \/ Disconnected

OtaStep ==
  \/ FetchFails \/ UpToDate \/ FindsUpdate \/ BeginRefused \/ Begin
  \/ WriteFails \/ WriteDone \/ SaveVersion \/ Restart

BootNext == AppStep \/ StationStep \/ OtaStep \/ TimerFires \/ PowerCut \/ Publish

\* The tasks run, and an access point that is asked answers or refuses.
BootFair ==
  WF_bootVars(AppStep) /\ WF_bootVars(OtaStep) /\ WF_bootVars(app = "wait" /\ StationStep)

BootSpec     == BootInit /\ [][BootNext]_bootVars
BootFairSpec == BootSpec /\ BootFair

-----------------------------------------------------------------------------
(* Properties.                                                              *)

Confirmed(s) == otadata[s] \in {"undefined", "valid"}

\* Whenever the power is cut, the next boot runs a whole image, and if that one is
\* not confirmed, the boot after it runs a good one: no release and no sequence of
\* failures takes the unit out of reach of an update.
FallsBackToGood ==
  /\ image[selected] # None
  /\ Confirmed(selected) => image[selected] \in Good
  /\ ~Confirmed(selected) => Confirmed(Other(selected)) /\ image[Other(selected)] \in Good

\* The station gives up only after MaxRetries + 1 disconnections in a row, however
\* many there were before the last address it got.
GivesUpLate == link = "idle" => misses = MaxRetries + 1

\* A release is installed once, and once more only for a power cut or a version that
\* NVS did not keep: a unit does not reinstall what it runs every hour, as long as
\* the version's name fits.
InstalledOnce == manifest \notin Long => installs <= 1 + cuts + lost

\* A bad release that the stored version cannot tell from FW_VERSION_DEFAULT.
Unnameable == Long \ Good

\* After every reset the unit gets to its loop: no missing network and no bad release
\* keeps it from there, but for a bad one whose version does not fit.  What runs after
\* the fall back reads FW_VERSION_DEFAULT then, and the check of ota_init, which comes
\* before the loop, installs the same release again, for as long as it is offered.
ReachesLoop == app = "off" ~> (app = "loop" \/ manifest \in Unnameable)

\* When a check says that the latest version is already running, it is.
LatestIsRunning == [][UpToDate => image[running] = manifest]_bootVars
=============================================================================
