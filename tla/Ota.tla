-------------------------------- MODULE Ota ---------------------------------
(***************************************************************************)
(* The board's two firmware slots: the upload handler and the rollback     *)
(* timer of firmware/main/ota.c, the start of app_main (glue.c) and the    *)
(* network events of net.c on WiFi and Ethernet boards, with power losses  *)
(* between the steps.  Module Portal has the form of the setup portal.     *)
(* The bootloader and the esp_ota functions are external.                  *)
(***************************************************************************)
EXTENDS Portal

CONSTANTS
    Kinds,         \* what uploaded images are like, see Image
    Chunks,        \* bound: the reads an upload takes
    OTA_MAX_RECV_TIMEOUTS,
    MaxUploads,    \* bound: uploads that get past the first proof
    MaxLosses      \* bound: power losses

\* "good" images reach the network with stored or built-in credentials, "bare"
\* ones have none built in, "deaf" ones never get an address, "crash" ones
\* abort while they start.  "part" is what an unfinished upload leaves.
Image == {"good", "bare", "deaf", "crash"}
Slots == {0, 1}
Other(s) == 1 - s

ASSUME OtaAssumption ==
    /\ Kinds \subseteq Image /\ Chunks \in Nat \ {0} /\ OTA_MAX_RECV_TIMEOUTS \in Nat \ {0}
    /\ MaxUploads \in Nat /\ MaxLosses \in Nat

VARIABLES
    slot,     \* the image in each slot
    state,    \* the state of each slot's image in the ota data partition
    sel,      \* the slot selected to boot
    run,      \* the slot that runs, or ran before the board went down
    main,     \* how far app_main has come
    net,      \* the station: being tried, given up, with an address, and on_got_ip ran
    timer,    \* the rollback timer
    wifi,     \* built with CONFIG_BRIDGE_NET_WIFI
    creds,    \* WiFi credentials in flash: none, the network's, or others
    fits,     \* history: they come from a form that arrived whole and has room
    up,       \* ota_post
    uploads, losses

flash == <<wifi, creds, fits>>
vars == <<slot, state, sel, run, main, net, timer, flash, up, uploads, losses>>

ImgState == {"undefined", "new", "pending", "valid", "aborted"}
NoUpload == [pc |-> "idle", img |-> "good", proven |-> TRUE, left |-> 0, timeouts |-> 0]

TypeOK ==
    /\ slot \in [Slots -> Image \cup {"part"}] /\ state \in [Slots -> ImgState]
    /\ sel \in Slots /\ run \in Slots
    /\ main \in {"down", "start", "bt", "ota", "arm", "run", "portal"}
    /\ net \in {"off", "connecting", "lost", "assigned", "seen"} 
    /\ wifi \in BOOLEAN /\ creds \in {"none", "right", "wrong"} /\ fits \in BOOLEAN
    /\ timer \in {"off", "armed", "firing"}
    /\ up \in [pc : {"idle", "recv", "restart"}, img : Image, proven : BOOLEAN, left : 0..Chunks,
               timeouts : 0..OTA_MAX_RECV_TIMEOUTS - 1]
    /\ uploads \in 0..MaxUploads /\ losses \in 0..MaxLosses

\* Flashed over USB: one slot, which needs no confirmation.
Init ==
    /\ slot = [s \in Slots |-> IF s = 0 THEN "good" ELSE "part"]
    /\ state = [s \in Slots |-> "undefined"]
    /\ sel = 0 /\ run = 0 /\ main = "down" /\ net = "off" /\ timer = "off"
    /\ wifi \in BOOLEAN /\ creds \in (IF wifi THEN {"none", "right"} ELSE {"none"}) /\ fits = FALSE
    /\ up = NoUpload /\ uploads = 0 /\ losses = 0

-----------------------------------------------------------------------------
(* External: the bootloader, with rollback enabled (sdkconfig.defaults 4). *)

Boot ==
    /\ main = "down"
    /\ \/ /\ state[sel] = "pending"
          /\ state' = [state EXCEPT ![sel] = "aborted"]
          /\ sel' = Other(sel)
       \/ /\ state[sel] = "new"
          /\ state' = [state EXCEPT ![sel] = "pending"] /\ UNCHANGED sel
       \/ state[sel] \notin {"new", "pending"} /\ UNCHANGED <<state, sel>>
    /\ run' = sel' /\ main' = "start"
    /\ UNCHANGED <<slot, net, timer, flash, up, uploads, losses>>

\* Everything in RAM is gone; the update in progress leaves what it wrote.
Reset ==
    /\ main' = "down" /\ net' = "off" /\ timer' = "off" /\ up' = NoUpload
    /\ UNCHANGED <<slot, state, sel, run, uploads>>

PowerLoss == main # "down" /\ losses < MaxLosses /\ losses' = losses + 1 /\ Reset /\ UNCHANGED flash

-----------------------------------------------------------------------------
(* app_main and the event handlers.                                        *)

pending_verify == state[run] = "pending"

Rest == UNCHANGED <<slot, sel, run, flash, up, uploads, losses>>

\* net_start of the two builds.  Ethernet needs nothing but the cable; WiFi
\* without credentials is taken by the setup portal, and app_main returns.
NetStartEth == main' = "bt" /\ net' = "connecting"
LoadCreds == creds # "none" \/ slot[run] # "bare"
NetStartWifi ==
    \/ LoadCreds /\ main' = "bt" /\ net' = "connecting"
    \/ ~LoadCreds /\ main' = "portal" /\ net' = "off"
NetStart ==
    /\ main = "start"
    /\ \/ ~wifi /\ NetStartEth
       \/ wifi /\ NetStartWifi
    /\ UNCHANGED <<state, timer>> /\ Rest

\* bt_init and bridge_start; ESP_ERROR_CHECK restarts the board.
BtInit ==
    /\ main = "bt"
    /\ \/ slot[run] = "crash" /\ Reset /\ UNCHANGED <<flash, losses>>
       \/ slot[run] # "crash" /\ main' = "ota" /\ UNCHANGED <<state, net, timer>> /\ Rest

\* Mutant: the timer is never armed.
NeedsTimerNever == FALSE

\* ota_init: the image's state is read, then the timer is armed and the
\* server started; the network may come up in between.
NeedsTimer == pending_verify
OtaInit ==
    /\ main = "ota"
    /\ main' = IF NeedsTimer THEN "arm" ELSE "run"
    /\ UNCHANGED <<state, net, timer>> /\ Rest
Arm == main = "arm" /\ main' = "run" /\ timer' = "armed" /\ UNCHANGED <<state, net>> /\ Rest

\* Stored credentials go before built-in ones.
Reaches == slot[run] # "deaf" /\ (~wifi \/ creds # "wrong")

\* External: the driver finds no network, gets an address or loses it, the
\* cable is plugged in again.
Event(from, to) == net \in from /\ net' = to /\ UNCHANGED <<state, main, timer>> /\ Rest
NotFound == Event({"connecting"}, "lost")
Assign   == Reaches /\ Event({"connecting"}, "assigned")
LinkLost == Event({"seen"}, "lost")
LinkUp   == ~wifi /\ Event({"lost"}, "connecting")

\* Mutant: only the first attempt is made.
RetryToNone == "lost"

\* wifi_event: every disconnect is answered with another attempt; eth_event
\* only logs.
RetryTo == "connecting"
Disconnected == wifi /\ Event({"lost"}, RetryTo)

\* on_got_ip with ota_confirm: stopping a timer that is not there yet does
\* nothing.
GotIp ==
    /\ net = "assigned" /\ net' = "seen"
    /\ state' = IF pending_verify THEN [state EXCEPT ![run] = "valid"] ELSE state
    /\ timer' = IF timer = "armed" THEN "off" ELSE timer
    /\ UNCHANGED main /\ Rest

\* rollback_timeout: looks again, then restarts.
StillPending == pending_verify
Expire ==
    /\ timer = "armed"
    /\ timer' = IF StillPending THEN "firing" ELSE "off"
    /\ UNCHANGED <<state, net, main>> /\ Rest
RollBack == timer = "firing" /\ Reset /\ UNCHANGED <<flash, losses>>

\* portal_save: the operator gives the network's credentials.  A failed write
\* is not noticed, and power may be lost after the first of the two.
PortalSave ==
    /\ main = "portal"
    /\ \/ \E s \in Saves : creds' = s.creds /\ fits' = s.fits
       \/ creds' = "wrong" /\ UNCHANGED fits
       \/ UNCHANGED <<creds, fits>>
    /\ Reset /\ UNCHANGED <<wifi, losses>>

-----------------------------------------------------------------------------
(* ota_post.                                                               *)

Booted == UNCHANGED <<sel, run, main, net, timer, flash, losses>>

\* Mutant: a build without CONFIG_BOOTLOADER_APP_ROLLBACK_ENABLE.
BeginOkAlways == TRUE

\* External: esp_ota_begin refuses while the running image is unconfirmed.
BeginOk == ~pending_verify

\* From the headers to esp_ota_begin; a request refused on the way changes
\* nothing.  The second proof covers the body and is checked at the end.
OtaBegin ==
    /\ main = "run" /\ net \in {"assigned", "seen"} /\ up.pc = "idle" /\ uploads < MaxUploads
    /\ BeginOk
    /\ \E img \in Kinds, proven \in BOOLEAN :
         up' = [pc |-> "recv", img |-> img, proven |-> proven, left |-> Chunks, timeouts |-> 0]
    /\ slot' = [slot EXCEPT ![Other(run)] = "part"]
    /\ uploads' = uploads + 1
    /\ UNCHANGED state /\ Booted

OtaRecv ==
    /\ up.pc = "recv" /\ up.left > 0
    /\ up' = [up EXCEPT !.left = @ - 1, !.timeouts = 0]
    /\ UNCHANGED <<slot, state, uploads>> /\ Booted

\* Mutant: the upload waits for its peer without a limit.
StalledNever(t) == FALSE

\* Below the limit the remainder in OtaTimeout is the sum itself.
Stalled(t) == t + 1 >= OTA_MAX_RECV_TIMEOUTS
OtaTimeout ==
    /\ up.pc = "recv" /\ up.left > 0
    /\ up' = IF Stalled(up.timeouts) THEN NoUpload
             ELSE [up EXCEPT !.timeouts = (@ + 1) % OTA_MAX_RECV_TIMEOUTS]
    /\ UNCHANGED <<slot, state, uploads>> /\ Booted

\* A broken connection or a failed write: esp_ota_abort.
OtaAbort == up.pc = "recv" /\ up.left > 0 /\ up' = NoUpload /\ UNCHANGED <<slot, state, uploads>> /\ Booted

\* Mutant: the result of esp_ota_end is not looked at.
EndOkIgnored(valid) == TRUE

\* esp_ota_end tells whether what was written is a valid, signed image.
EndOk(valid) == valid

\* The proof over the digest, esp_ota_end and esp_ota_set_boot_partition, of
\* which the last two may fail.
OtaEnd ==
    /\ up.pc = "recv" /\ up.left = 0
    /\ \/ /\ up.proven
          /\ \E valid \in BOOLEAN :
               /\ EndOk(valid)
               /\ slot' = [slot EXCEPT ![Other(run)] = IF valid THEN up.img ELSE "part"]
          /\ state' = [state EXCEPT ![Other(run)] = "new"]
          /\ sel' = Other(run)
          /\ up' = [NoUpload EXCEPT !.pc = "restart"]
       \/ up' = NoUpload /\ UNCHANGED <<slot, state, sel>>
    /\ UNCHANGED <<uploads, run, main, net, timer, flash, losses>>

OtaRestart == up.pc = "restart" /\ Reset /\ UNCHANGED <<flash, losses>>

-----------------------------------------------------------------------------

OtaTask == OtaRecv \/ OtaTimeout \/ OtaAbort \/ OtaEnd \/ OtaRestart
MainStep == Boot \/ NetStart \/ BtInit \/ OtaInit \/ Arm
Events   == GotIp \/ Disconnected
Timer    == Expire \/ RollBack
Next ==
    \/ MainStep \/ Events \/ Timer \/ OtaTask
    \/ OtaBegin \/ NotFound \/ Assign \/ LinkLost \/ LinkUp \/ PortalSave \/ PowerLoss

Spec == Init /\ [][Next]_vars

\* The board boots and app_main goes on, events are handled, the timer expires
\* and the server's task runs.  Nothing is assumed of the network, the peer or
\* the operator.
FairSpec ==
    Spec /\ WF_vars(MainStep) /\ WF_vars(Events) /\ WF_vars(Timer) /\ WF_vars(OtaTask)

\* With a network that takes a station that keeps trying.
NetFairSpec == FairSpec /\ SF_vars(Assign)

-----------------------------------------------------------------------------
(* Properties.                                                             *)

\* README.md 186-187, net.c 31: as long as an image waits for its
\* confirmation, the other slot holds a whole image that has been in use.
FallbackIntact ==
    \A s \in Slots : state[s] \in {"new", "pending"} =>
        slot[Other(s)] # "part" /\ state[Other(s)] \in {"undefined", "valid"}

\* README.md 186-187, ota.c 239-240: an activated image is confirmed in the
\* end or the board runs the previous one again.
Settled(s) ==
    state[s] = "valid" \/ (state[s] = "aborted" /\ run = Other(s) /\ main # "down")
ComesUpOrReturns == \A s \in Slots : state[s] \in {"new", "pending"} ~> Settled(s)

\* ota.c 248-255, net.c 285-290: the same, but for an image that waits in the
\* setup portal of a WiFi board for somebody to give it credentials.
SettlesOrAsks ==
    \A s \in Slots : state[s] \in {"new", "pending"} ~> (Settled(s) \/ (wifi /\ main = "portal"))

\* net.c 127-135: a WiFi board whose image and credentials reach the network
\* gets an address again after every outage.
NetworkReturns ==
    (wifi /\ main = "run" /\ Reaches) ~> (net = "seen" \/ main = "down")

\* net.c 196-250: credentials whose encoded form has room and came in one
\* piece are stored as they were typed, in whatever bytes the browser wrote
\* them.
FormStored == fits => creds = "right"

\* README.md 186-188: however uploads, restarts, events, the timer and power
\* losses fall, the slots behave as one image that is relied on and at most
\* one on trial, each of them whole.
Waiting == state[sel] \in {"new", "pending"}
Current == IF Waiting THEN slot[Other(sel)] ELSE slot[sel]
Trial   == IF Waiting THEN slot[sel] ELSE "none"
Abs == INSTANCE Firmware WITH Images <- Image, None <- "none", current <- Current, trial <- Trial
ImplementsFirmware == Abs!Spec

\* ota.c 100-126: whatever the peer does, an upload ends and frees the server.
UploadEnds == up.pc # "idle" ~> up.pc = "idle"
=============================================================================
