# TLA+ models of esp-hci-bridge

The program gives a Linux PC a Bluetooth controller that sits on an ESP32
somewhere in the network. A board runs the firmware (`firmware/main`), a PC runs
the daemon and command line `hcibridge` (`host`), both share `common`. The
specifications here model the parts that are hard to test: the tasks of the
firmware around one host connection, the reassembly of HCI packets, the threads
of the daemon, the life of a board's key across two machines, firmware updates
with power losses and their setup portal, the announces of a board, and the
mutual challenge before each connection. TLC checks
them on small instances; TLAPS proves every safety property of the passing runs,
and one refinement, for all values of the constants.

    tlc -config MCBridge.cfg MCBridge       # any run listed below
    tlapm BridgeProofs.tla                  # any module of proofs

## 1. Inventory

| Component | State | Operations | Meets |
|---|---|---|---|
| `firmware/main/bridge.zig` bridge tasks | `client_fd`, `tx_pause`, `tx_idle`, `tx_failed` (atomics), stream buffer, `tx_chunk`, reassembler | rx loop (`rxTask`, `acceptClient`, `dropClient`, `drainStreamBuffer`, `sendToController`), tx loop (`txTask`), `bridge_on_controller_packet` | Bluetooth controller task, sockets, watchdog |
| `firmware/main/glue.c` | sockets, stream buffer; `last_announce`, `reply_window`, `replies` and the cached announce of the discovery task | wrappers, `app_main`, Bluetooth start, `discovery_task` | all of the firmware |
| `common/h4.zig` | buffer and fill level | `feed`, `reset`, length tables | bridge rx task, both pumps |
| `firmware/main/auth.c` | key in flash and RAM, `g_claimed`, nonce and counter | `auth_init`, `auth_handshake`, HTTP proofs, `auth_claim`, `auth_unclaim` | HTTP server, rx task |
| `firmware/main/ota.c` | image slots, rollback timer | `info`, `ota_post`, `claim_post`, `unclaim_post`, `reboot_post`, `ota_confirm`, `ota_init` | esp_ota, bootloader, net.c |
| `firmware/main/net.c` | credentials in flash, station or link state, `g_ip4` | `net_start` of both builds, event handlers, portal and its form | ota.c (`ota_confirm`) |
| `host/session.zig` | `stop`, `first_error` | two pumps, `fail`, `shutdown`, `run` | TCP stream, `/dev/vhci` |
| `host/board.zig` | `Link` | `run`, `Link.set`, `Link.kill` | session, manager |
| `host/manager.zig` | `Keys` cache, `Active.map`, `BoardCtx` objects | announce loop, `refresh`, `revokeMissing`, `claim`, `release`, `boardThread` | board.run, configuration |
| `host/main.zig` | `ctx.psk` of pinned clients | `clientThread`, `runMode` | board.run, configuration |
| `host/cli.zig` | the drop-in with a board's key | claim, unclaim, revoke, reboot, update, list | the board's HTTP server, manager (through the files) |
| `host/settings.zig`, `host/config.zig` | - | precedence of flags, environment, files; CIDR | manager, main, cli |
| `common/auth.zig`, `host/handshake.zig` | - | keyed proofs, message order and deadlines | board.run, auth.c |
| `common/discovery.zig` | - | datagram format | glue.c, manager, cli |
| `host/release.zig`, `host/httpc.zig` | - | release lookup, HTTP client | cli |

How they interact. On the board the rx task, the tx task and the controller task
share four atomics and the stream buffer, without a lock. The HTTP server task,
the event task, the timer task and `app_main` share flash and the state of the
image. In the daemon one thread per board runs a connection with two pump
threads; the manager's loop reaches into it through `Link.kill` and the map of
claimed boards, under mutexes. The command line and the daemon meet only in the
configuration files; the PC and the board only through requests that can be
lost, delayed or repeated, and announces.

What is hard: the park handshake of rx and tx and descriptor numbers that are
reused under a blocked send (Bridge); packets cut anywhere (H4); teardown from
another thread (Session); a map of pointers to objects whose threads end, keys
that change while they are used (Manager); two machines that must agree on a key
although either can die between any two steps (KeyLife); a challenge with two
clocks and peers that have no key (Handshake); power losses between
writing, selecting, booting and confirming an image, and a form that may come in
part (Ota, Portal); a cached announce and a counter that wraps (Discovery). PROJECT.json lists
each hazard at its line, with the properties meant to catch it.

## 2. Modules

### Bridge (`bridge.zig`, the wrappers of `glue.c`)

One action is one access to shared state: `RxSwap` is line 189, `RxUnidle`,
`RxPause` and `RxWait` lines 197-199, and so on; the comments give the lines.
`rx`, `tx` and `ctl` hold program counters and locals. Descriptor numbers (`fdt`)
are separate from connections (`sock`, `host`): `accept` may return any free
number, including one that has just been closed. A packet is a run of units, a
unit being the bytes between two places where a chunk may end, so that a chunk
can cut a packet and a send can be short. A host may stop reading, send, or go
away. `hosts`, `got`, `failed` and `last` are history variables for the
properties.

Abstracted: statistics and logging; the controller's flow control (a packet is
delivered or, after `send_wait_ms`, dropped); the content of the handshake, which
succeeds or fails. A select that fails (145-148) starts the loop over, without a
look at `tx_failed`, and changes nothing: it is a step in which rx stands still, and
fairness of rx assumes that select does not fail for ever. `RxHandshakeOk` requires `tx.pc # "park"`: tx is one store
away from loop top there, the handshake waits for the network, and both tasks
have the same priority on one core, so tx cannot stay preempted at that point for
the whole exchange. Without this a store of `tx_idle` from an earlier round could
be taken for the answer to the next; the firmware's scheduling excludes it, and
the model says so instead of proving it.

### H4 (`common/h4.zig`)

`feed` with the loop of its callers, byte-exact: `FeedStart` lets the last packet
go, `FeedLoop` is one turn of the copy loop. `Format`, `Field` and `FrameLen` are
the reference, written from the packet formats of the Bluetooth specification
and not from `headerLen` and `payloadLen`. `MCH4` makes streams of three packets
out of samples of every type, truncated, oversized and spoilt ones included.

### Session (`session.zig`, `board.zig`)

`run` is `board.run` with its defers in order, `up` and `down` are the pumps,
`kill` is `Link.kill` in the manager's thread, which holds the mutex from its
look at `stream` to its shutdown. `Retry` is the next round of the board's
thread. The board and the virtual device are external: they stall, close, reset
or hang up at any time.

### Manager (`manager.zig`)

One round of the loop is `MgrRecv`, `MgrRefresh`, `MgrRevoke`, `MgrLookup`,
`MgrAgain`, `MgrClaim`, `MgrSpawn`; a board thread is `ThreadConnect` to
`ThreadDestroy`. The connection itself is Session; here it is live or not.
`Killed` marks a published connection, and a connection so marked ends
(this is `KillEnds` of Session). Boards move, change keys and announce; the
operator edits the configuration; reloads, allocations, spawns and sessions fail.
An announce is a record of board, address and signing key; a lost one is one
never received, a repeated one stays in `net`.

Not modelled: idle probes, the table of boards already warned about.

### KeyLife (`auth.c`, the handlers of `ota.c`, the commands of `cli.zig`)

One board, several PCs. `Handle` is one request in the server task, `Reply` its
answer and end, `Boot` is `auth_init`; `Start` to `Revoke` are the steps of the
commands. A key is the number of the claim it comes from, because each exchange
has fresh secrets on both sides; a proof is the key and the nonce, a pair of a
random part that is new at each boot and the counter. Faults come from one budget: a
flash write that fails, or that reports failure although it wrote; a lost or
repeated request; a lost answer; a command killed at any point; a power loss;
erased flash; a drop-in that cannot be written.

Not modelled: firmware before nonces existed, a flash that cannot be read at
boot, proofs with a PSK given on the command line.

### Ota (`ota.c`, `net.c`, `app_main` in `glue.c`)

Two slots with the states the bootloader keeps, the selected and the running
slot, the start-up, the station or the Ethernet link, the timer, the upload.
`wifi` tells the two builds apart: `NetStartWifi` looks for credentials and may
end in the portal, `NetStartEth` does not, and only the WiFi build answers a
disconnect with another attempt. Images are good, bare (no built-in credentials),
deaf (never an address) or crashing. Stored credentials (`creds`) are the
network's or others; `PortalSave` takes one of the outcomes of Portal, an
unnoticed failed write, or a power loss between the two writes. The bootloader
and `esp_ota_*` are external, modelled as rollback-enabled ESP-IDF behaves and
as this code relies on. The drivers' configuration is one step.

### Portal (`net.c` 180-257)

The form as a pure module: `Forms` is what the page lets an operator type, `Body`
what a browser makes of it (external), `Stored` what `portal_save` keeps of the
bytes that one receive returned: `form_field` finds the value, copies as much of
its encoded form as `Room` allows and decodes it in place with `url_decode`. The
bytes are real, escapes included; only the two names are single symbols. `Fits` is
the reference. `Saves` sums up the ways a save can end, which is all that Ota uses.

### Firmware (abstract)

What `README.md` 186-188 of the repository promises of updates, without slots,
bootloader, timer or power: one image that is relied on and at most one on trial,
which is kept or given up. Ota implements it (`ImplementsFirmware`) under the
mapping `Current`, `Trial`: as long as the selected slot is new or unconfirmed,
its image is on trial and the other slot's is relied on.

### Handshake (`auth.c` 103-157, `handshake.zig`, `common/auth.zig` 43-56)

`RxAccept` to `RxEnd` are `auth_handshake` in the rx task, `Connect` to `HostEnd`
are `client` in a thread of the daemon. Each side counts down its own deadline,
the board's from accept, the host's from connect; `Tick` is the passing of time
and may come between any two steps. The board's key is read twice, and `Erase`
and `Unflag` (`auth_unclaim` in the HTTP task) can come in between. A MAC is the
record of what went into it, built by separate operators for the C and the Zig
side. The mimic stands for any machine without the key: a host reaches it at the
board's old address, the board is called by it, and it repeats what it has heard,
since the exchange travels in the clear. `Erase` leaves zeros for a key, which are
no secret: the mimic also makes the proof that is due with them (`ZeroProof`).

A receive waits for whole milliseconds (`Grain` units of time). `readAllBy` gives up
when none is left (`HostTimeout`). `recv_exact` sets `SO_RCVTIMEO` in microseconds,
of which lwIP keeps whole milliseconds, and zero, which line 154 uses to that end,
is no timeout (`RxTimeout`, `Never`). `wait` is what the present receive has to go.
`at` (when the board's receive began), `spent` and `late` (what the board proved
after `g_claimed` was cleared) are there for the properties.

Abstracted: nonces and MACs are received whole, but separately, so that the
64 bytes the board waits for arrive in two pieces; a nonce never repeats by
chance; a timeout that has come is acted upon before more time passes. A board that
was released is not claimed again here (KeyLife has that).

### Pinned (`main.zig`)

The thread of one pinned board, composed with KeyLife: the module extends it, adds
the thread and takes KeyLife's steps as they are, so that keys change, get lost and
come back under the thread as claim, unclaim, revoke, power losses and faults have
it; the operator's decision to give a board away (`Decide`) is added here. Lookup by address, the single-key fallback at start (`StartKey`) and the drop
of a key after `AuthFailed` are the code's; `conf` is what the operator has filed
under the address, because `claim` files a key under the board's Bluetooth address,
where this lookup does not find it. A handshake cut off by a fault counts as
`AuthFailed` too. `Crowded` says whether the configuration holds another board's key.

### Discovery (`glue.c` 261-342, `auth.c` 161-176, `g_ip4` of `net.c`)

`Top` to `Probe` are `discovery_task`. It reads the address, `g_claimed` and the
key one after the other, and `SetIp`, `Claim`, `Unclaim` (in its two steps) and
`Restart` come in between. Time passes in ticks, and only while the task waits in
`recvfrom`; the counter wraps (`Millis`) and differences are taken modulo it.
`stale`, `quiet` and `rate` are history variables: ticks since the cached announce
was last true, ticks since the last broadcast, and the replies of the last ticks.

Abstracted: a broadcast counts when it is handed to the socket; the socket could be
opened (otherwise the task ends, and the board is reachable by address only); what
is received is a probe or is not; address, port and name of the board are fixed.

### Proof modules

`BridgeProofs`, `H4Proofs`, `SessionProofs`, `ManagerProofs`, `KeyLifeProofs`,
`HandshakeProofs`, `OtaProofs` (with Portal and Firmware) and `DiscoveryProofs`
extend the eight specifications and hold their theorems. No module declares a
RECURSIVE operator; recursion is written as recursive functions.

## 3. Runs

Each run's cfg names its bounds. All finish in at most a few minutes.

| Run | Instance | Properties | Shows |
|---|---|---|---|
| bridge_down | 2 connections, 2 descriptor numbers, buffer of 3 units, chunks of 1, 2 packets of 2 units | `TxParkedWhileDraining`, `HostStreamWhole`, `FailureIsOwn`, `FdsAccounted`, `NoPartialWrite`, `AcceptCompletes` | the controller-to-host direction under every interleaving; replacing a host completes though tx may be blocked in send |
| bridge_up | hosts send 3 units, packets of 2, reads of up to 3 | `TypeOK`, `RecvNeverBlocks`, `OneHostPerPacket` | the host-to-controller direction: no recv on a socket that was not polled, no packet from two hosts |
| h4 | storage of 8, chunks up to 7 | `FramesExact`, `CopyInRange`, `ChunkConsumed` | packets are cut as the formats say and streams refused only for what they are, for every chunking; the loops end |
| session | 2 chunks each way, 2 kills | `KillHitsLiveStream`, `PumpsOwnHandles`, `FailureReported`, `SessionEnds`, `KillEnds` | handles outlive their users, errors are not lost, ends propagate |
| manager | 2 boards of which one keeps announcing, 3 addresses, 2 objects, 2 keys, 1 event, keys on the command line of which one is old | `ClaimHeld`, `MapHoldsLiveCtx`, `RevokedDropped`, `KeyedBoardAttaches` | one thread per board, no dangling pointer, a removed key detaches its board for good, a keyed board is attached in the end and stays so |
| keys | 2 PCs, 4 commands, 2 faults | `ReplayRefused`, `KeyAccounted`, `OwnerKeeps` | proofs work once, keys are not lost without a fault, nobody takes over a claimed board |
| keys_pinned | 1 PC with the daemon, 2 commands before the decision, 2 faults | `ReleaseCompletes`, `KeyReachesBoard` | repeating unclaim gets rid of the key on both sides while the daemon uses it; a key filed under the board's address gets its thread attached, whatever happened before |
| ota | both builds, 3 uploads, 2 power losses, every kind of image; values of up to 3 bytes in fields of 4 and a body of 18 | `FallbackIntact`, `FormStored`, `UploadEnds`, `SettlesOrAsks`, `NetworkReturns`, `ImplementsFirmware` | there is always something to fall back to, and the slots implement Firmware, though the timer's restart may come to an image confirmed meanwhile; uploads end; a bad image is rolled back unless it opens the portal; a good one gets its address again; a form that has room is stored as typed |
| handshake | 2 hosts, one with an old key, a peer without one, 2 connections, deadlines of 4 units, milliseconds of 2, 1 restart | `HostSure`, `BoardSure`, `ClosedOnceReleased`, `SameKeyAgrees`, `HandshakeBounded` | a host that gets through has met the board in this very exchange; so has the board a host with its key, until it is erased; once released, at most the exchange under way gets the radio; equal keys agree; no host is held beyond its deadline, nor the board outside a receive that began in the last millisecond |
| discovery | 2 addresses, 1 key, counter of 8 ticks, interval of 4, receive timeout and window of 2, 2 replies | `AnnounceFresh`, `AnnouncedInTime`, `RepliesBounded` | announces are neither late nor outdated for longer than 6 ticks; replies are bounded under a flood |

Why the bounds are enough. Two connections and two numbers suffice for every
reuse the code can meet: a number freed by the first host is given to the second
while tx still holds it. Two packets of two units do not fit together in a
buffer of three, so the buffer fills, chunks of one cut every packet and a rest
is left for the drain. Three H4 packets, the first repeated, put every type
before and after every other one, and chunks run from one byte to past a packet.
Two kills let one come too early and one too late. Two boards let one's announce
drop the other; two objects let one be destroyed while the other is claimed, and
let the pool run out. One event beside the free ones is enough for a revocation
or a move, and the old key given at the start puts a stale key in the cache. Two connections of the handshake allow an answer of the first to be
repeated on the second, and a peer in the middle of a host and the board. With two
units to a millisecond and two milliseconds to the deadline a part can come before,
at and within the last one. Two
faults cover a failure and a failed repair of it. Three uploads return to the first slot with an image that was itself an upload, and two losses hit two
different steps of one update. A letter, a space and a byte above 127 take one byte
plain, one byte changed and three bytes in the form; three of them reach from far
below a field's room to far above it, and a body of 18 holds some forms and cuts
others. A tick of Discovery is 500 ms: the interval, the timeout and the window keep
their proportions; a counter of 8 ticks wraps every other interval, and two replies
stand for five. Each bound of its three properties is reached: none holds with one
tick or one reply less. One board and one PC are enough for Pinned, since the thread
knows of no other; two commands make a key that replaces another. For the safety
properties the choice of bounds is no longer the argument: the theorems of section 5
hold for any of them. It is for liveness.

`CHECK_DEADLOCK FALSE` is set for KeyLife, Pinned and Handshake only: when the
bounded commands, faults or connections are used up, everybody may rest.

### Runs that find a violation

Each contradicts a sentence of the repository, quoted in PROJECT.json under
"findings".

| Run | Property | What happens |
|---|---|---|
| bridge_leak | `NoCrossHostLeak` | the controller task tests `client_fd` (96), the host is replaced and the buffer drained, then the packet is written (106) and goes to the new host |
| ota_portal | `ComesUpOrReturns` | an unconfirmed image that opens the portal has no timer |

### Met while modelling, without a run of their own

The models have these behaviours; the properties above are stated so that they
allow them.

- `dropClient` (`bridge.zig` 210-212) closes the number while tx may hold it from
  255 and be about to send on it (260), so accept can hand it to a peer that has
  not passed the handshake; the comment at 192 keeps the number in `acceptClient`.
- The board closes cleanly while the other pump writes: the write's error is
  reported by `run` (`session.zig` 82, comment at 67).
- An announce verified with the key of the second reload starts a thread with the
  key from before it (`manager.zig` 306, `psk` of 259). One failed handshake
  follows and the next announce repairs it. That second reload (275) does not
  revoke either; the next one at the head of a round does.
- A configuration that cannot be read once counts as empty and every board is
  dropped (`cli.zig` 21, `manager.zig` 114).
- Keys given as `--psk` are replaced by the first reload (`manager.zig` 50,
  `settings.zig` 4).
- An answer lost after the board stored its key leaves it claimed by nobody
  (`auth.c` 281, `cli.zig` 554, `README.md` 228).
- An announce from a pinned address is dropped before the reload (`manager.zig`
  253), so it does not lead to a revocation either.
- A board that restarts or closes during the handshake is reported as
  `AuthFailed`, "wrong key, or not the real board" (`board.zig` 44), although the
  key is right.
- A key found as the only one at start is never found again by a pinned client
  after one failed handshake (`main.zig` 204, 221).
- `claim` files the key under the board's Bluetooth address, a pinned client looks it
  up by host: "Key may appear later, when the user runs `hcibridge claim`"
  (`main.zig` 201) comes true only if somebody also files it under the host, or
  restarts the daemon with no other key configured.
- `form_field` cuts a value as it was encoded (`net.c` 224): a password of 63
  characters, which the page allows (190), is cut if enough of them are escaped, and
  the last escape may be cut in two.
- One receive is taken for the whole form (`net.c` 234), failed writes are not
  noticed (247-249), and a power loss between them leaves a name without its
  password. Stored credentials that are wrong never open the portal again (146-148, 287).
- An unconfirmed image that opens the portal is rolled back by the restart that
  follows the save (`net.c` 255): the bootloader takes it for a failed boot.
- The rx task can outlast its deadline, although "a peer trickling bytes cannot hold
  the rx task" (`auth.c` 145-146): if a part comes with less than a millisecond to
  go, line 110 sets a timeout that lwIP rounds to zero, which is none, and the receive
  lasts until the peer sends or closes. `HandshakeBounded` says that this is the only
  way.
- From `memset` (`auth.c` 295) to the restart (`ota.c` 191-193) the key is 32 zeros,
  and `g_claimed` is looked at only when an exchange begins (149): a peer that is in
  one can answer with a proof made of zeros and gets the radio until the restart,
  although it is to "prove the key before" (`bridge.zig` 182). `BoardSure` is stated
  for a board that has its key; `ClosedOnceReleased` says that one exchange at most
  gets by after the flag is cleared.
- The rollback timer can restart an image that is confirmed between its look at the
  state (`ota.c` 243) and the restart (245). The image stays confirmed and boots again.
- Between the two steps of `auth_unclaim` (`auth.c` 295-296) an announce is signed
  with a key of zeros. It verifies nowhere; the next one is unsigned.
- Up to twice `PROBE_REPLIES_PER_S` replies can fall into one second (`glue.c`
  333-340), at the end of one count and the start of the next.
- An address that is gone stays in the cached announce until the interval is over,
  and answers probes as long (`glue.c` 316, 339).

## 4. Fairness

- Bridge: `WF(RxStep)`, `WF(TxStep)`. FreeRTOS runs ready tasks of equal priority
  round robin. Nothing is assumed of hosts; a blocked send stays blocked until
  the shutdown of line 195 fails it, which is what `AcceptCompletes` is about.
- H4: the task inside `feed` keeps running.
- Session: the three threads run, a kill that holds the mutex goes on. Nothing of
  the board or the device.
- Manager: threads and the loop run, and two seconds pass while the loop waits for
  a datagram (`SF` of `Tick` between rounds: a round takes a small part of two
  seconds, so the period does not end inside a round every time). For boards in `Alive` only:
  they announce themselves (the firmware does so every 2 s), and of infinitely
  many announces some arrive (`SF`).
- KeyLife: the board's tasks and the commands run. For `ReleaseCompletes` the
  operator who gives a board away repeats the command while it is up, and
  interrupts one that waits for an answer that cannot come: the client has no
  timeout there.
- Ota: `app_main`, the event, timer and server tasks run. The run also assumes
  `SF(Assign)`, a network that takes a station which keeps trying; of its
  properties only `NetworkReturns` needs it.
- Pinned: KeyLife's fairness, and the thread runs and its sleeps end. Nothing is
  assumed of the operator's file.
- Discovery: none. That announces are in time is a safety property here, since time
  passes only while the task waits, and never for longer than the receive timeout.

## 5. Proofs

TLAPS checks, for any values of the constants that satisfy the named
assumptions (`FdsAssumption`, `ConnAssumption`, `SizeAssumption` of Bridge;
`StreamsAssumption`, `BufAssumption`, `ChunkAssumption` of H4; `BoundsAssumption`
of Session; `ManagerAssumption`, `KeyLifeAssumption`, `HandshakeAssumption`,
`OtaAssumption`, `PortalAssumption`, `DiscoveryAssumption`), each of them of the
form `Spec => []P` except the refinement:

| Module | Theorem | States |
|---|---|---|
| BridgeProofs | `TypeCorrect` | `TypeOK` |
| | `ParkedWhileDraining` | `TxParkedWhileDraining` |
| | `WholeWrites` | `NoPartialWrite` |
| | `DescriptorsAccounted` | `FdsAccounted` |
| | `NeverBlocksInRecv` | `RecvNeverBlocks` |
| | `FailuresAreOwn` | `FailureIsOwn` |
| | `PacketsOfOneHost` | `OneHostPerPacket` |
| | `StreamsWhole` | `HostStreamWhole` |
| H4Proofs | `H4Types` | `TypeOK` |
| | `FramesAsFormatted` | `FramesExact` |
| | `CopiesInStorage` | `CopyInRange` |
| SessionProofs | `SessionTypeCorrect` | `TypeOK` |
| | `KillOnlyLiveStream` | `KillHitsLiveStream` |
| | `HandlesOutlivePumps` | `PumpsOwnHandles` |
| | `FailuresReported` | `FailureReported` |
| ManagerProofs | `ManagerTypeCorrect` | `TypeOK` |
| | `OneThreadPerBoard` | `ClaimHeld` |
| | `NoDanglingCtx` | `MapHoldsLiveCtx` |
| KeyLifeProofs | `KeyLifeTypes` | `TypeOK` |
| | `ReplaysRefused` | `ReplayRefused` |
| | `OwnersKeep` | `OwnerKeeps` |
| | `KeysAccounted` | `KeyAccounted` |
| HandshakeProofs | `HandshakeTypes` | `TypeOK` |
| | `OneDeadline` | `HandshakeBounded` |
| | `HostMetBoard` | `HostSure` |
| | `BoardMetHost` | `BoardSure` |
| | `ClosedAfterRelease` | `ClosedOnceReleased` |
| | `NoProofRefused` | `SameKeyAgrees` |
| OtaProofs | `OtaTypeCorrect` | `TypeOK` |
| | `FallbackAlwaysIntact` | `FallbackIntact` |
| | `FormsStored` | `FormStored` |
| | `OtaImplementsFirmware` | `Spec => ImplementsFirmware` |
| DiscoveryProofs | `DiscoveryTypeCorrect` | `TypeOK` |
| | `NeverSilent` | `AnnouncedInTime` |
| | `NeverOutdated` | `AnnounceFresh` |
| | `FloodBounded` | `RepliesBounded` |

The park handshake. Exclusion while draining is not inductive: that `tx_idle`
proves tx parked depends on the past. `ParkInv` adds that no store of a stale
TRUE is under way when `acceptClient` clears `tx_idle`, that `tx_idle` stays false
until the pause is set, and that once it is true during the wait tx is between
its loop top and that store, where the pause keeps it. The scheduling assumption
of `RxHandshakeOk` is what the first part rests on.

Whole writes. Between the space check and the write the buffer can only shrink,
because the controller task is the only writer; type correctness supplies the
lengths. Every step leaves `ctl` alone and does not lengthen the buffer, or is
one of three of the controller task.

Descriptors. `FdInv` says who holds each open number at each place of the rx task:
the client, the connection being accepted, or the old one until its close; no two
numbers name one connection. On it rest the next four. `PollInv`: until rx compares
the client with the number it polled, a client that still has that number is the one
that was readable, because rx alone closes and publishes. `FailInv`: a client is
published only while tx is parked, so a tx that sends or is about to report has read
the present client or one without a successor yet, and what was reported before is
cleared after the park (line 201). That the clearing comes after the park is what
makes a failure its client's own.

Packets across hosts. `ReInv`: what the reassembler holds is of one host, of the
present one if there is one, and it is empty from the old host's shutdown to the new
one's publication (196). `StreamInv` follows the units from the controller to the
host: what a host has received, what tx still carries and what is buffered make whole
packets in order, the last one complete (`Sealed`); the drain leaves a buffer that
starts with a packet's first unit, since a packet is written whole. The connection of
a host that was cut off is exempt, as in the property.

Reassembly. The loop asks `headerLen` and `payloadLen` of the bytes so far, the
reference asks the formats of the whole stream. `FrameAgrees` is the lemma that both
give the same length once a header is complete, the two bytes of ACL, the 14 bits of
ISO and the one byte of the others each. `BufInv` says that the buffer is the stretch
of the stream since the last packet, holds at most one packet and no error; `OutInv`
that the packet returned last is that buffer, or ends where it starts. No induction
over the stream is needed: the formats fix where a packet ends from where it begins.

Connections. Session's three invariants depend on how far `board.run` has come, which
they do not say. `SessionInv` ties the rest to its program counter: the link is
set exactly between publish and unpublish and a kill that has seen it keeps
unpublish waiting; a pump that was started has ended when the defers run; an error a
pump has met is recorded, about to be, or another one is (`ErrOk`). The last is why
the race for `first_error` is harmless: it goes from none to some and never back.

Claims. `ClaimHeld` and `MapHoldsLiveCtx` need each other, and both need
`Spawning`: the object that has been put in the map and has no thread yet is the
one of the current round. Without it a failed spawn could remove another
thread's claim.

Keys. What is proved of a key depends on it never being made twice and of a request
on its number belonging to one command: `NumberInv`, `UsedInv`. `GrantInv`: a key
that was given out and not released is the board's, in flash and, while it is up, in
RAM. From it `OwnerKeeps`, over every restart and failed write. `ReplayInv` is the
reason why no proof works twice: once carried out, its nonce is past (by counter or
by boot) or its key is gone for good. The second alternative is needed, because
unclaim does not advance the counter. `AccountInv` says of every copy about to be
overwritten, by the end of a claim or of an unclaim, that the board no longer uses
that key.

Challenges. `CountInv` gives each connection at most one nonce of each side, which
bounds `nonces`. `TimeInv`: on both sides what is left and what was spent make the
deadline, and a receive has no more to go than what is left; only the board's may
have no end, and then it began in the last millisecond. `SentInv`: all that travels
has been sent before or is made up without the key (a nonce, or a proof with zeros),
and every proof ever sent comes from a host that answered or from the board. With
`FreshInv`, nonces are used once and the board, as long as it has its key, goes on only
with a host's answer to its present nonce, this gives `HostSure` and `BoardSure`,
although the mimic repeats anything. Nothing is assumed of who wins a race: only that
MACs of different input differ. `ClosedInv`: the flag falls after the key and does not
come back, and nothing is proved after it fell but by the exchange that was under
way, after which the board stays idle. `SameKeyAgrees` needs
`WireInv`, an account of what is under way on each connection between a host and the
board: the mimic has no part in such a connection (it has its own with either side), so
each of them finds the proof over the nonces it holds, until `Erase`.

Slots. `FallbackIntact` says nothing about what is selected or running, and an
upload overwrites the slot that does not run. `SlotInv` adds that the selected
slot is whole and not given up, that only the selected image can wait, that what
runs is what is selected until an upload has selected the other slot, and that
uploads are received by a confirmed image only; the last is where the refusal of
`esp_ota_begin` in an unconfirmed image enters.

Refinement. `OtaImplementsFirmware` uses the same invariant. `AbsInit` maps initial
states to initial states; then each action is a stutter (`AbsQuiet`: neither slots,
states nor selection change; `AbsBegin`: an upload spoils the slot that is neither
relied on nor on trial) or one abstract step: `AbsEnd` activates, `AbsGotIp` keeps,
`AbsBoot` gives up when the bootloader returns. That the image an upload activates is
whole, and that the one to return to is, comes from `SlotInv`.

The form. `FormStored` is a statement about bytes: decoding what a browser encodes
gives back what was typed, for every sequence (`RoundTrip`), and `form_field` finds
the whole of it in the body (`FieldRead`) if it came whole and has room (`Fits`).
Encoding and decoding are recursive functions on positions. The library's induction
rules cannot be used by the installed provers, but its theorem that a well-founded
relation has a least element in every non-empty SET can (`WFMin`,
`NatLessThanWellFounded`); `UptoInduction` and `TickInduction` are induction for sets
of numbers, proved from it by the least counterexample, and a predicate is the set of
numbers that satisfy it. `FormInv` ties this to Ota: the portal is open only
while nothing is stored.

Time. The task compares differences of an unsigned counter. `TimeInv` bounds the
difference at each place of the loop, by the interval and what has been waited since,
so that it stays below a whole turn and a tick adds exactly one to it (`TickElapsed`);
the histories stay below the difference except while an announce is being made. The
assumption `Millis > Bound` is all that is needed of the counter's width.

Replies. `RateInv`: the ticks that lie wholly in the current count sum up to no more
than `replies`, and the whole last second to no more than that and one full count
before. `Sums` gives the partial sums of the history, and how a tick shifts them is
shown by `TickInduction`.

What the proofs found. The clauses of `AfterAnswer` in KeyLife overlapped for one
answer, which TLC resolved by their order; they are disjoint now. Handshake needed
to say that `"board"` is none of its model values for strangers. Everything else held
as TLC had it.

Only model-checked: liveness, that is `AcceptCompletes`, `ChunkConsumed`, `SessionEnds`,
`KillEnds`, `RevokedDropped`, `KeyedBoardAttaches`, `UploadEnds`, `SettlesOrAsks`,
`NetworkReturns`, and both properties of Pinned; fairness and ENABLED are outside the
prover's reach. Pinned takes KeyLife's steps as they are and states no safety property
of its own.

## 6. Not modelled

The boot trace is a number that survives a reset for diagnosis; no decision depends
on it (its stages are not strictly in the order of `docs/DEVELOPMENT.md` 55-62: 5 is
marked before 4, and 9 can be marked before 6). The terminal output and generated
help, the build and packaging files, and the simulator (test code) have no behaviour
of their own to check. The cryptographic functions are abstract: a proof verifies if
and only if key and nonce are the same. The task watchdog is fed at the top of the rx
loop, but its timeout only logs, so the time between two feeds decides nothing. The
text of datagrams, the probes of `list` and of an idle manager, the parsing of
configuration, the HTTP client and the lookup of releases are not modelled yet; see
the plan.

## 7. Plan

Done: Bridge, H4, Session, Manager, KeyLife, Handshake, Ota with Portal and Firmware,
Pinned as a composition with KeyLife, Discovery, and the proofs of section 5.

Next, in this order:

1. An abstract specification of mutual authentication that Handshake implements and
   that Bridge and Session use for their one-step handshake; a register of the
   board's owner for KeyLife; a one-host radio for Bridge; their refinements proved
   from the invariants of section 5.
2. OtaUpdate: `update` and its wait for the board in `cli.zig` composed with Ota. The
   command reports success as soon as the board answers again, or after 90 s; that a
   board has rolled back is a warning, told by comparing versions (`cli.zig` 265-291).
3. Settings: precedence of flags, environment and files, and CIDR matching, as
   operators against a reference definition.
4. Release and HTTP retry.

Where a new module's question belongs to one a run asks already, it joins that
run instead of adding another.
