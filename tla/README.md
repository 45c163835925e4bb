# MiBee Eye in TLA+

TLA+ modules, TLC configurations and TLAPS proofs about
[mibee-eye-go](../src/README.md), a network camera for the Raspberry Pi in Go:
one capture source, one H.264 access-unit stream, and many consumers of it
(RTSP, live view in the browser, recording, HLS, RTMP, GB28181, AI detection).

The models are written from the code. Control is kept (every guard, early
return, error path and critical section); data is abstracted to what the
properties tell apart: an access unit is a number, or a keyframe or a delta
frame; a file is its name; a clock tick is the second by which files are named.

## 1. The system

| part | source | state it keeps | how it meets the others |
|---|---|---|---|
| camera backends | `internal/camera/rpicamvid.go`, `camera.go`, `v4l2_source.go`, `rtsp_source.go` | a subprocess or device, a frames channel (30) | frames to the restartable camera |
| restartable camera | `internal/camera/restartable.go` | current source, stable channel (4), stopped | `Restart` from the web layer; frames to the camera pump of `main` |
| camera pump, parser | `cmd/server/main.go`, `internal/h264/parser.go` | latest SPS and PPS | parses frames, writes access units to the hub |
| access-unit hub | `internal/h264/hub.go` | map of subscribers, their channels and drop counters | one producer, every consumer subscribes |
| RTSP server | `internal/rtsp/server.go` | per mount: stream, client count, reader; session map | two hub subscriptions, gortsplib's callbacks |
| MSE live stream | `internal/web/stream_mse.go` | per connection: realign tracker, clock | one hub subscription per request |
| recording | `internal/recording/` | queue, open segment, index in memory and on disk | one hub subscription, `SetPaused` from GB28181, retention goroutine |
| RTMP push | `internal/rtmp/` | connection, retries, parameter sets, a header flag | one hub subscription; `Stop` from `main` |
| HLS server | `internal/hls/` | open segment, window, cached playlist, clock | one hub subscription; HTTP handlers |
| substream | `internal/camera/substream.go`, `v4l2_source.go` | tap channel (2), encoder, failover count | the camera's pump offers frames; feeds the sub mount |
| hardware encoder, planes | `internal/v4l2/`, `yuv_transform.go`, `downscale.go` | the driver's two queues | called by camera and substream |
| web | `internal/web/` | sessions and their file, login limiter, `config.yaml`, live parameters | HTTP; restarts the camera in place or the process |
| AI detection | `internal/ai/` | registry and its files, active detector, ffmpeg decoder, events (16) | a hub subscription or the camera's tap; requests of the web layer |
| alarm bridge | `internal/gbalarm/` | last target, gate, cooldown | takes the events of AI, commands of the platform |
| thermal, ONVIF, GB28181 device, metrics | `internal/thermal`, `onvif`, `gb*`, `metrics`, `otelx` | sensors, providers | own goroutines, libraries |

What is hard here is concurrency between goroutines that share little but
channels: a bounded channel that loses (hub), a lock released between two steps
(retention, RTSP Stop, Restart, the requests that write `config.yaml`), a channel
closed by one goroutine and sent on by another, counters that decide whether a
goroutine runs, external processes that end when they like, and a disk that
outlives the process. `PROJECT.json` lists each hazard at its line, with the
properties that would catch it.

What makes each part correct:

- **hub**: never sends on a closed channel; each subscriber gets a lossy FIFO
  whose losses are counted; a subscription ends through its own user only.
- **MSE**: a decoder is never given a frame whose reference is missing.
- **recording**: no frame waits for the next one to be written; segments do not
  overlap; files and index agree, through pauses, faults, crashes and deletions;
  the disk limit holds; retention ends.
- **RTSP**: one reader per mount, running while somebody plays and for nobody else;
  Stop ends.
- **restartable camera**: one user of the device; the running source is pumped;
  stopped means stopped; no pump is left behind.
- **camera subprocess**: a dead one is replaced, the device is free after Stop,
  the settings made last are the ones in force.
- **RTMP**: on every connection no delta frame is sent before a header, or after a frame
  the client left out; Stop ends.
- **HLS**: what a client put together from playlists and segments is playable.
- **substream, encoder**: one encoder session at a time; a driver that fails
  and recovers does not leave the encoder wedged or behind.
- **parameter sets**: an IDR reaches the hub with the sets it was coded with.
- **formats**: what a peer, player or encoder reads back is what went in.
- **web**: the process runs with what `config.yaml` says, in the shape that was
  announced; a saved file can be loaded; revoked sessions stay revoked; lockouts
  are earned.
- **AI**: sessions of detectors do not pile up, registry and files agree, the
  decoder holds one process and one subscription at a time, every edge whose event
  is not lost reaches the bridge once.

## 2. Modules

| module | models | state and actions |
|---|---|---|
| `LossyChannel` | what the hub promises one subscriber | a FIFO whose items remember whether a loss precedes them; `Deliver`, `Lose`, `Take`, `Close` |
| `AUHub` | `AUHub` and its watchers | `subscribers` is keyed by the ID that `string(rune(n))` yields, so that two subscriptions can collide; `Write`, `Subscribe`, `Unsubscribe` are the critical sections, `CancelSub` the `cancel()` after the unlock, `Watch` the goroutine started by `Subscribe` |
| `AUHubChannels` | refinement | for every handle, the hub's state seen as a `LossyChannel` |
| `MC_AUHub` | instances for TLC | the set of counters without an ID of their own |
| `MseStream` | `streamMSE` and `realignTracker`, composed with `LossyChannel` | `pc` is the place in the range loop; `Camera`, `Overflow`, `Disconnect` happen between any two of the handler's steps. `missing`, `sent`, `early` are history variables for the properties |
| `SegmentIndex` | `recording.Index` | `index` is the list in memory, `log` what a `Load` would yield, `torn` a partial last line |
| `SegmentWriter` | `recording.Writer` | one action per critical section of `Writer.mu`; every file operation may fail, within `MaxFaults`. A frame has size 1, a failing write may have counted 1 before it and leave 1 on the disk that no one counts (`stray`) |
| `Recording` | writer, index, retention and the process | `Unlink` and `Unindex` are two steps; `Shutdown`, `Crash`, `Boot` |
| `RtspMounts` | `rtsp.Server` | sessions from SETUP to close in any order gortsplib can call them, with repeated PLAYs; one action per critical section of `Server.mu`; each reader goroutine has its own `pc` and context, and is `deaf` if its select found no channel; the source of the sub mount comes late or never |
| `RestartableCamera` | `camera.RestartableCamera` | the holder of the mutex between its calls is `op`; one pump per source; `closes` is the kind of backend |
| `CameraProcess` | `RPiCamVidCamera` and `RPiCamera` | `kind` is the subprocess: mtxrpicam, rpicam-vid encoding H.264, rpicam-vid sending raw frames; `run` is the place in the goroutine `run()`, `stop` the place in `Stop`, `setter` that in `SetParam`; `params` counts settings, `procParams` and `loopParams` are what the subprocess and the reader know of them |
| `RtmpPush` | `rtmp.Push`: run, connectAndPush, pushLoop, processAU, Stop | `phase` is the place in `run`, `socket` what TCP knows of the peer, who may answer, refuse, fall silent or vanish; `sent` is a history of the messages of this connection; one action per blocking call |
| `RtmpWire` | chunks, messages and the search in a command's answer (`push.go`, `amf.go`) and the AVC bodies (`flv.go`) | operators on sequences of bytes; chunk sizes and the extended time stamp are scaled down |
| `HlsServer` | `hls.Server` | each unit and each request is one critical section of the mutex; `listed` and `got` are a client that fetches what an older playlist named |
| `MpegTs` | `muxts.go`: PTS bytes, packets | operators |
| `AnnexB` | `h264/parser.go` | start codes, units and access units of a stream cut anywhere, as folds |
| `ImagePlanes` | `yuv_transform.go`, `downscale.go`, the strided copy of `v4l2` | planes as functions of coordinates: tiles, in-place flips, byte-range downscaling |
| `Formats` | the round trips | a state is one input, before and after its conversion |
| `M2MEncoder` | `v4l2/encode.go` | the driver's queues `owned`, `drained`, `free`, `coded`; each ioctl is an action that may fail; the driver codes on its own |
| `Substream` | `V4L2Source`'s pump, `SubstreamPipeline`, `ffmpegEncoder` | the pump, the Run goroutine, the process and its reader each have their place |
| `ParamSets` | the camera pump of `main` on the channels of `RestartableCamera` | a unit is the session that coded it, and whether it is an IDR and brings sets |
| `Outputs` | the composition of the above | one configuration per group of parts that act on each other; the hub of RTMP and HLS is the same write |
| `WebSessions` | `SessionStore` | memory and file; every operation with its write is one step, which may fail |
| `LoginLimiter` | `loginRateLimiter` | `allow`, `recordFailure`, `recordSuccess`, between which attempts overlap |
| `WebConfig` | the requests that write `config.yaml`, `selfRestart` and the start of the process | a request is its kind, its place, its change and the copy of the file it read; one key stands for each way a setting takes effect |
| `Models` | registry, uploads, deletions, activations | `entries`, `manifest` and `modelFiles` are memory, `uploaded.json` and the directory; a write of `uploaded.json` empties it first, and may fail or be killed on the way (`torn`); `opened` the sessions of inference |
| `Detection` | decoder, `YUVSource`, service loop, alarm bridge | the process, its two goroutines and the loops each have their place; readers that a run left behind are counted (`strays`); a frame is whether it shows a target |
| `Services` | the composition of the last five | each part is explored by itself; web configuration and sessions together |
| `AUHubProofs`, `MseStreamProofs`, `RecordingProofs`, `RtspMountsProofs`, `RestartableCameraProofs`, `CameraProcessProofs`, `OutputsProofs`, `ServicesProofs` | theorems | see section 5 |

`Recording` EXTENDS `SegmentWriter` EXTENDS `SegmentIndex`; `MseStream` EXTENDS
`LossyChannel`; `AUHubChannels` instantiates `LossyChannel` once per handle.
`Outputs` EXTENDS `RtmpPush`, `HlsServer`, `M2MEncoder`, `Substream`, `ParamSets` and
`Formats`, which EXTENDS `RtmpWire`, `MpegTs`, `AnnexB` and `ImagePlanes`. `Services`
EXTENDS `WebConfig` (and with it `WebSessions`), `LoginLimiter`, `Models` and
`Detection`. The operators whose comment says *Mutant of* are plausible bugs in
the operator after them; no specification uses them, and with any of them in
place the run named in `PROJECT.json` fails.

Modelled from how the code uses it, not from source: gortsplib (it calls SETUP
before PLAY, passes on a PLAY of a session that already plays, closes a session whose stream or server was closed, and calls
`OnSessionClose` once for a session it let set up); `os/exec` (a command whose context
is done does not start, a started one is killed with its context) and `os` (closing a
pipe wakes its reader, but not if the pipe is in blocking mode, like those that
`syscall.Pipe` makes for mtxrpicam); `net/http` (a goroutine per request); the V4L2
memory-to-memory driver (a buffer that was queued stays with it until it is
dequeued or the stream is switched off); systemd (a process that ends is started
again).

## 3. Runs

| run | configuration | question and answer | states |
|---|---|---|---|
| `Hub` | `MC_AUHub.cfg` | 2 subscriptions, 4 units, channels of 2. No send on a closed channel, every unit accounted for, order kept, closed only by its user, a cancelled subscriber is closed, and the hub implements `LossyChannel` for each handle | 69 k |
| `Mse` | `MseStream.cfg` | channel of 4, 2 losses. What the handler skips is always followed by a keyframe; what the hub lost is too, unless the loss was acknowledged early; a stalled stream resumes | 252 k |
| `Recording` | `Recording.cfg` | 3 frames, a queue of 2, 3 instants, one fault, one stop or crash, 2 pause commands, limits of 1. No frame waits without a wake-up, segments do not overlap, index and files agree, the limit holds but for what failing writes left, keyframes outlast delta frames, retention ends | 1.65 M |
| `Rtsp` | `RtspMounts.cfg` | 3 sessions on 2 mounts, 2 readers, PLAY again below a count of 2. One live reader; a reader whenever somebody plays (on mounts where no session was closed before its PLAY) and for nobody (where none played twice); Stop ends, unless a client keeps a reader without a source | 1.62 M |
| `Restart` | `RestartableCamera.cfg` | 3 sources of either kind, source channels of 2, stable channel of 1. One user of the device, the running source is pumped, stopped stays stopped, replaced pumps end | 54 k |
| `Camera` | `CameraProcess.cfg` | 3 faults, 2 settings. The device is free after Stop, mtxrpicam has the params set last, a dead subprocess is replaced, `run()` ends | 11 k |
| `Outputs` | `Outputs.cfg` | RTMP connections that begin with a header and a Stop that ends; playable HLS; an encoder that recovers; one encoder session in the substream; sets of their session; every round trip of the formats; frames turned, flipped and scaled | 318 k |
| `Services` | `Services.cfg` | saved settings are running, in the announced geometry; sessions as promised; lockouts earned; detector sessions released and registry sound; no process, subscription or writer of the decoder left behind, and no reader unless feeding ffmpeg failed; edges that reach the bridge while no event is dropped or taken by the web server | 4.08 M |
| `RtmpChunks` | `RtmpChunks.cfg` | *violated*: a peer that follows the announced chunk size can read the messages | |
| `RtmpReconnect` | `RtmpReconnect.cfg` | *violated*: a push whose peer is gone leads to another attempt | |
| `HlsTimestamps` | `HlsTimestamps.cfg` | *violated*: a time stamp is what the PES header gives back | |
| `WebBoot` | `WebBoot.cfg` | *violated*: what requests leave in the file can be loaded by the next start | |

The modules of the first six runs state a type invariant (`TypeOK`), of which three
are proved; in the others the types a proof needs are a part of its inductive
invariant (section 5). No run spends time on them. Related questions share a run, so that each run stays one
scenario of one part of the process with all the properties it can decide.

The bounds, and why they are enough for the cases that matter:

- *Hub*: an eviction, a collision or a race between two users of `Unsubscribe`
  needs two handles and one of each caller; overflow with a later delivery needs
  two units more than the capacity. The properties themselves are proved for
  every bound (section 5).
- *Mse*: the fast-forward loop starts at more than two queued units and stops in
  the middle when it meets a keyframe, which takes a capacity of 4; a second loss
  makes the counter move while a realignment is pending.
- *Recording*: a roll needs two keyframes a second apart; `MakeRoom` with a mixed
  queue and a queue of keyframes only are both reached with a queue of 2 and 3
  frames; one fault at every system call in turn; one crash, with or without a
  torn line, then a boot and an append after it; `RetentionAge` of 1 and
  `MaxStorage` of 1 make both loops of `Enforce` delete.
- *Rtsp*: two sessions make the count return to 0 and to 1 again, a third keeps
  playing on the other mount or joins between; a second reader is the other mount's
  or a successor that starts while a cancelled one still processes. A count of 2
  (`MaxPlays`) is one player counted twice, which its close does not undo.
- *Restart*: three sources allow a failed restart followed by a successful one
  with both old pumps alive; capacity 1 makes the stable channel full.
- *Camera*: three faults are a death, the timeout armed in the same life, whose
  callback may come as late as in the next, and a spawn that fails; two settings
  are one made before a restart and one after it.
- *Outputs, RTMP*: three attempts show the pause growing to its limit (`MaxBackoff`
  of 1) and staying there; 4 units are sets alone, a keyframe, a delta frame and
  one dropped by a queue of 2, on two connections.
- *Outputs, HLS*: 9 units are more segments of 2 frames than a window of 2 keeps,
  with units skipped while a keyframe is awaited.
- *Outputs, encoder*: two buffers wrap around after two frames; five faults are two
  calls that fail twice, and a reset that fails.
- *Outputs, substream*: a budget of 2 errors is reached and missed; 7 frames are
  two periods of decimation and one more (3 offered, 2 kept); channels of 2 fill.
- *Outputs, sets*: three sessions and two sources leave an old pump with a unit in
  hand and one queued beside the new source.
- *Outputs, formats*: messages up to 10 bytes with a chunk of 3 or 8 and a time field
  that overflows at 5 have an exact multiple, one more and one less, with and
  without the extended time stamp; packets of 4 bytes of payload are left with
  every remainder; frames up to 5 by 5 with tiles of 2 have full and partial
  tiles, odd sides and a middle row; streams of two units are cut in up to two places.
- *Services, web*: two requests at a time overlap in every order, a third begins
  after; one fault, one restart of the process. Settings are grouped
  (`KindSets`) because only requests for the same file and the sessions meet.
- *Services, limiter*: 2 attempts, a window of 1 and a lock of 3 within 6 ticks let
  a window begin again, a lock end, and late failures come in between.
- *Services, models*: two clients, two ids to upload beside the built-in one, so that a
  write cut short for one id takes the other's entry along; four requests, one fault, one kill.
- *Services, detection*: three frames are two rising edges; channels of 1 and 2 fill;
  ffmpeg starts twice, so that a reader left behind lives beside its successor.

Deadlock is not checked: each model stops when its bounded inputs are used up,
and the processes do stop (a client leaves, the camera is switched off).
`EnforceTerminates`, `StopCompletes`, `ReplacedPumpEnds`, `StreamResumes`,
`SubprocessRestarted`, `StopEndsRun`, `StopEndsUnlessDialing` and
`CancelledSubscribersClosed` say what must happen nevertheless.

### Fairness

- goroutines the modelled code starts itself are scheduled: weak fairness of the
  hub's watchers, the MSE handler, the retention steps, RTSP readers, and the
  steps of the mutex holder in the restartable camera;
- `Camera(Key)` in `MseStream`: the encoder emits an IDR every
  `camera.idr_period` frames, whatever the consumers do;
- `PumpSends` strongly fair in `RestartableCamera`: goroutines blocked on one
  channel are served in turn by the Go runtime;
- gortsplib closes a session whose stream or server is gone;
- in `CameraProcess` the goroutines, the waits with a time limit and the kill of
  `os/exec` are weakly fair; `ReadFails` is strongly fair because what an ended process
  left in buffers is finite. The subprocess owes no frame: `ReadFrame` is not fair;
- in `RtmpPush` the goroutine and `Stop` are weakly fair, a dial has a time limit, and a
  read or write fails once the connection is closed or the peer gone; answers of a
  peer that is there are not fair;
- clients, users, the platform, the clock, faults and crashes owe nothing.

## 4. Where the code departs from what it says

Each of the four *violated* runs refutes one sentence of the source, which
`PROJECT.json` quotes with its line:

1. `AnnouncedChunksRead` (`rtmp/push.go:214`): chunks of 4096 bytes are announced, and
   messages are still cut after 128.
2. `AutoReconnects` (`rtmp/push.go:408`): a failing write is logged and forgotten, so
   that a push whose peer is gone never comes to another attempt.
3. `PtsRoundTrips` (`hls/muxts.go:251`): a byte of the time stamp is taken one bit too
   high; a player reads another time from bit 15 on.
4. `FileLoads` (`web/handlers.go:419`): a flip posted as a number is saved as one, and the
   next start cannot decode the file.

Described by a property that allows for it:

- `rtsp/server.go:288`: a session closed between SETUP and PLAY is subtracted from a
  count it was never added to; the next player has no reader. `ReadWhilePlayed`
  shows that this is the only way to it.
- `rtsp/server.go:345`: a session that sends PLAY twice is counted twice and subtracted once;
  the reader goes on when nobody plays any more. `ReadWhilePlayed` shows that a reader goes
  on for nobody in no other way, on mounts without the drift above.
- `rtsp/server.go:192`: without a substream, the default, `/sub` has no frame source. A PLAY on
  it that comes after `Stop` cancelled the readers starts one on a nil channel, and `wg.Wait`
  then waits for that client; `shutdownStep` gives up on `Stop` after 5 s (`main.go:1056`).
  `StopCompletes` shows that `Stop` ends otherwise.
- `web/stream_mse.go:90`: the tracker compares a counter that runs ahead of the queue,
  so that a keyframe queued before the hole acknowledges the loss. `HolesRealigned`
  shows that this is the only way to it.
- `recording/retention.go:73`: the file open at a crash is in no index, never counted
  nor pruned; and `writer.go:226-236` counts a NALU after both its writes, so that a failing
  or short write leaves bytes that no record counts. `IndexedStorageBounded` shows what
  does hold: the indexed files exceed the limit by no more than those bytes.
- `camera/restartable.go:65`: `Stop` closes the stable channel without waiting for the
  pumps; one with a frame in hand may panic (`panicked` in `RestartableCamera`).
- `rtmp/push.go:131`: a dial that is under way sets `p.conn` after `Stop` looked for a
  connection to close, and `Stop` then waits for the peer; `StopEndsUnlessDialing`
  shows that this is the only way to it.
- `rtmp/push.go:326`: nothing in the push client notices that its full channel dropped a unit,
  as the MSE stream does: delta frames go on after a lost keyframe or reference, a keyframe is
  sent without a header while no parameter sets are known, and sets too short for a header
  count as sent. So the peer cannot always decode what it gets; `RunsBeginWithHeader` shows
  that nothing else is missing between a header and the delta frames after it.
- `web/handlers.go:340` with `camera/camera.go:497-522`: when the pipe to mtxrpicam breaks, the
  camera has stored the flip and `Set` fails. The answer is 400 and `config.yaml` keeps the old
  value; the same flip sent again is taken for unchanged (`handlers.go:334`), answered with 200 and
  never saved. `SavedIsRunning` excuses the setting, with those that overlapping requests, failed
  writes and PUTs of several sections lose.
- `ai/registry.go:171`: `uploaded.json` is emptied before it is written. A write that fails or is
  killed in between leaves a file that does not parse, from which the next start loads no upload at
  all (`registry.go:74`); the configured model is not found, and detection stays off. The uploads
  are back in no later start, though their files are still there. `RegistrySound` shows that, with
  requests about one id that overlap and a choice that was not saved, this is the only way to it.
- `ai/decoder.go:150`: a run whose writer failed, as when ffmpeg died, returns without waiting for
  its reader. That one may go on beside the next process, and if the context ends meanwhile, send
  on the channel that `Start` closes (`decoder.go:76`), which panics. `DecoderLeavesNothing` shows
  that there is no other way to either, and that nothing else is left behind.
- `cmd/server/main.go:610` and `web/web.go:164`: the alarm bridge and the web server take events from
  the same channel, so that each sees only some of them. `EdgesReachBridge` speaks of what happens
  until the first event is dropped or taken by the web server: with that server on, of little;
  after that, edges are missed, or seen where there were none.

Seen while modelling, each at the place it is modelled or beside it:

- *camera*: a read loop about to deliver when `Stop` closes `framesCh` panics
  (`rpicamvid.go:669`, `camera.go:407`); the read timeout of `camera.go:574` does not wake
  the read it is meant to end; a width or height set at run time reaches the reader and
  never the encoder (`rpicamvid.go:537`); a v4l2 source leaves its channel open on `Stop`,
  so each restart leaves a pump (`v4l2_source.go:310`, against `camera.go:52-53`), and its
  `Start` without a usable encoder returns with the device open (`v4l2_source.go:266`);
  after a restart the old pump forwards what it has beside the new one, and a late IDR
  gets the new sets.
- *substream and encoder*: the substream's channel says drop-oldest and drops the newest;
  the main ffmpeg encoder is never replaced, and while it hangs so do `Encode` and `Stop`;
  `ffmpegEncoder.Close` kills its process and never waits for it (`v4l2_source.go:515`);
  an encoder whose call failed twice returns the previous picture afterwards;
  `capture.go:103` promises a frame that is valid until the next call, and gives its
  buffer back to the driver before it returns.
- *RTSP*: a player of `/sub` that comes before `SetSubFrameSource` (`main.go:658`) has a reader that
  waits on a nil channel until the count is 0 again (`deaf`).
- *hub, recording*: IDs collide from the 55296th subscription on (`hub.go:108`); segments
  opened in the same second share a file (`writer.go:266`); a segment may begin with a delta
  frame (`writer.go:207`).
- *H.264*: SEI between the sets and the IDR becomes an access unit of its own.
- *RTMP*: the peer's chunk size is ignored (`push.go:917`); reading the answer to a command
  has no time limit and passes over `_error`; chunks of type 3 carry no
  extended time stamp; interleaved chunk streams lose their state from one `readMessage`
  to the next (`push.go:779`); the retry counter is not reset by success (`push.go:162`).
- *HLS*: the PES flags are written as 0 (`muxts.go:238`, against `:235`); short packets are
  padded with zeros behind the payload.
- *planes*: the rotation rounds chroma up and the downscaling rounds it down, so the two
  disagree about frames with an odd side.
- *web*: a PUT with camera settings and others applies only the camera's, in place
  (`handlers.go:187`); a failed save leaves flips set in memory; two requests that read,
  merge and write the file lose one of the updates; the first setup and a reset drop
  the other keys of `web` (`web.go:400`); a GB28181 mirror command sets flips in memory only.
- *AI*: detections of the previous model may be stored under the name of the new one
  (`service.go:249`); the session opened to validate
  an upload is never closed; frames of a `YUVSource` are never closed, only dropped.

## 5. Proofs

`tlapm` checks every step of the eight modules with Z3, Zenon and LS4. Each theorem
holds for every value of the constants under the `ASSUME`s of the module it is
about, which say of sizes that they are positive and of bounds that they are
natural numbers.

**`AUHubProofs`**, for any number of subscriptions and units, any capacity and any
set of counters without an ID. From `BoundsAssumption`, `CapacityAssumption`:

- `TypeCorrect`: `TypeOK`;
- `Inductive`: the inductive invariant `IInv`. `RegisteredChannelsOpen` is not
  inductive alone: that a handle leaves the map when its channel is closed needs
  `EntriesAreTheirOwn` (a handle sits under its own ID, hence under one only), and
  that a new handle starts clean needs `OnlySubscribedUsed`. `DeliveredInOrder`
  needs `NumbersInOrder` (nothing queued is newer than the last unit written);
- `NeverSendsOnClosed`, `LossesAreCounted`, `OrderKept` follow from it;
- `OnlyItsUserCloses` needs in addition that every counter has an ID of its own
  (`Unencodable \cap Handles = {}`): with the real encoding, the first 55295
  subscriptions. The three others hold through collisions too;
- `HubIsLossyChannels` (`ChannelsImplemented`), under the same assumption: each step of the hub is
  a step of `LossyChannel`, or leaves it alone, for every handle (`HubStep`). It needs, beside
  `IInv`, that a subscription whose channel is open is in the map (`OpenAreRegistered`):
  one that another pushed out would see units pass that nobody counts as lost.

**`RestartableCameraProofs`**, for any number of sources and any channel capacity,
from `CameraAssumption`: `TypeCorrect`, `DeviceHasOneUser`, `RunningIsPumped`,
`StopIsFinal`. The inductive invariant adds two parts to the types. `MutexHeld`: while a
`Restart` builds or starts the fresh source the old one is stopped, and after
`Stop` the current one is. `OnlyCurrentRuns`: a running source is the current one,
and has a pump that forwards unless the process is ending. `DeviceExclusive` alone
is not inductive: that `StartFresh` starts the only running source is known from
the step in which `Restart` stopped the old one.

**`RtspMountsProofs`**, for any mounts that include that of the substream (`MountsAssumption`),
any number of sessions and readers, and any bound of repeated PLAYs: `OneReader`, which is `OneLiveReader`. The invariant ties three
things: `mount.cancel` reaches exactly the reader that goes on, a mount whose count
is not positive has none, and there is at most one. The second part is what makes
`OnPlay` safe, since it starts a reader when the count comes from 0, and it survives
a count that has drifted below 0 (section 4). `MountsServed` (`ReadWhilePlayed`) adds
`AllCounted`: while the process is up, the count of a mount where nobody was aborted is at
least the number of its players, and just that where nobody played twice; a positive count
has a live reader, since no source is closed yet.

**`CameraProcessProofs`**, for any number of faults and settings, from
`CameraProcessAssumption`: `TypeCorrect`, `DeviceReleased` (`StoppedHoldsNoDevice`),
`ParamsReach` (`ParamsReachSubprocess`). The first needs `StopCancels`: the context is
cancelled in the critical section that sets the flag, so that no spawn can follow the
cleanup, and mtxrpicam is not getting ready then, since that holds the mutex. The second
needs `ToldOrAboutTo`: a live process has the saved params unless the write under way is
to its own pipe; a write to a former pipe needs no successor, which was spawned after
the save.

**`MseStreamProofs`**, for any capacity and any number of losses, from
`CapacityAssumption`, `MaxLostAssumption` and `UnitsAssumption`: `Realigned`, which is
`HolesRealigned`. The property speaks of what was sent; the invariant `MseInv` says what
the handler must remember until then. `SkipsRemembered`: if units were skipped since the
last one sent, the handler waits for a keyframe or holds one. `HolesRemembered`: if the
viewer is owed a keyframe after a hole, then the handler waits for it, or has yet to see
that the counter moved, or acknowledged the loss early.

**`RecordingProofs`**, from the three assumptions of the recording's modules:

- `WakeupsKept` (`NoLostWakeup`), for any queue, any number of frames, pauses, faults
  and restarts. Beside the property only the queue of a stopped process is needed;
- `NoOverlap` (`SegmentsDoNotOverlap`). The property compares segments of the index,
  and is threatened by a frame that is still queued. `TimeInv` therefore follows the
  instants along the whole way: `Timeline` orders the records, on disk and in memory, and
  puts them before the open segment; `Pipeline` orders the queue and puts it after what
  is written; `Shapes` holds the types this needs. `Crash` and `Boot` keep it since the
  records a Load yields are ordered like those in memory;
- `FilesIndexed` (`IndexMatchesFiles`). The property is silent while the process is down, about a
  file whose name is in use again, and about the segment still open. `RecordsInv` fills these gaps:
  `NamesInv` says that every name the index, its file or a deletion under way knows was once
  opened, and that an open segment with such a name was opened under it again; `MatchInv` what
  the open segment owes, and that a file which survives the removal of its record is an orphan.
  Most steps are instances of one, `WriterStep` (the open segment goes on, gets its record or
  is left to the orphans), so that the invariant is shown to be kept once for all of them;
- `StorageBounded` (`IndexedStorageBounded`), from `SizeInv` in the same invariant: a record
  and what failing writes left in its file (`stray`) are at least what the file holds. The files that count each have a record of their own,
  and a sum over them is at most that over the records (`SumsCompared`). The sums are recursive
  functions that take an element by CHOOSE; that there are such functions (`SumExists`) and
  that the order does not matter (`AnyOne`) is shown on a smallest counterexample, which takes
  `WFMin` of the library and no induction theorem;
- `KeyframesKept` (`KeyframesOutlastDeltas`): the places of the keyframes are mapped one to one
  from the queue to what `MakeRoom` leaves of it.

**`OutputsProofs`**:

- `HeaderSentFirst` (`RunsBeginWithHeader`), for any capacity, number of retries and units. A header
  is never the last message but between the two writes of `processAU` (`PushState`),
  and the flag `seqHeaderSent` is true only if *this* connection is in a run that began with
  a header (`FlagOfThisConnection`), which the reset in `connectAndPush` keeps. It is about
  the order of what is sent (section 4);
- `OneEncoder` (`OneEncoderSession`), for any capacities, decimation and failover budget.
  `PlacesOfRun` says which encoder is open at each place of `Run`, and what the end
  of the context leaves it to do;
- `OutputsSound`: both, for the composition `Spec` of `Outputs`. Each step of it is a step
  of one part, in which the others stutter;
- `HlsPlayable` (`FetchedSegmentsPlayable`), for any `FramesPerSegment`, window and capacity. A client
  may keep a segment long after the window has let go of it, so that `HlsInv` speaks of all segments
  that are known, in the window or with the client: each is whole and older than what the channel
  still holds (`CutSound`), and any two are in order (`CutsInOrder`);
- `EncoderKeepsUp` (`EncoderRecovers`), for any number of buffers, calls and failures. The frames in
  the driver's two queues are none, one, or two with the older one first: `AtMostOneBehind` says
  which at each place of a call, and `SecondAttemptAlone` that after a reset the frame in hand is
  the only one;
- `SetsKept` (`SetsOfTheirSession`), for any number of sessions, sources and units. Wherever a unit
  is on its way (an encoder, a channel, a goroutine's hand, the stable channel), the sets of its
  session are before it, or are no longer due (`Settled`); `StableCovered`, `HandsCovered`,
  `ChannelsCovered` and `NewestCovered` say so of each place;
- `FramesPlaced` (`FramesTransformed`), for frames of any sides, tiles of any size and any box. The stores of
  the transposing tiles are those of the whole plane (`StoresOfTiles`, `TilesCover`), one for each place of the
  target (`PlaneTransposed`). Flipping is a loop over the rows, in the model a fold: that the fold
  is such a sequence of rounds, and what the rounds have turned after each (`RoundsExist`,
  `RoundsTurn`, `RowTurned`), is shown on a smallest counterexample, as the sums of the recorder are.
  The offsets rest on `InPlane` and `RowAndColumn`, shrinking on `AxisWithin` and `AxisShort`, and
  padding on blocks of rows that stay `Apart` when they are joined;
- `ReadBack` (`FormatsReadBack`), for messages and data of any length, chunks and packets of any size, any
  time field and any number of cuts. An input is converted in one step, so the invariant `ReadInv`
  only adds that it is one of those enumerated; the work is in what the conversions compute. They are
  folds over a stream, recursive functions and `FlattenSeq`, about which no induction theorem can be cited.
  So each is first turned into a sequence of states: that a fold is its steps one after another
  (`ReadExists`, `FoldReads`, once for all readers, which `ReaderStep` enumerates), and a flattening its
  parts (`FlattenSteps`, `FlatParts`), is shown on a smallest counterexample; `UpTo` carries a fact along
  the states. On top of that, `ChunkRead` and `ChunksOf` follow `readMessage` from chunk to chunk of any
  message (`MessageReadBack`), `SkipBack` shows that no value ends before it begins, whatever tokens
  follow (`AnswersFound`), and `PictureRead` goes from picture to picture. For the pipe, a stream of two
  units has exactly two start codes (`StreamOfTwo`) wherever the encoder writes no start code inside a unit
  and no zero at its end (`Clean`); `SoFar` says what `readLoop` has returned and kept after any number
  of bytes, and `PieceStep` that one more read of any length keeps it so. The theorem speaks of the inputs
  `Subjects` names: of the parameter sets, units and AMF objects listed there, and of up to four pictures. Its lemmas
  (`HeaderReadBack`, `UnitsReadBack`, `PipeReadBack`, `PicturesRead`) hold for all sets of at least four
  bytes, all sequences of numbers, all clean units and any number of pictures.

**`ServicesProofs`**:

- `NothingLeft` (`DecoderLeavesNothing`): `DecoderHolds` says what each place of the decoder's
  loop holds, so that the place after the wait holds nothing, or a reader that the failed
  writer's run did not wait for, which is counted from then on;
- `SessionsKept` (`SessionsAsPromised`): memory and file agree unless a write failed, and
  during a reset the credentials and the sessions change in an order that a restart
  may cut anywhere;
- `GeometryKept` (`GeometryAnnounced`): a request that turned the file is on its way to a restart
  of the process from the moment it holds such a change, not only once the file is
  written; overlapping requests write back older copies, so `GeometryInv` covers every
  copy in a handler's hand;
- `ConfigKept` (`SavedIsRunning`): the property speaks of moments when nothing is in flight;
  `SavedInv` says what a request in flight still owes to each setting (`Owed`), that no two
  change one setting at a time unless it is excused (`OneEach`), and that every copy that may be
  written back loads if the file does (`FileSound`). A flip that fails after the camera stored it
  owes nothing and is excused from then on;
- `SessionsReleased`: the sessions in the service's slot and in the hands of requests are open
  and all different, and every open one is among them;
- `ModelsKept` (`ModelsSound`) adds the registry: requests about one id overlap only if the id is
  counted as raced (`Overlaps`), so that what a request found out in an earlier step still
  holds (`Knows`); a step about another id leaves what `uploaded.json` lists of this one as it was,
  makes it what the memory has, or cuts it short (`Listed`); the saved model is the active one except between swap and save (`LastChosen`);
- `EdgesCounted` (`EdgesReachBridge`), as long as no event was dropped or taken by the web server:
  the property is inductive with the types of what is on its way. The work is in the counting: what an
  event added at one end and one taken at the other do to the number of rising edges (`RisesWithLast`, `RisesWithoutFirst`);
- `LockoutsAreEarned` (`LockoutsEarned`), for any limits with `LoginBlock >= LoginWindow`, any number
  of attempts, in any overlap: the count of an entry is at most the number of failures
  since its window began (`CountIsEarned`), and a lock began with enough of them
  (`BlockIsEarned`). The proof needs that a union of one element grows a set by one;
- `ServicesSound`: the seven together, for the composition `Spec` of `Services`.

Every invariant that a passing run checks is proved. Only model-checked: the liveness properties
(out of reach of the prover, as is ENABLED), which are `CancelledSubscribersClosed`, `StreamResumes`,
`EnforceTerminates`, `StopCompletes`, `ReplacedPumpEnds`, `SubprocessRestarted`, `StopEndsRun` and
`StopEndsUnlessDialing`.

## 6. Not modelled, and the plan

- *Recording playback* (`recording/reader.go`): a reader of one finished file, without
  state shared with anything.
- *Time stamps of RTP and MSE*: products of durations and clock rates; the hazard of their
  overflow is listed, and needs 64-bit numbers that TLC does not have.
- *V4L2 capture, probing and ioctl numbers; the I2C bus of the thermal sensor*: hardware
  I/O. *Calibration and rendering* are numeric code.
- *Thermal service, ONVIF, status pages and the SSE fan-out* (`web/observe.go`): loops that poll or
  adapt a library. Not modelled yet.
- *fMP4 boxes, PAT and PMT, XML and MANSCDP messages*: layout.
- *Inference with its pre- and postprocessing*: numeric code around a library.
- *GB28181 device and GB35114*: a library, and its selection by build tag.
- *Defaults and most rules of validation* in `config.go`: a table; what requests may write
  that Load refuses is modelled.
- *Metrics, tracing, network helpers*: wrappers.

What would come next: the fan-out of `web/observe.go` as another implementation of
`LossyChannel`; the thermal service loop with its re-probing; the snapshot cache of
ONVIF; paging of segments as a function checked against a reference definition. To
prove: the pipe for streams of more than two units, which the runs do not explore either.
