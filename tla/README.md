# Cherum: a verification project

Cherum lets operators in a browser send emergency commands (land, loiter,
return to launch) to a drone, and shows them where it is.  This directory holds
TLA+ models of its server, its on-board clients and its page in the browser,
down to the neural network that page runs on the GPU; TLC configurations that
check them on small instances; and TLAPS proofs for instances of every size.

    tlc -workers 2 -config MCCommandLink.cfg MCCommandLink
    tlapm CommandLinkProofs.tla

## 1. The system

```
 browser            server (Flask, SQLite, InfluxDB)         drone's computer
 app.js --POST /command--> table commands
                           GET /fetch   <------------------- poller.py
                           POST /done/<id> <----------------     | comms.pipe (FIFO)
                                                                 v
                                                             controller.py --> MAVSDK
                                                                 | tele.pipe (FIFO)
                                                                 v
 app.js <--GET /last/*---- TelemetryStore <-POST /telemetry- telemetry.py
```

| component | state | operations | how it interacts |
|---|---|---|---|
| command store (`__init__.py`, `jwt.py`, `db.py`, `schema.sql`) | tables `commands`, `pings` | `POST /command`, `GET /fetch`, `POST /done/<id>`, `flask db:create` | HTTP from browsers and the poller; each route commits once |
| poller (`poller.py`) | `res`, its place in the loop | poll, write one byte, mark done | HTTP to the server, byte to the FIFO |
| controller, command side (`controller.py`) | place in `read_pipe`, `command_queue`, the awaited action | open, read, blocking read, close, sleep; take a command, await the drone | FIFO, one asyncio event loop for all tasks |
| telemetry store (`telemetry_store.py` and the telemetry routes) | `buffer`, `last_flush`, shared by all WSGI threads | `store_*`, `_check_flush`, `flush`, `last_*`, `close` at the end of every request | asynchronous writes to InfluxDB |
| telemetry pipe (`controller.py` monitors, `queue_parser`, `pub_telemetry`; `telemetry.py`) | two queues, the FIFO, the reader's buffer | publish up to 100 messages, read up to 100 lines | FIFO, HTTP |
| dashboard (`app.js`, `index.html`) | last data, error banner, marker, map, trajectory, connection indicator, highlighted buttons | two timers that fetch, clicks that post, `clearTrajectory`, `centerOnDrone`, `destroy` | HTTP; requests overlap |
| video (`video.js`) | state of the peer connection, the frame under way, offscreen picture, frame rate | negotiate, `processFrame` from animation frame to animation frame | WebRTC; awaits `net.js` |
| network (`net.js`, generated by tinygrad) | 57 buffers on the GPU that outlive a call, 298 of weights, two staging buffers | 225 compute passes per picture: detector, decoding of anchors, sorting, choice of boxes | WebGPU |

What is hard here is mostly not computation but order: two processes that meet in a
FIFO, one of which opens it blocking and the other of which reads it first
without and then with blocking; a poller that any unexpected answer ends; rows
ordered by a timestamp of whole seconds; ids that `db:create` reuses; a buffer
that the threads of the WSGI server share without a lock; asynchronous writes
whose results nobody sees; answers that reach the page in another order than
they were asked for; an asynchronous frame loop on buffers that must not be
asked for twice; and hundreds of generated passes that reuse each other's
buffers.  `PROJECT.json` lists these hazards line by line
with the properties that would notice them going wrong.

Correctness, component by component:

* **store**: there is one command to offer, and what was replaced does not
  come back;
* **link**: a command is handed over once, marked only when handed over, and
  performed in the operators' order; neither process is stuck in the FIFO, and
  the network cannot freeze the controller;
* **telemetry store**: points are written or kept, nothing waits for a request
  that may not come, and newer data is not replaced by older;
* **dashboard**: marker, line, indicator and buttons agree with each other at
  any time, and with the server in the end;
* **video**: one frame at a time, boxes where things are, and no end of the
  loop while nothing throws;
* **network**: each pass finds in its buffers what it is meant to read, of the
  same picture; boxes belong to their cells; what is not drawn was passed over
  for something better.

## 2. Modules

| module | content |
|---|---|
| `CommandStore` | the tables, the three routes, the token check, `db:create`, the clock; any caller |
| `CommandLink` | extends `CommandStore` by the poller, the FIFO, the controller's command tasks, the drone |
| `CommandRegister` | abstract: what the drone may perform, given what operators issued |
| `TelemetryStore` | the shared buffer under several threads, InfluxDB and its client |
| `TelemetryPipe` | the controller's telemetry tasks, `tele.pipe`, `telemetry.py` |
| `LinkCrash` | extends `CommandLink` by kills of both processes and by requests that outlive their poller |
| `Dashboard` | class `DroneControl`, composed with `CommandStore` |
| `Video` | `video.js`, with the asynchronous side of the function `net.js` gives it |
| `Tensors` | what a buffer holds, without its numbers |
| `NetKernels` | the 111 kernels of `net.js`: operands, result, the elements stored |
| `NetCommands` | buffers and compute passes, from `setupNet` |
| `NetExec` | the execution of the passes, picture after picture |
| `YoloGraph`, `Yolo` | abstract: the detector as a graph, and its evaluation in any order |
| `Decode` | from distances and scores of an anchor to box and class |
| `SortNetwork`, `Choice` | threshold, sort, order, overlap test |
| `CommandStoreProofs`, `CommandLinkProofs` (with `LinkCrash`), `TelemetryStoreProofs`, `TelemetryPipeProofs`, `DecodeProofs`, `ChoiceProofs`, `DashboardProofs`, `VideoProofs` | theorems |
| `MC...` | instances for TLC |

Names follow the source.  Operators called `Mut...` are plausible slips; each
stands in for the definition it is paired with in `PROJECT.json` to show that
the property can fail.

### CommandStore

`commands` is the table as a sequence, so a row's id is its position:
`AUTOINCREMENT` counts from 1, and `DROP TABLE` makes it start again.  `Newest`
is `ORDER BY created_at DESC LIMIT 1`; `CURRENT_TIMESTAMP` has whole seconds,
so rows tie, and SQLite then returns the lowest id.  `pings` keeps the newest
ping, all that the views read of that table.  A header is reduced to what
`get_and_validate_token` looks at: its number of words, its signature, its
issuer.  `issued` is a history variable: every command ever accepted, also
those `db:create` dropped; `Serial(i)` is the place of row `i` in it.

A route is one step: it uses one connection and commits once.  (Between the
SELECT and the INSERT of `/fetch` another route may commit; since the INSERT
goes to the other table, the order does not matter.)

### CommandLink

`ppc` and `cpc` say where `poller.py` and `read_pipe` are; each system call on
`comms.pipe` is a step:

| poller.py | action | controller.py | action |
|---|---|---|---|
| `makepipe` (an `OSError` ends the process), start of the loop | `Launch` | tasks created | `Start` |
| `poll` answers / `ConnectionError` / no JSON | `PollReply` / `PollFallback` / `PollGarbled` | `os.open` | `ReadOpen` |
| `open(pipe,'w')` | `OpenPipe` | first `os.read` | `ReadNow` |
| buffered byte flushed by the `with` | `WritePipe` | blocking `os.read`, `put` | `ReadWait` |
| descriptor closed | `ClosePipe` | `os.close` / after the sleep | `ReadClose` / `ReadAgain` |
| `mark_done` answers / raises | `MarkReply` / `MarkFails` | `get` / action / `ActionError` / end | `TakeCommand` / `ActionDone` / `ActionRefused` / `ControllerExit` |

The FIFO follows Linux: `open` for writing counts as a writer already while it
blocks (a reader that comes gets EAGAIN, not end of file); a write without
readers is EPIPE, which ends the poller; the bytes vanish when the last
descriptor is closed.  The first read throws its byte away
(`controller.py:17`), an unhandled exception of any task ends the controller.
`TakeCommand` can run only while `read_pipe` sleeps, since there is one event
loop.  `ActionDone` may happen at any time: it is the drone's doing.

An HTTP request and its answer are one step.  The poller does nothing while it
waits, so whatever happens between the server's work and the answer can as
well happen after it.  A request that fails may or may not have been served
(`FetchRoute \/ UNCHANGED`).

History: `fetched`, `wrote`, `applied` are serial numbers of the command last
fetched, of the one whose byte this incarnation of the poller last put in the
FIFO, of the one last performed.  A command without a byte (the empty string, or
what `poller.py:42-47` does not know) leaves `wrote` alone.  A byte carries the serial number, whether it is an operator's, and whether a
reader was waiting when it came.

### CommandRegister

The promise of the whole link: `Apply` performs an issued command, not older
than the one before; `FallBack` performs the `--on_error` command; nothing
else ever happens to the drone.  Commands may be skipped (newer ones hide
older ones by design) and the last one repeated (a restarted poller).

### TelemetryStore

Each thread goes through `idle`, the request's work, `end`, the teardown's
flush, `end` again, `idle`.  `flush` has one step for each access to a shared
attribute: `FlushTest`, `FlushWrite` (or `WriteRaises`), `FlushClear`,
`FlushStamp`.  `Teardown` and `CloseClient` model
`app.teardown_appcontext(telemetry_store.close)`, which Flask runs at the end
of *every* request.  The class's coroutines never suspend, so a request is
interrupted only by other threads.  `/last/telemetry` is five queries, in
any order (the code's order is one of them).  `OtherRequest` is a request that
stores nothing: another route, or a telemetry message that is refused.

External, from how `src/` uses them: InfluxDB keeps one point for each
measurement and timestamp, the last that came, and stamps what comes without
one.  `Found` is what a query of `/last/telemetry` sees: the points from 24 hours ago
up to, but not including, now, for `range` without a `stop` ends at `now()`.  So
after the clock was set back a point may lie in the future and be hidden until
the clock has passed it.  The client serialises at once and sends from a thread, so batches land in any order or
are lost.  Server and InfluxDB read one clock.

### TelemetryPipe

Messages are numbers in the order in which the drone sent them; their type and
fields do not matter to the way they take.  A message goes through
`telemetry_queue` (`Report`) and `json_queue` (`queue_parser`); `pub_telemetry`
is `PubWake`, `PubOpen`, `PubWrite`, `PubNewline`, `PubClose`, with ENXIO when there
is no reader, EAGAIN when there is no room, EPIPE when the reader left.  It has
no await between waking up and finding its queue empty, so the other tasks run
only while `wpc = "sleep"`.  One write puts both parts of a message into the
FIFO (less than PIPE_BUF bytes), but `TeleFill`, one `read(2)` of Python's text
layer, may end between them.  `TeleLine` is `readline`, which also returns an
unfinished line at end of file; `TeleSend` is `send_msg` with the server's verdict
(200 for a line that is one message, 400 for any other) or a failure before or
after that; `TeleClose` is the end of the `with` after `LineLimit` lines, which drops
what is buffered.  As before, a waiting `open` already counts as an open end
(here: a reader), and bytes vanish with the last descriptor.  `gone` collects
what an error path or a close gives up.

### LinkCrash

`KillPoller` and `KillController` may happen in any state.  What the kernel
keeps is kept: bytes stay in the FIFO while the other end is open; a byte the
poller has not flushed dies with it.  A poller killed in `mark_done` may leave
its request behind in `late`; `LateDone` serves it at any later time, also after
other pollers, commands or a `db:create`.  The drone may or may not have
accepted the action a killed controller was waiting for.

### Dashboard

A request occupies a slot and is `free`, `sent` or `answered`; the server's work
(`last_connection`, `last_telemetry`, `sendCommand` with `CommandRoute`) and what
follows the await in the browser are separate steps, so answers grow old on
their way and overtake each other.  A fetch may be rejected (`...Fails`), before
or after the server has served it, and `/last/connection` may answer with a
page that is no date.  `UpdateTelemetry` is the whole of what follows the await:
merging, `updateTelemetryUI`, `updateMapPosition`, `clearError`;
`UpdateTelemetryLate` is the same after `destroy()`, when Leaflet throws and the
`catch` shows the banner.  `Click` keeps whether the pointer was on the button or
on its icon, for `e.target` is what was clicked.

A snapshot of telemetry has a position, a flight mode and one more part;
`battery` and `in_air` take the same way as `armed`.  `Near[p]` is the view around
`p`.  `Behind` is how far the browser's clock is behind the server's (negative when
it is ahead).  `updateConnectionStatus` (`app.js:98`) subtracts a server's time from a browser's,
so the page's window is `Window + Behind` of true time: a browser that is behind
calls a drone connected for longer than `Window`, one that is ahead for less.  The
properties say just this, `HeardWithin(Window + Behind)`; it is the window of the
code only when the clocks agree.  Time only
moves forward here, and there is no `db:create` while the page is open: both
would make "heard of lately" ambiguous.

### Video

`peer` is where `main()` is; an element of `Activations` is one call of
`processFrame`, with a step from await to await (`Ready`, `getDevice`, `load`,
`Submit`, `Draw`).  There are more activations than the code should ever need,
and `scheduled` counts the calls asked for, so that overlapping calls are
possible in the model and excluded only by the code.  A buffer is `unmapped`,
`pending` or `mapped`; to ask for one that is not unmapped is the error `clash`.
Between any two steps the video may become unready, or change its resolution;
metadata set the size of the canvas.  `Throw` is everything that throws: no
WebGPU, no adapter, no weights, a lost device.

`drawn` relates what was drawn to what it stands for: a thing at `place` (in
fractions of the frame) is seen in the pixels that were read back, with the
geometry of that moment, and drawn with the geometry the call has kept.

`meter` is the frame rate (`video.js:49-64`): `accumFps` and `frameCounter` while they
are counted, and `fps`, the quotient the page shows, as a fraction.  The rate of a
frame is any of `Rates`; `seen` is a history of the rates in
the count.  Two frames in the same instant, an infinite rate, are left out.

### Network: NetKernels, NetCommands, NetExec

A tensor is a sequence of planes, each known by the node of the detector that
computed it, its number, and what was done to it since.  A kernel is its
operands (which planes of a tensor of which shape), its weights, the operation,
and a `Tile`: the store index as a number in mixed radix, with a digit for each
coordinate of the workgroup, of the invocation and of the unrolled stores.
These were read off each kernel's text, one definition per kernel, under its
name.  `NetCommands` has the buffers with their sizes, the weights with their
names, and the passes with buffers and workgroups in the order of `setupNet`; the
117 passes of the sort are generated from the list of its steps, which is what
the exported code does too.

`RunPass` executes one pass.  It is sound if the dispatch stores every element of
the output exactly once (`Covers`), the output is none of the operands, every
buffer read holds a tensor of the shape the kernel assumes, and all weights are
of one layer and of the right size.  Everything else leaves a torn tensor.

`YoloGraph` is the detector as its weights name it (C2f blocks, SPPF, pyramid,
heads), with decoding and choice; `Yolo` computes its nodes in any order that
respects their operands and answers when all are there.  `ImplementsYolo` is the
refinement: the nodes made in this call, of this picture, from exactly the planes
the graph names.

### Decode and Choice

Where the kernels compute on indices and not on learned values, they are
modelled on numbers.  `Decode` follows one of the 8400 anchors: `Anchor80`,
`Anchor40`, `Anchor20` and `Stride` are the kernels' own expressions (clipped sums
over lanes, thresholds, tests on the lane of three stores, `205 / 1024` for a
division by five), the reference (`Side`, `Place`, `Pixels`, `MiddleX`, `MiddleY`) is the
plain enumeration of the cells of three grids.  Coordinates are exact halves.

`Choice` is parameterised by the levels of the sorting network (14 in `net.js`),
the anchors and the rows kept (300).  `Exchange`, `Mirror` and `Fold` are the three
kinds of sort kernel for any distance; `Before` is the expression modulo
`4 TopK - 2` by which the overlap kernel tells that a row is before another (1198
for 300 rows).  A score is in hundredths; `-1` is the `-INFINITY` of the padding.

## 3. Runs

| run | checks | instance |
|---|---|---|
| `store` | `NeverOfferedAgain` | 3 commands, 3 clock readings, 5 headers |
| `link` | `LinkTypeOK`, `NoRedelivery`, `MarkedOnlyIfWritten`, `AwaitedByteQueued`, `HandoverCompletes`, `LoopThaws` | 2 commands: known, unknown or empty; good and forged token; 1 start of each process; `db:create` |
| `link_crash` | `NoRedelivery`, `LateMarksWritten`, `InOrder` | 2 commands, known or unknown; good and forged token, 2 starts of each process, kills anywhere, `db:create` |
| `link_queue` | `QueuedIsTaken`, violated | 1 command, 1 start of each |
| `telemetry` | `TeleTypeOK`, `LostOnlyByRace`, `QuietMeansFlushed`, `ShownNeverRegresses` | 2 threads, 2 points, one stamped and one unstamped measurement, a clock of 3 readings that also goes back |
| `pipe` | `PipeTypeOK`, `StoredInOrder`, `NoMixture`, `LostOnlyByFault`, `LoopIsGivenBack`, `EndsMeet` | 4 messages, batches and openings of 2, a FIFO of 6 units, 2 starts of both processes |
| `dashboard` | `DashTypeOK`, `TrailEndsAtMarker`, `HighlightHasCause`, `CatchesUp` | 2 telemetry requests and a click, 3 snapshots, 2 reports, 1 fault, a line of 2 points |
| `dashboard_connection` | `NoFalseConnect`, `IndicatorSettles` | 2 connection requests, 5 times, window 2, clocks 1 apart, 2 faults |
| `video` | `VideoTypeOK`, `OneAtATime`, `NoMapClash`, `DrawnWhereSeen`, `RateWithinSamples`, `KeepsDetecting` | 2 activations, 2 frame rates, a wide, a square and a tall video, 2 canvases, 4 places |
| `network` | `ImplementsYolo` | the real network, 3 pictures |
| `decode` | `BoxAroundCell`, `FirstBestClass` | all 8400 anchors, 2 boxes, 3 classes with 2 scores |
| `choice` | `StableOrder`, `DrawnApart`, `PassedOverForBetter`, `RunsSorted` | 10 anchors in 16 slots, 5 rows; four anchors of any of 3 scores and 4 boxes, or all ten of 2 scores |

What they show:

* **store.** With ties, a clock set back, any caller and `db:create` at any
  time, the offer only ever changes to the row just inserted.  The price, not
  a violation of anything stated in the repository: a new command that ties
  with, or is stamped earlier than, the current one stays hidden.
* **link.** Within one incarnation of the poller a command is written at most
  once.  A row becomes done only after its byte was written, with two
  exceptions the property names: an id fetched before `db:create`, and a command
  that has no byte, which is marked done with nothing written.  A byte that
  comes while the reader waits is queued.  The two blocking calls do not wait
  for each other.
* **link_crash.** Kills add repetition, never reordering: a successor may write
  the last command again, but nothing older (`InOrder`, the refinement of
  `CommandRegister`), and a `mark_done` served arbitrarily late marks only what
  was written, again with the two exceptions.  However the processes end, one
  incarnation of the poller writes no command twice.
* **link_queue.** An action the drone refuses ends the controller; the
  commands in the queue, done for the server, are never taken.
* **telemetry.** The only window in which a point is lost is between
  `write_api.write` and `self.buffer = []`; when no request runs, the buffer is
  empty unless the last write raised; a stamped measurement
  never goes back, except while the clock has been set back to, or before, the
  point shown last, which the query then does not find.
* **pipe.** Whatever fails, the server takes messages in order, at most once,
  and never one made of two; a message is lost only where a write, a line or a
  request fails, an end is closed on it, or the controller ends.
  `pub_telemetry` retries a failed write without a sleep, but has taken the
  message off the queue, so it comes to the end of the queue and gives the loop
  back even when the server never answers.  The ends meet because a reader
  waiting in `open` counts as one.
* **dashboard.** Marker and line agree in every state, also when `destroy()`
  cuts an update in half.  A button is highlighted by its flight mode, or after
  its command reached the server; a rejected fetch highlights nothing, an error
  answer does.  In the end the page has the server's data, the button of that
  flight mode alone, and no banner, although answers are applied in the order
  they come.
* **dashboard_connection.** However old an answer is when it is applied, it does
  not turn the indicator green for a drone that was not heard of within the
  window plus the difference of the clocks; and the indicator that a rejected request leaves green goes out with
  the next answer.
* **video.** One call of `processFrame` at a time, so no buffer is asked for
  twice, and `NetExec` may take calls one after the other.  Boxes are in place
  even when the video changes during the first load: the pixels are read after
  it, but they and the geometry were drawn before it.  The frame
  rate shown lies between those of the slowest and the fastest frame it was
  computed from: the sum has as many terms as it is divided by.  No stretch of an unready
  video ends the loop.
* **network.** In all three pictures every pass is sound and every node is
  computed from this picture's planes: `buf_9`, strides first and scores later,
  and all other reused buffers are read in time.
* **decode**, **choice**. The index arithmetic gives the cell of every anchor;
  each level of the sorting network sorts its runs and loses nothing; the order is that of a stable sort; two boxes drawn are of different classes
  or overlap by 0.45 at most; a confident anchor that is not drawn was passed
  over for a better one at its place (drawn or not, as in the code: a row that
  was itself dropped still drops others) or for 300 better ones.

**Deviations met while modelling.**  The models do what the code does in these
places too; no run is devoted to them.

* `telemetry_store.py:182-184`: a point that another thread appends between
  the write and the new buffer is lost.  `LostOnlyByRace` names exactly these
  points as its exception.
* `telemetry_store.py:21` says "Write every 100 points"; the teardown of
  `__init__.py:55` flushes at the end of every request, so a point is written
  with the request that stored it (`QuietMeansFlushed` rests on this).
* `app.js:74` sends `e.target.value`; on the `<img>` inside a button
  (`index.html:42-50`) that is `undefined`, which is stored as a command, hides
  the operator's earlier one and is marked done unperformed: `poller.py:42-47` writes nothing
  for it, and line 49 marks it all the same.  `MarkedOnlyIfWritten` and
  `LateMarksWritten` name it as their exception.
* `telemetry_store.py:28`: a clock set back hides the points stamped later, and the
  dashboard goes back to an older one.  `ShownNeverRegresses` excepts this.
* `app.js:98` compares the clocks of two machines, see Dashboard in section 2.
* `app.js:295-298` takes latitude 0, longitude 0 for "no position yet": a drone that
  is really there has its map centred again with every answer.
* `video.js:12` finds no element `wgpu-error` in the page, so the handler for a
  missing WebGPU throws at line 121; like any throw it ends the loop and leaves
  "Loading model" (`index.html:112`) on the page.

The types of the store are part of `LinkTypeOK`; those of `Decode` are proved and not
checked by a run of their own.

**Bounds.** `MaxIssued`, `MaxPoints`, `MaxLaunches`, `MaxStarts` and
`MaxInflight` cap what would be unbounded.  Two commands suffice for one to
replace, hide or precede the other, and three for a tie after a replacement;
two pollers for a redelivery after a restart.  `link` starts each process once,
to leave room for two commands under liveness: an id that `db:create` has given to
another row takes two.  (With a second start of the controller it passes as well,
525,148 states in place of 262,819, but takes four minutes.)  Restarts are in `link_crash`, which has every behaviour
of the link and kills besides, and the theorems are for any number.  A FIFO of two bytes lets one byte wait behind another.
`MaxQueue` holds `read_pipe` back when the queue is full, which
the code does not do; with a queue of one, the next byte still waits in the
FIFO, and the proofs hold for every `MaxQueue`.  Two threads suffice for each
race of `flush`; the times 1, 8 and 86402 make `timedelta.seconds` wrap, the flush
interval pass, `range(start: -24h)` exclude an old point and its `stop` a future one.  `telemetry` uses the
symmetry of the two threads; it checks no liveness.  In `pipe` four messages
fill two batches of two, and a capacity of six lets both the message and its
newline meet a full FIFO.  `pipe` does not check for deadlock: the system
really may stop, when a process has ended, nobody starts it and the drone
sends nothing.  So may the video, when a call has thrown; and `decode` and
`choice` end with their answer.

In `dashboard`, two requests are what it takes for one answer to overtake
another, and two reports for it to be stale.  `dashboard_connection` has no
telemetry and no clicks, `dashboard` no connection requests and no polls: the two
share only the banner, and `error` is covered by the type and by `CatchesUp`.  Two
activations suffice for an overlap of the frame loop.  In `network` nothing is
scaled down; two pictures show what the first leaves behind, the third that the
second leaves the same.  Sixteen slots have every kind of level of the sorting
network: the first, merged into the padding; two in the middle; and the last,
folded.  The inputs of two scores decide for all inputs by the zero-one
principle, since the three kernels only compare and move.  Five rows are
more than one vector of four, so that `j \div 4` in `Before` is not always 0; a box
may reach over the edge of the picture; `ChoiceProofs` has the rest: every
number of levels, and `Before` for every `TopK`.

**Fairness** (`link`, `link_queue`).  Weak fairness of each system call on
the FIFO and of the sleep: the kernel and asyncio resume what can run.  Strong
fairness of `TakeCommand` and `ControllerExit`: the event loop is free again
and again, and asyncio runs ready tasks in turn.  Weak fairness of the drone's
answer: MAVSDK returns a result or times out.  None of `PollReply`,
`MarkReply`, of starts or of operators: requests have no timeout and nobody
restarts a process by rule.  `pipe` assumes the same of the system calls and
sleeps of its two processes, and nothing of `TeleSend`.

`DashFairness`: `setInterval` keeps firing while the page is there, a request is
answered or rejected in the end, and the browser runs the continuation.
Rejections are bounded by `MaxFaults`, so `CatchesUp` and `IndicatorSettles` speak of a
server that is reachable in the end; new data and clicks are not assumed to
come.  `VideoFairness`: animation frames come (the page is visible), and browser
and GPU finish what they have begun; nothing of the peer, of the media, or that
nothing throws, which `KeepsDetecting` has as its premise.  `NetSpec`: the GPU
executes what was submitted and the page goes on calling.

## 4. Proofs

All theorems are proved from the assumptions on the constants
(`StoreAssumption`, `LinkAssumption`, `TelemetryAssumption`, `PipeAssumption`,
`DecodeAssumption`, `ChoiceAssumption`, `DashboardAssumption`, `VideoAssumption`:
bounds are natural numbers, times are positive, a poller's headers are headers,
the value of each button is a form value, the sizes of a video are positive,
there are at most as many anchors as places in the network and at most as many
rows kept as anchors).  One theorem has a hypothesis of its own, `NoRounding`, see
`VideoProofs`.

Every invariant that a run checks, and every property of single steps, is also a
theorem.

**CommandStoreProofs.** `StoreTypes` by induction over the routes.
`OfferMovesOn`: an insertion can make no older row the newest, marking changes
no timestamp, `db:create` leaves no row.

**CommandLinkProofs.** The inductive invariant is `LinkInv`:

* `LinkTypeOK`;
* `History`: the rows are the end of `issued`;
* `Handover`: `Bounds` (`wrote <= fetched <=` issued), `Offered` (what the store
  offers is not older than what was fetched), `Held` (what the poller holds is
  the command it fetched, newer than all whose byte it wrote until its own is
  out (`ByteOut`); its id is that row's unless `db:create` came between), `Settled`
  (while it polls, the command it wrote last is done, or its row is gone);
* `Pipe`: while the FIFO has a reader no poller is blocked in `open`; an awaited
  byte is first in the FIFO and its reader still waits;
* `Ordered`: serial numbers do not decrease from the drone through the awaited
  command, the queue and the FIFO to the poller, and each byte is the code of
  its command.

`NoRedelivery` needs `Settled`: the poller may be offered the row it just wrote,
and only its `done` flag keeps it from writing again, which holds because a
poller whose `mark_done` fails does not go on.  `InOrder` needs `Ordered` over the
whole path, and `Offered` to extend it at its source.  `CommandLinkProofs` builds
on `CommandStoreProofs` for the steps of the store.

The second half of the module is about `LinkCrash`.  `CrashInv` keeps of `LinkInv`
all but the clause about the awaited byte, which a killed reader leaves behind
(`Unblocked` is what remains of `Pipe`), and adds `Late`: each request that outlives
its poller names a command that was written or has no byte, under its own id
unless `db:create` came between.  Most of its induction is that of the link, reused action by action;
`LateDone` is the step that needs `Late`, for it marks a row with no poller there
to vouch for it.  `HandedOverOnceInCrashes`,
`LateMarksAreWritten` and the refinement `DroneFollowsOperatorsInCrashes` follow.

**TelemetryStoreProofs.** `TeleInv` adds to the types and `LostOnlyByRace` itself:
`ClearIsSafe` (when a thread stands before `self.buffer = []`, every point is in
`written` or in `raced`) and `Attended` (while a point is in the buffer, some
thread has a flush before it, or the last write raised).  For any set of
threads.  `NeverBackInTime` needs `Fresh`: the points of stamped measurements carry
the time they were made, in the buffer, under way and in the database, and what was
shown is still stored, under its own time.  A later query that shows something
older therefore did not find it: its time is not before now, for it cannot have
dropped out at the start of the range with an older point still inside.  A batch
that lands is a recursion over its points (`ArriveAll`); that it removes none
(`Keeps`) is shown through a shortest prefix that does.

**TelemetryPipeProofs.** For any number of messages, sizes of batches and openings, and
capacities.  `PipeInv` looks at the way of a message as three sequences, one behind
the other: `stored`, the `Stream` (the line being sent, the reader's buffer, the
FIFO) and what is `Waiting` in the two queues.  `InLine` says that message numbers
increase along all three, that only newlines belong to no message, and that the
beginning of a message is followed by its end.  Reads that cut the stream anywhere
move the borders inside `Stream` and change nothing of this.  A reader that closes
drops the beginning of the stream, anywhere: what is left may start with the end of
a message, but never joins two, and that a beginning is followed by its end rests on
both parts being one write.  `PipeKeepsOrder` and `LinesNeverMix` follow from `InLine`; `OnlyFaultsLose` is
inductive next to the types.

**DecodeProofs.** `DecodedBoxes` is `BoxAroundCell` for every anchor and all
distances.  Lemmas show that each of the three ways of computing a coordinate
gives `2x + 1`, that the tests of the three stores of a lane amount to the
borders 6400 and 8000, and that a multiplication by 205 and a shift by 10 divide
by 5 up to 399.  The invariant `DecodeInv` has centre, size and stride at each
stage; that `best` is still the stride when the corners are made is what keeps
the reuse of `buf_9` harmless.  `FirstBestWins` is `FirstBestClass` for any number of
classes: the kernel takes the maximum of a number that counts down from the first
class among those with the best score.

**ChoiceProofs.** For any number of levels of the sorting network, of anchors and of
rows kept, so for 14, 8400 and 300.  No zero-one principle: values are bitonic
if, for every bound, the places whose values reach it are an arc of the ring of
places.  `ArcHalves` folds a ring with an arc in two: where either half is in the
arc, and where both are, are arcs again, and one of them is empty or everything;
applied to every bound, this is `HalfClean`, that comparing the halves of bitonic
values leaves bitonic halves, the larger values first.  `Mirror` and `Fold` make pairs
of sorted runs bitonic (`MirrorStages`, `FoldStages`), an exchange of half the block
size takes each run from `k` blocks to `2k` (`ExchangeStages`), and blocks of one value
are a sorted run (`StageSorts`).  The kernels' own arithmetic on the index (`i \div d`,
`% 2`, `% 4`) enters in `Pairs` and `Quarters`.  `Schedule` locates each step of the
list of steps in its level, so that the invariant `SortInv` can say, from the number
of steps alone, in which phase of which level the values are; at every step they
are a rearrangement of the padded scores, which is a bijection and so keeps the
number of places with a given score.

From there `OrderInv`: since each score occurs as often before as after the sort,
the number of an anchor among those of its score meets exactly one place
(`RankTaken`, `RankTells`), the sum of `Order` has one term (`OneTerm`), and earlier in
the order means a larger score, or the same and a smaller index (`EarlierIsBetter`).
`BeforeIsBefore` shows that the expression modulo `4 TopK - 2` means `j < i`;
`SameIsMutual` that the overlap test does not depend on the order of its
arguments, without which the row that drops could be the wrong one.
`TopKBetter` counts the rows before an anchor that got none.

**DashboardProofs.** For any number of slots, positions and points.  The inductive
invariant `DashInv` adds to the types, `TrailEndsAtMarker` and `HighlightHasCause`:
`DatesHeard` (the date of an answer is that of a ping, not after the newest),
`AnsweredReached` (a command whose request was answered is in `issued` or was
refused) and `MovedIsOnMap` (a marker away from the origin is on the map, which
`UpdateTelemetryLate` needs).  `ConnectsTruly`, for every difference of the clocks
and the window it makes, follows from `DatesHeard` and from time going forward.

**VideoProofs.** For any set of activations and all sizes.  `OneCallAtATime` needs
that a call is asked for only when none is under way, and by `OnTrack` only once,
before any call; `BuffersNeverClash` adds which buffer is pending at which place
of the one call.  `VideoTypes` shows that the target rectangle lies in the picture
for every aspect ratio, with division rounded down.  `BoxesInPlace` needs `Framed`:
from drawing the frame until its pixels are read, the offscreen picture was drawn
with the geometry the call keeps, and from then on the input is of that geometry.
It has the hypothesis `NoRounding`, that for the sizes and places in question the
divisions of the page, which computes with fractions, come out even; TLC evaluates
it on the sizes of the run, where it is true.  Without it integers would put a box
some pixels off, which says nothing of the page.  `RateIsMean` needs
`MeterInv`: the sum under way lies between the slowest and the fastest of its frames,
each times the number of frames; one more frame moves either bound by that frame
only (`OneMore`), and the quotient is taken before the counter starts again.

**Induction over data.**  The library's induction theorems take a predicate as a
parameter and cannot be used here.  Where a fact about all numbers, prefixes,
levels or finite sets is needed (powers of two, the flattened list of steps,
maxima, batches), its proof takes the least counterexample from
`LeastNatural`, which follows from the well-foundedness of `<`, and
contradicts it.

**Only model-checked:** liveness, that is `HandoverCompletes`, `LoopThaws`,
`LoopIsGivenBack`, `EndsMeet`, `CatchesUp`, `IndicatorSettles` and `KeepsDetecting`, which
need fairness and `ENABLED`; `ImplementsYolo`, the refinement of `Yolo`, which has no
parameter (the network is fixed, and TLC's answer is complete for three pictures)
and rests on the evaluation of 111 kernels; the violation `QueuedIsTaken`.

## 5. Not modelled

* The arithmetic of the convolutions, of pooling, of batch normalisation, of the
  class scores and of the distributions over distances (passes 85-88), and the
  rounding of 32 bit floats everywhere: trained weights and real numbers are out
  of reach of both tools.  What these kernels read and store is modelled.
* `processOutput`, `iou`, `union` and `intersection` of `video.js`: never called.
  The names and colours of the classes, wording and formats.
* Pipelines, layouts and the safetensors file: a buffer has the weights its name
  says.
* The views `/` and `/health`, the position queries, token issuing: they change
  no state.  What `/` computes as `last_command` is never used.
* A late `POST /telemetry`, and kills of `telemetry.py` or the controller's
  telemetry side at points other than those where its code ends it.
* `readline`'s limit of 2048 characters, which only more than ten messages run
  together could reach; the server refuses such a line anyway.
* Docker files, CSS, images.

## 6. Plan

1. *Done:* the server, both pipes, crashes of the link, the dashboard, the video
   page, the network; proofs of every invariant and every step property.
2. An abstract specification for `TelemetryPipe` (what reaches the server is a
   subsequence of what the drone sent), with a proof from `PipeInv`.
3. `NoRounding` away from `BoxesInPlace`: a bound on the distance between box and
   thing, in pixels, for all sizes.
