# A TLA+ model of the LS2K0300 smart car

The program drives a small camera car round a course: lines, roundabouts, a
ramp, a finish line of zebra bars, and red picture blocks to be passed on the
side their class asks for.  `P/` below stands for
`src/Seekfree_LS2K0300_Opensource_Library/`.

Contents: 1 the system, 2 the plan, 3 the modules and the code they model, 4 the
runs, 5 bounds, 6 fairness, 7 what is proved, 8 where the code and its text
disagree, 9 what the modelling brought up besides, 10 what is not modelled.

## 1. The system

Two threads share plain globals without a lock.

* The **main thread** (`P/project/user/main.cpp`) scans the keys while the car
  does not run, then handles one camera frame (`ImageDeal` in
  `P/project/code/image.cpp`): line and corner search, the element recognisers
  `zebra_corssing`, `ramp`, `Huandao_R_imu`, `Huandao_L_imu`, `picture`, and the
  steering error and speed goal (`Err_Sum`).
* The **timer thread** (`zf_driver_pit.cpp`) runs `pit_callback` every 5 ms:
  attitude, encoders, the odometers (`distance_judge`), and the motor output
  for the state of `run_flag`.  It asks for `SCHED_FIFO` priority 99 on the one
  core of the LS2K0300 and gets it when the program is started as root.

A third group of threads exists when the streaming server is started: one
server thread, and one thread for each browser.

| component | state | operations | what is hard | what makes it correct |
|---|---|---|---|---|
| track elements (`image.cpp`) | `struct YuanSu Flag`, `distance`, `distance_picture`, `distance_HUAN1`, `Yaw_Huandao_err` | the five recognisers, `distance_judge` | four recognisers share one odometer with two threads; stages cascade in a frame | at most one roundabout; each element gets its length; the line stops the car; no element is left hanging |
| line search, path geometry (`image.cpp`) | side lines, corners, `imgInfo`, the middle of the last frame | `Get_ImageTop`, `Find_Sideline`, `Find_Guaidian`, the second searches, `Find_Midline`; `straight_judge`, `Buxian`, `Err_Sum` | what earlier frames left in the arrays; borders of the image; searches of one frame that count the same rows | edges enclose the road; what the counts of lost rows are worth is known; corners keep their order; a lost road is found again |
| run control (`main.cpp`, `show.cpp`, `init.cpp`) | `run_flag`, `speed_goal`, motor duty | keys, `pit_callback`, SIGINT and exit | keys, line stop, timer tick and signal in any order | a stop reaches the motors; nothing drives after exit |
| speed and direction control (`image.cpp`, `control.cpp`, `main.cpp`) | row looked at, errors of the rows, steering output, last speed error | `Err_Sum`, `Dis_PID_Calculate`, `Speed_PID_Cal`, `set_pwm` | rows of older pictures, two threads, saturation, int16 conversion | the car steers by what it has just seen, to the side it steers to |
| attitude filter (`filt.cpp`) | quaternion, yaw | `huandao_yaw_correct`, the filter steps | angles that wrap | the turn in a roundabout is measured from its start |
| parameter file, menu (`flash.cpp`, `show.cpp`) | `Flash`, the file, page and entry | load, save one, save all, eight keys | an end of the program between truncation and write | a load after a save returns what was saved |
| streaming server (`ww_transmission.cpp`) | socket, `running`, newest frame, client threads | start, stop, accept, stream, snapshot | stop against waiting clients, descriptors used after close, restart | stop ends every thread; a client sees whole frames in order |
| FIFO (`zf_common_fifo.cpp`) | head, end, size, buffer | write, read, tail read, clear | wrap-around, read-only against read-and-clean | it is a queue |
| timer (`zf_driver_pit.cpp`) | descriptors, exit flag, thread | init, stop | stop against a callback under way | no callback after stop returns |
| TCP client (`zf_driver_tcp_client.cpp`) | socket | init, send, read | bytes come in pieces of any length | what is read is handed on in order |
| debug assistant (`seekfree_assistant.cpp`) | FIFO, parameters | receive, parse | pieces that do not fit, data that look like a head | frames are applied in order; one not hit by a loss arrives |
| red-block detector (`red_picture.cpp`, `lq_ncnn.cpp`) | `red_objects`, class flags | detect, classify | the body of `DetectRedBlock` is commented out at this commit; what the rest leaves is overwritten or unread | external input |
| drivers, displays, formatting | none that matters | device files, pixels, text | — | not modelled |

How they interact: the recognisers read the corners and counts the line search
leaves (calls, in the order of `ImageDeal`, `image.cpp:4423-4583`); the timer
thread adds to the odometers they read and zero (shared state); `zebra_corssing`
writes the `run_flag` the timer thread's motor output tests (shared state);
`Err_Sum` writes the `speed_goal` the motor output uses and zeroes (shared
state); the keys write `run_flag` and `Flash` (calls from the main loop); the
exit handlers stop the timer thread (flag and join).

`zf_components/tflm`, `zf_components/ncnn`, the font tables and
`project/code/libraries` are third-party, generated or duplicate code.

## 2. The plan

In the order of importance to the car.  Done:

1. `Course`, `TrackElements`, `TrackTrip`: recognisers and odometers, the core.
   `Course` is the abstract lap, `TrackElements` implements it, `TrackTrip`
   composes it with a history of the distance travelled.  Proved: types, one
   roundabout, ramp on the open lap, bypass against entry, the clean odometer,
   the refinement, every length of `TrackTrip`, no stale verdict, and that
   nothing takes back what the odometer has counted towards a stop or a ramp's
   end.
2. `RunControl`: keys, run flag, timer phases, motors, SIGINT, exit, restart.
   Proved: types, every safety property, and that a stop and a join of the timer
   thread always come nearer.
3. `Transmission`: the streaming server with its threads and descriptors.
   Proved: frames whole, in order, none slept through; no socket closed by
   anybody but its owner; a stopped server thread that always comes nearer to
   its end.
4. `ParamStore`: menu keys, parameter file, ends and restarts.  Proved: the file
   is current, a restart keeps the parameters, a single save keeps the others.
5. `LineSearch`: from the binarised image to edges, corners and the middle.
   Proved: types and every safety property.
6. `Queue`, `Fifo`, `Assistant`: the ring buffer, the queue it implements, and
   the frame parser that reads from it.  Proved: the ring buffer is a queue,
   alone and under the parser; the frames stay in step; the tail read.
7. `Steering`: from a picture to the motor command, on two threads.  Proved:
   both properties, and what happens beyond the range of 16 bits.
8. The yaw of a roundabout in `TrackElements`, with its correction across 180
   degrees.  Proved: the turns the three stages stand for.

Left, in this order:

9. `LineRepair` on top of `LineSearch`: `straight_judge`, and the lines `Buxian`
   and the two roundabout handlers draw and search again.  It replaces the free
   choice of the middle on a roundabout.
10. `PitTimer` (the error paths and descriptors of `init_ms`, a second start) and
    the sending half of `TcpClient`, neither of which the program reaches.
11. Theorems for what these add.  The frames and sockets of `Transmission` for
    any number of starts are not among them: with two starts they are false (see
    9), so `OneStart` is a hypothesis the theorems need.

## 3. The modules

`*Proofs` modules hold theorems, `MC*` modules give TLC the inputs of a run.
A definition marked `[variant]` is a plausible mistake in the definition after
it: each property is shown to notice one of them, and no specification uses it.

### Course, TrackElements, TrackTrip

`TrackElements` runs one frame as steps of the main thread (`pc`): `KeyScan`,
`NoFrame` or `Capture`, then `zebra_corssing` (`ZebraNext`, `ZebraDone`), `ramp`
(`RampNext`, `RampDone`), the right and the left roundabout handler
(`EnterHuandao`, `StageNext`, `StageOneRight`, `StageDone`, with `side` saying
which), and `picture` (`RedBlockSeen`, `Classified`, `BypassNext`,
`PictureDone`).  A handler is a sequence of `if`s on a flag it changes, so a
state that advances meets the next `if` in the same frame: an action takes one
`if`, and the `Done` action of a handler is enabled when none is left to take.

The timer thread may preempt the main thread anywhere, so a transition that
writes a flag and an odometer is two steps: the first leaves the second write in
`pend`, and the actions `Launch`, `StopAtLine`, `ZeroDistance`, `EnterRight`,
`LeaveBypass`, `ZeroPicture` make it.  The order is the code's: the left handler
changes its stage and then zeroes, the right one zeroes first, `picture` zeroes
before and after.  `distance_judge` is a read and a write (`TickRead`,
`TickWrite`, with the sums in `latch`).  With `RealTime = TRUE` the main thread
does not run between the two, as on the one core under `SCHED_FIFO`; without it
(a start without root) it may.

The image is a set of marks: per side, the lower and the upper corner, the
geometry of an entrance, the bottom of the side line lost or found again, more
than 25 lost rows, a straight line; for the frame, zebra bars, the look of a
ramp, the near mark, equal counts of lost rows, a red block, a close one.  The
marks of a frame are whatever `Scenes` contains; the corner search adds and
removes the ones it treats specially in the stages 3 and 4 (`Find_Guaidian`).
The yaw error is measured anew in every frame from stage 2 on, from any pair of
`Headings` (at the entrance and now), by `huandao_yaw_correct`.
`Flag.small_rock` and `picture1` have no writer or caller and are left out.

`Course` says what this amounts to: a lap goes start, armed, run, line, crossed,
done and never back; one roundabout at most; a ramp only on the open lap; and
the program's own stop comes once, past the line.  `TrackElements!C` maps
`Flag.Zebra_cross` to the legs (5 is "crossed" until `run_flag` is written) and
the roundabout flags to the bend.

`TrackTrip` adds `trip`, the distance really travelled since the watched element
began.  `Begins` is the moment its odometer is zeroed, or its stage entered;
where the code does not zero the odometer (the run-out behind the line, the
first part of a ramp), `trip` starts from what the odometer holds (`Credit`), so
that the property says exactly what the code's comparison can promise.  `own`
says of a watched roundabout whether the yaw error is its own: the one of the
roundabout before stays until the handler measures for the first time.
`Broken` is a side line lost in the last rows and found again three rows above:
one frame that is both the entrance and the mouth of a roundabout.

### RunControl

`run_flag`, `speed_goal`, the duty of both motors, the last levels of the stop
and launch keys, the places of the main and the timer thread.  Each access to
shared data is a step: the launch branch of `key_scan` writes `run_flag` one
second after the press (`launch`), `Err_Sum` writes 600 and lowers it for a
picture or a ramp in two more steps, a tick reads `run_flag` twice (`tick_drive`,
`tick_halt`) and writes one motor after the other.  `sigint` takes the main
thread out of its loop wherever it stands; the handler zeroes the motors, calls
`exit`, and `cleanup` stops the timer, joins it, stops the camera and zeroes the
motors again.  `kill` is a signal without a handler; `start_again` starts the
program anew, with the duty the PWM device kept.  `duty` is "off" or "driven":
which number the PID commands is left open in `set_motor`.
`fresh` and `stood` are history variables for two properties.

### Transmission

The calling thread (`start_server`, `stop_server`, `update_frame`), one server
thread for each start (`socket`, `publish`, `bind`, `test`, `accept`,
`connection`, `error`, `failed`, `close`), one client thread for each browser
(request, stream, snapshot, stats, page).  `running` is a plain bool: each read
and each write is a step.  `frame_mutex` is modelled with its holder in
`send_mjpeg_stream`, whose section reads `running` inside and is therefore
several steps (`stream_lock`, `check`, `wait`, `ready`, `take`); sections that
read nothing unprotected (`update_frame`, `client_stats`, `client_snapshot`) are
one step under the guard that the mutex is free.  `pthread_cond_wait` gives the
mutex up and queues the thread in one step, and wakes for a broadcast or for no
reason.  Descriptors are numbers with an owner (`file`), the lowest free one
handed out again, so that a `close` of a stale number closes what somebody else
opened.  A `shutdown` of a socket makes a blocked `accept` return; a `close`
alone does not.

### ParamStore

`Flash`, the file as a sequence of key and value lines, the menu page and entry,
and the place in a save: `file_open` (which empties the file) or
`file_open_fails`, `write_string` (into the stream's buffer, which the text of at
most 256 bytes does not fill), `file_close` (the buffer reaches the file) or
`file_close_fails` (the disk is full and the file stays empty).  Ctrl-C flushes the streams on its way out, a fatal
signal does not; both end in a new start, which loads.  Numbers are counted in
units of 10^-7: `Written` is what `%.4f` leaves of a value, `Stored` what an
`int` field keeps of one.  `Param_SaveSingle` has no caller at this commit; it
is the operator `SaveSingle` with a property over every file the model reaches.
`saved`, `owed` and `idle` are history.

### LineSearch

One frame after the other: `ImageDeal` takes an image, `Get_ImageTop` finds the
longest white column between the ends of the white in row bottom - 1, starting
from the middle of the last frame, `Draw_BlackSideline` paints the border,
`Find_Sideline` goes up row by row, `Find_Guaidian` looks for the four corners,
an upper corner starts `Find_right_Sideline` and `Find_left_Sideline`, and
`Find_Midline` leaves the middle for the next frame.  A loop that scans a row is
a predicate on its result (`IsLeftEdge`: the first hit from a column outwards),
a loop that writes a row of the arrays is an action per row, a loop over rows
without a write is a quantifier.

The arrays are never cleared.  What an earlier frame left in a row is `Old`, and
a comparison with it may come out either way (`old` in `WiderAbove`).  When the
search gives up (`Find_Sideline_break`), everything after it works on such rows:
the corners get flag 2, "found or not, on old lines".  The loops of the left and
of the right side each make their own choice (`LeftUndecided`, `RightUndecided`).
The image is read as the flat array it is: beyond a row's end lies the next row
(`Pixel`), which the second search on the left can reach.

`Huandao_imu` lets a frame enter a roundabout between its corner search and its
middle line.  In the stages 2 to 5 the handler paints a line into the image and
calls `Get_ImageTop` and `Find_Sideline` again (`image.cpp:1824`, `1904`, `2008`,
`2058`; on the right `2359`, `2444`, `2536`, `2586`), and a stage may hand over to
the next within the frame, which then does the same: `Huandao_search`, then the
actions of the search once more, then `Huandao_search_end`, with the zeroing of
one count that ends stage 4 (`2010`, `2538`).  `again` is the stage that searched
last.  Which pixels a handler paints is not followed: any set of `Lines`.  Where
it draws into the edges is not either, so the middle on a roundabout is any of
0 to `LCDW_1 - 3`, the middles that a left and a right edge can have.  `earlier`
is history: the right count when the last search began.  The corners stay those
of the first search in the code and are read by nothing here, so they are
dropped.

### Queue, Fifo, Assistant

`Fifo` has one operator per operation of the ring buffer: `head`, `end`, `size`,
the two copies of a write or a read that wraps around (`Written`, `Copied`), the
length that is corrected, the clearing read.  `Contents` reads the elements from
the oldest to the newest; with it as `q`, the buffer implements `Queue`.
`fifo_read_tail_buffer` is outside the queue (it copies the newest elements); its
copy of the wrapped case starts before the buffer and yields anything.

`Assistant` is `Fifo` with its one caller.  `Send` is the tool on the PC,
`Receive` and `ReceiveNothing` the read from the socket and the write into the
FIFO, `Peek`, `Leave` and `Drop` the loop of
`seekfree_assistant_data_analysis`: a look at the next frame's length, then the
frame is applied and taken out, or one byte is.  A byte is its place in the
stream, and what it says is looked up in the frame it is of; so "the frame that
was applied is the frame that was sent" can be told from "one that looks like
it".  `applied` and `torn` (the frames a dropped piece had bytes of) are history.

### Steering

The main thread (`mpc`): `Keys`, `Frame`, then `Err_Sum` as `Goal` and `Lower`
(two stores to `speed_goal`) and `Steer` (the row looked at, the errors of this
picture's rows, the gain, the output).  The timer thread (`tpc`): `TickSteer`
(`Dis_PID_Calculate`), `TickDrive` (`Speed_PID_Cal`, the two 16-bit commands,
`set_pwm`) and `TickHalt`.  `Dir_Err` is never cleared and `forward` keeps its
value while the car stands: both are state.  `RunControl` has the same tick with
the numbers left open and every exit; here the numbers are computed and the
program runs on.  A command out of the range of `int16_t` is undefined in C++ when
it comes from a float; the build wraps it, and so does `int16`.

## 4. The runs

`tlc -workers 2 -config <cfg> <module>`; the largest takes a few minutes.

| run | module, cfg | states | what it asks |
|---|---|---|---|
| `lap` | `MCTrackElements`, `lap.cfg` | 3.9 million | With every order of frames and ticks: are the elements kept apart (`OneRoundabout`, `BypassExcludesEntry`), do the recognisers implement `Course`? |
| `ends` | `MCTrackElements`, `ends.cfg` | 106,000 | With frames and ticks coming for ever: does a car past the line get stopped, a ramp end, a picture once classified get passed? |
| `trip` | `MCTrackTrip`, `trip.cfg` | 2.0 million | Does any element end before the car has travelled its length, or turned by its own measure? |
| `stream` | `Transmission`, `stream.cfg` | 92,000 | Two browsers against starts, stops, updates: are frames whole, ordered, delivered; does nobody close a socket but its owner, and does a stop end the server thread? |
| `run_stop` | `RunControl`, `run_stop.cfg` | 80,000 | Keys, line, ticks, Ctrl-C, kills, a second start: does a stop reach the motors, does a stopped car stand, does only a fresh press launch, does Ctrl-C leave the motors off? |
| `params` | `MCParamStore`, `params.cfg` | 83,000 | Keys, saves that cannot open or fill the file, ends between any two steps, three initial files: does the file give the parameters in use, and does a restart keep them? |
| `lines` | `MCLineSearch`, `lines.cfg` | 365,000 | Frame after frame from any middle, searched again by the roundabout handlers: do the edges enclose the road, what are the counts of lost rows worth, do corners keep their order, is a clear road found again? |
| `link` | `MCAssistant`, `link.cfg` | 82,000 | Frames in pieces of any length, some of them dropped: are the frames applied the frames sent, does every frame that was not hit arrive, is the ring buffer a queue? |
| `steer` | `MCSteering`, `steer.cfg` | 3.0 million | Pictures, launches, stops and ticks between the stores of `Err_Sum`: does the car steer by a row it has just seen, and do its wheels turn it to that side? |
| `stop_release` | `Transmission`, `stop_release.cfg` | violated | "stops the server and releases all resources" |
| `killed` | `RunControl`, `killed.cfg` | violated | "the program exits abnormally, cleaning up" |
| `torn_save` | `MCParamStore`, `torn_save.cfg` | violated | "data kept when the power goes" |

Some properties are worth a word on what they do *not* say.

* `StopsPastLine` credits what the odometer holds when the bars are seen.  It
  counts on the open lap only on a ramp or in three roundabout stages, and keeps
  a residue when a roundabout is abandoned, so the car may stop up to that much
  early.  No text of the repository promises the ten units exactly.
* `LineStops` and `RampEnds` hold once no roundabout claims the odometer
  (`<>[]OpenRoad`): one entered and left again and again zeroes it again and
  again.  `BypassEnds` needs only that no roundabout is held at its entrance, and
  begins with a verdict of the classifier, which is external.
* `GatesHold` excepts the frames that show the near mark, a straight road or a
  broken side line: with them a stage may cascade into the next before anything
  is measured.
* `OnlyOwnersClose` is about the descriptors of the server.  After a failed `bind`
  the stale number may be one of the rest of the program, which is not modelled.
* `EdgesEncloseRoad` starts from a middle inside the border: from the columns 0
  and 1 the longest column may be the one that is then painted black, and the
  search gives up.  `BackOnRoad` holds from any middle.
* `LostRowsCounted` does not say that the right count is the number of rows lost
  on the right: after a handler's search it is not (section 9).  It says what it
  is instead, the sum over the searches of the frame, and that the left count and
  both counts before the handlers are the numbers of lost rows.
* `FramesArrive` excepts a frame whose head goes with a window of earlier bytes
  that passes for a frame by chance: one dropped piece may cost several frames.
* `SteersByThisPicture` is for pictures whose first row is above the lowest row
  looked at (50); below it the error of an older picture is steered by.
* `TurnsAsSteered` is for steering up to 11384: beyond it see `HardTurnWraps`.

Deadlock is checked except in the runs of `Transmission` and `RunControl`, which
really come to an end: every server and browser used up and the server stopped,
or the program ended for the last time.

## 5. Bounds

* **Odometers** (`lap`, `ends`, `trip`).  The thresholds 60, 10, 100, 150, 40
  become 1 or 2 units and a tick adds 0 or 1, so a threshold is passed in two or
  three ticks; only comparisons with thresholds matter, and between two
  thresholds of different elements there is none in the code.  A value beyond
  `MaxMeter` is kept at `MaxMeter` (`Clamp`), which no comparison can tell from
  a larger one.  `ends` uses 0 and `MaxMeter = 1` because liveness is costly.
* **Frames.**  `Scenes` holds one set of marks for each thing a frame can show,
  and some that show two (a red block in an entrance, a crossing beside one).
  Any frame may follow any other, so a frame with marks that contradict its
  predecessor is included.  In `trip` the camera shows the elements that can
  disturb the watched one (`FramesFor`), and any of four elements is watched;
  the frames of a gate include a broken side line.
* **Headings.**  Straight on, and a turn of 106 degrees to either side that
  crosses 180 on its way: errors of 0, 106 and -106, below, inside and beyond the
  windows of stages 3 to 5.  `ends` has one turn.
* **Server.**  Two browsers and three descriptors: enough for one to hold the
  mutex while the other sleeps, for a reused number, and for none left.  One
  server thread.  Two frames: one sent, one missed.
* **Program starts** (`run_stop`): 2, so that the second meets the duty the first
  left; 1 in `killed`.
* **Parameters.**  Three of nine keys: one whose value has more decimals than a
  line keeps and two of integer type the menu tunes.  The nine are treated alike
  by the code, one branch or line each.  A value may be stepped within `Range`,
  and `Parameter_flag`, which key 1 increments without a limit, up to 3: one
  more than the entries of `Tuned`.  Files: none, one of an older version, one
  edited by hand with a key twice.
* **Images.**  11 rows of 12 columns in place of 60 of 94, with the constants 7,
  12 and 10 of the corner search scaled to 4, 2 and 2.  An image has three bands
  of eight kinds of road at three heights: both corners of a side in one image,
  lost rows, a speckle, no road, and a road whose middle is black all occur; so
  do a longest column 0 and a frame that recovers from it.  A handler paints a
  wedge that narrows the road towards the top on one side and ends it at row 5, so
  that rows are lost, kept or cut off by it; up to four handlers search in one
  frame.  With all of the 1536 images of the three bands, and with handlers that
  paint nothing as well, TLC finds no error either (1.8 million states); the run
  leaves the upper band of two of the three heights fewer kinds to stay short.  Images are finite data: what the bounds leave
  out is covered by the proofs, which take any images, lines and sizes.

* **Frames of the tool.**  Up to four of 4 bytes with fields 0 to 3, into a FIFO
  of 6: a write and a read wrap around, a piece does not fit, a frame is cut
  anywhere, one has a head among its data, and one is a frame again when it is
  read from its second byte on.
* **Steering.**  Five rows, of which two may be looked at; roads to either
  side that begin above, between and below them; a picture in sight, one
  being passed, a ramp.  Two speeds: standing still and 160, beyond the goals a
  picture or a ramp sets.  Errors are chosen so that the output stays within and goes beyond the
  16-bit range.

## 6. Fairness

Only the liveness properties use it.

* `TrackElements`: the camera keeps delivering frames, neither thread stops, and
  the car keeps moving forward.  The fairness of the main thread's steps and of
  a forward tick is strong, because each waits, between any two of its own
  steps, for the other thread (the timer thread sleeps between ticks; the main
  thread does not run inside one).  The write that ends a tick is weakly fair.
* `RunControl`: both threads are scheduled and the timer expires (weak), and the
  camera delivers an image again and again (strong, for the frame that reaches
  `Err_Sum`).  `stop_collect` returns; it is outside the repository's code.
* `Transmission`: a call of `start_server` or `stop_server` that has begun is
  finished; server and client threads are scheduled (weak); a thread waiting for
  a mutex that is given up again and again gets it (strong); a receive or a send
  ends, with data or an error.  No connection, no new call, no frame and no
  spurious wake-up is assumed to happen.

* `Assistant`: the analysis is called again and again, as a loop that polls the
  tool would (weak), and a socket that holds bytes hands some of them over again
  and again (strong, since a read may also find nothing yet).  No frame is
  assumed to be sent.

## 7. What is proved

The theorems hold for every value of the constants that satisfies the named
assumptions of the module, which TLC evaluates for the values of the runs.

**TrackElementsProofs.**  The invariant is
`TypeOK /\ PlaceOK /\ OneRoundabout /\ RampOnlyOnCourse /\ BypassExcludesEntry`.
`PlaceOK` is the strengthening: a second write is pending only where the main
thread is (`pend` against `pc`, `side` and the flags), and a `ramp` step is under
way only with the lap open.  Without it `EnterRight`, which sets stage 2 without
testing anything, could open a second roundabout.  `PictureMeterHolds` adds
`LatchOK` (a tick under way has seen the flags as they still are), which is
where `RealTime` is needed.  `RecognisersImplementCourse` shows each step to be
one step of `Course` or a stutter (`StepRefines`), from the same invariant.
`StagesAreTurns` says what the windows of the yaw error mean: for any heading at
the entrance, on either side, stage 3 ends after 106 to 179 degrees, stage 4
between 251 and 259, stage 5 from 336 on.  `RampOnlyOnCourse` and
`PictureMeterClean` are proved without a run of their own.

The lengths of `TrackTrip` are proved from `TripInv` on top of that invariant.  Its
core is `NotAhead`: while a watched stage lasts, neither its odometer nor the sum
the timer thread is about to store is ahead of the travel.  The odometer may fall
behind, when another element zeroes it, and then a stage ends late and not early.
The exceptions are the steps between a stage's begin and its zeroing (`Zeroing`,
`"Flag.picture"`, `"distance_picture"` in `pend`); that such a step is never the
one that ends a stage is `EndsOfStages`.  `PictureOK` keeps that a bypass which has
zeroed its odometer before it changes the flag had come far enough, and `OwnOK`
which frames can lead to stage 3 or 4 without a measurement.  Two hypotheses are
needed: `RealTime`, without which a reset can be lost, and `ForwardAssumption`, a
car that does not roll back.

`NoStaleVerdictHolds` and `OdometerRunsOnHolds` need no `RealTime`.  They are the
safety halves of `BypassEnds`, `LineStops` and `RampEnds`: a verdict is only there
while its picture waits, and on the open road nobody takes back what `distance`
has counted.  A store of the timer thread that comes after a reset undoes the
reset, but is never less than what the odometer shows (`MetersGrow`).

**RunControlProofs.**  `TypeOK`, then that the program counters and the flags
agree: a launch under way has a fresh key (`PressOK`), a way out has its motors
off once it has zeroed them after the join (`OutOK`, with the timer thread gone
by then), a halted car has no tick still driving (`StoodOK`).
`StandsUntilLaunched` is proved under `[]NotKilled`, its own premise: a killed
program leaves the motors driven (`killed`).
`StopComesNearerHolds` and `JoinComesNearerHolds` are the safety halves of
`StopReaches` and `ExitEnds`: a count of the steps a tick has left (`TickLeft`,
`ToEnd`) falls with each step of the timer thread until it has halted the car, or
has ended for the join (`ExitFlagOK`).

**TransmissionProofs.**  The mutex is held by the thread inside the section
(`LockOK`); what is copied under it belongs to the number read under it
(`JpegOK`, `StreamOK`).  `TypesHold` is for any number of starts, with the owner
of each descriptor (`DescriptorsOK`).  `OnlyOwnersCloseHolds` rests on `Owned`: a
client's thread owns its number until it closes it (`ClientsOwn`), the published
number is the listening socket, free, or stale with no client about
(`ServerOwns`), and no client was given the published number (`NumbersFresh`).
`NotLeftInAcceptHolds` and `WindsDownHolds` are the safety half of `ServerEnds`.
`Accepting` says that until `stop_close` the number that is published is the one
the thread accepts on, so that the shutdown meets the socket it waits on and a
later `accept` a closed number; from then on every step of the thread has fewer
steps left after it (`Left`), and none of them waits for a browser.  All but
`TypesHold` are for a program that starts its server once, as this one does
(`OneStart`): `start_server` resets the frame number and the frame in two steps,
and a client of an earlier start may be between them; and it overwrites the
number of a server that may still be accepting.

**ParamStoreProofs.**  `ContentOK` (the text under way is that of `Flash`),
`CurrentOK` (between saves the file gives it) and `OwedOK`, resting on two
lemmas: `Load` of the lines of a save gives `Flash` to four decimals
(`LoadLines`, for distinct keys), and `SaveSingle` changes what it is asked to
change in any file (`SaveSingleLoads`).  `TypesHold` follows the menu, the place
of the cursor and the save one after the other.

**LineSearchProofs.**  For images of every size from 9 rows and 8 columns to 128
columns (`white_width` is a byte), any content, and any lines the handlers paint.
`ColumnOK` and `RowOK` place the longest column and the row of a loop, `EdgesOK`
gives the edges of the rows already searched, `RoadOK` ties row bottom - 1 to the
clear road the image came with.  `BorderOK` is what a handler's search needs: it
paints no border, but the column 0 is black low down from the first search on and
no line makes it white again, so its longest column is black in no row it
searches.  `SearchesOK` keeps the handlers to frames on a roundabout, after the
searches of `ImageDeal`.  `CountOK` ties a count to the rows its search has covered, on the
right on top of `earlier`; `LostRowsCountedHolds` rests on it.  `BackOnRoadHolds` is
the longest argument: the two ends found from an arbitrary start include the
road's columns, so the longest white column is one of them, and then both
edges are the road's.

**FifoProofs, AssistantProofs.**  `FifoIsQueue` is the refinement: the invariant
places `head` at `end` plus the elements used, and each operation is shown to do
to `Contents` what `Queue` allows, wrapped or not.  `TailReadIsNewest` states when
the tail read is right: whenever it does not wrap.  `LinkIsQueue` repeats the
refinement for the FIFO as its caller uses it.  `InStepHolds` needs that the
bytes in the FIFO and the socket are the stream from the first frame not yet
applied, and that a peek under way shows exactly that frame (then its check sum
is right and it is taken out whole): for any frames, any FIFO that holds one.

**SteeringProofs.**  The invariant is `SteersByThisPicture` with the types of the
numbers (`SteerTypes`); `RowInPicture` gives the row looked at for every shift.
`TurnsAsSteeredHolds` shows that within
the range neither command wraps and the limits keep their order, for every speed,
goal and last error.  `HardTurnWraps` shows the other side: at a steering of 20000,
the limit of `Dis_Out`, the inner wheel's command wraps and drives it forwards at
full power.

What stays with TLC: everything temporal that needs fairness (`LineStops`,
`RampEnds`, `BypassEnds`, `StopReaches`, `GoalReturns`, `ExitEnds`,
`ServerEnds`, `Delivered`, `FramesArrive`), which is beyond the proof system.
Every other property of a passing run is a theorem.

## 8. Where the code and its text disagree

* `stop_server` (`ww_transmission.cpp:870-872`) sets `running` and broadcasts
  without `frame_mutex`.  A client between its test and `pthread_cond_wait`
  sleeps on with its socket open (`stop_release`).
* A signal other than SIGINT ends the process with the motors as they are
  (`init.cpp:91`); the first send to a browser that has gone raises one
  (`killed`).
* A save empties the only copy of the file before it writes (`flash.cpp:215`); a
  program ended in between starts with the defaults (`torn_save`).

## 9. Observations

Things the modelling showed that contradict no text of the repository, or no more
than a word of a comment:

* The run-out behind the line, the first part of a ramp and the entrance of a
  roundabout are measured from whatever `distance` holds (`image.cpp:4179`,
  `4387`, `1717`).
* A reset of an odometer by the main thread can be lost when the timer thread did
  not get its real-time priority: `GatesHold` fails with `RealTime = FALSE`.
* `Flag.Zebra_cross` stays 5 for ever, so a car launched again after the line is
  not stopped by the next one, and does not look for ramps.
* The stop key is read only while the car does not run (`main.cpp:131`).
* A picture that is never classified keeps the line and both roundabouts from
  being recognised.
* No call of `update_frame` is compiled in, so a browser that streams waits.
* When `bind` fails, `running` stays true without a server thread and a stale
  number stays in `server_sock_fd`.
* `Err_Sum` keeps its error of the last frame when `imgInfo.top` is 50 or more
  (`image.cpp:3196`).
* A server thread that outlives `stop_server` and the next `start_server` would
  close the new one's socket through the shared member
  (`ww_transmission.cpp:708`), and one whose number has been overwritten by a
  second start stays in `accept` after a stop.  With `Servers = {s1, s2}` TLC
  finds `WholeFrames`, `NoMissedFrame`, `FrameOrder`, `OnlyOwnersClose` and
  `NotLeftInAccept` violated.  The program starts its server once.
* From a middle in the columns 0 and 1 the search for the longest column may find
  column 0, which is then painted black; the frame is given up (`image.cpp:512`).
* The motor command is a float stored in an `int16_t` before it is limited
  (`main.cpp:35`).  In a hard turn the inner wheel's command lies below -32768;
  what the conversion gives is undefined in C++ and wraps in the build, so the
  inner wheel may be driven forwards.
* In a frame that shows the near mark, stage 3 of a roundabout may end on the yaw
  error of the roundabout before.
* A frame in which a side line is lost in its last rows and found again three
  rows above (`image.cpp:1717` and `1818`, `2252` and `2353`) takes a roundabout
  from stage 1 to stage 4 at once, on the yaw error of the roundabout before, if
  the timer thread counts `GateLen` while the handler runs.
* Stage 4 ends only in a frame that sees a turn between 251 and 259 degrees; a
  faster car jumps the window (`image.cpp:2004`).
* `fifo_read_tail_buffer` copies its second part from `head - length`, before the
  buffer when the data wrap (`zf_common_fifo.cpp:499`).  Nothing calls it.
* The assistant looks neither at the function code nor at the channel of a frame
  with a right check sum, so bytes that pass for a frame after a loss are applied,
  and may write beside the array of parameters.
* `straight_judge` reads the rows 12 to 36 (`image.cpp:1475-1530`) whatever the
  first row of the picture is: above it the lines of older pictures are judged.
* A corner in row `bottom - 5` makes `Buxian` divide by zero for a line to that
  row (`image.cpp:2802`): the column of the row is then undefined.  The steering
  does not look that low.
* `zf_driver_pit` never takes its exit flag back: a timer started again after a
  stop would not run, and its second stop would release nothing.
* The second search on the left lacks the bound of the one on the right
  (`image.cpp:673`, `719-721`) and may put the left edge beyond the right one.

* `Find_Sideline` resets the left count of lost rows and not the right one
  (`image.cpp:608`); `imgInfoInit` resets both, once per frame (`157`).  Each
  search of a roundabout handler therefore adds the rows lost on the right to
  those the searches before it had counted.  The test that ends a roundabout on a
  straight road wants the two counts equal (`2103`, `2631`): with rows lost on the
  right that were lost in an earlier search too it fails although as many are lost
  on the left.  `image.h:45` calls the field the number of lost right edges.  Asked
  whether the right count is the rows lost on the right after a handler's search,
  TLC answers with a frame of 12 steps.
* In the frame in which stage 4 of the left roundabout turns to 5 the handler
  zeroes the right count (`2010`) just before stage 5 reads it (`2035`): the line
  that is to be drawn whenever rows are lost on the right is not drawn in that
  frame.  The right roundabout does the same with the left count (`2538`, `2563`).
* `epoll_wait` that fails or is interrupted ends the timer thread
  (`zf_driver_pit.cpp:146-151`): the motors then keep what the last tick gave
  them.

## 10. What is not modelled

* In `LineSearch`: binarisation (the images are its result), `straight_judge`,
  the lines `Buxian` draws, which line a roundabout handler paints, what it draws
  straight into the edges, and the tests that move the stages (they are in
  `TrackElements`).  A middle on a roundabout is free for that reason.
* In `RunControl`: the numbers the controllers command (they are in `Steering`),
  the fan (its duty is 0 or 500 and steers nothing), a second Ctrl-C taken by
  another thread, and functions a handler should not call (`exit` from a handler,
  `malloc`).
* In `Steering`: what a controller multiplies by 0, the setters of the
  initialisation, the controllers nothing calls, the smoothing of the look-ahead
  (any of `Lookaheads` is taken).
* In `Transmission`: a `pthread_create` for a client that fails, texts, the local
  address, the rate estimate.
* In `ParamStore`: a power cut that loses finished writes of the kernel, and a
  file that exists and cannot be read (the code treats it as empty).
* In `Fifo`: the flag that refuses an operation nested in another (its callers
  come one after the other) and a read without a destination.  In `Assistant`: the
  sending half, which packs pictures and curves and keeps nothing.
* The red-block detector: at this commit the body of `DetectRedBlock` is
  commented out, so what `picture` sees is an input of `TrackElements`; the parts
  of it that still run leave nothing that is read.  The classifier is third-party
  code behind an interface.
* The TCP client's sending half, and the timer's error paths, as planned above.
* The attitude filter: a quaternion filter, numbers without a state machine; only
  the heading it hands to the roundabouts appears.
* Device and pin drivers, displays, fonts, number formatting: no state a property
  depends on.
* Third-party and generated files (`zf_components/tflm`, `zf_components/ncnn`, the
  arrays of `project/model`, the glyph tables, the copy of the libraries under
  `project/code/libraries`): they are most of the repository's lines, and none of
  them is this car's logic.  Of the program's own code in `project/user` and
  `project/code`, most of what is left is numeric image processing and the two
  functions nothing calls, `picture1` and `small_rock`.
