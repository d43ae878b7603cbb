# A verification project for aq-lcd-grab

aq-lcd-grab taps the parallel bus between an air-quality monitor's
microcontroller and its display, streams what it sees to a reader, and rebuilds
the picture and the sensor values there.  This directory holds TLA+ models of the
code that has to get that stream right, the TLC runs that check them on small
instances, and proofs that TLAPS checks for every value of the constants.

`PROJECT.json` is the index: the components, the runs, which definition models
which lines, the hazards, the findings and the theorems.  This file explains them.

## The system

    WR edges on the display bus
      |  DMA (hardware)
    capture ring(s)         firmware/src/pio_capture.rs, firmware-stm32/src/capture.rs
      |  capture loop       firmware/src/main.rs, firmware-stm32/src/main.rs
    encoder                 wire/src/encoder.rs
      |  bytes, in a sink
    transport               a USB pipe (Pico), a DMA-drained UART ring (uart.rs)
      |  reads of any size
    decoder                 wire/src/decoder.rs
      |  samples and gaps
    framebuffer, glyph decoder, viewer (host/), MQTT and HTTP (firmware-esp32/)

Two boards capture (a Pico with PIO, an STM32 with a timer and two DMA channels);
two readers decode (a desktop viewer, an ESP32).  They talk in single command bytes
one way (START, STOP, STATS, LOG_TEST) and tagged frames the other way
(docs/wire_protocol.md).

| part | state it keeps | operations | who runs against it | what makes it correct |
|---|---|---|---|---|
| encoder | run in progress, up to two deferred runs, open frame | feed, flush, reset, started, stopped, log, overrun, tick | one caller; its output is read as it is pushed | the frames say exactly what was fed, in order, with gaps in place |
| decoder | partial frame buffer | feed, reset | reads cut the stream anywhere | the samples are those of the frames, whatever the cuts |
| UART ring | ring, head, tail, transfer in flight | push, kick | the DMA, between any two register reads | a FIFO of bytes; nothing stranded; push returns |
| STM32 capture | two rings' read indices, dropped count | fast_drain, hard_resync, read_available, take_dropped | timer, two DMA channels, IRQ, 10 ms timer | both halves of a sample from one edge; order; loss is marked |
| Pico capture | read position, dropped counts | drain, available, take_dropped | a DMA that never stops | exact until an overrun; loss is reported |
| capture loops | STOPPED/STREAMING, command queue | the loop body | USB tasks, commands | every START/STOP acknowledged; nothing left behind by STOP |
| host reader | sync state, wire decoder | sync, reader_loop | serial port timeouts | starts on a frame boundary; recovers from a desync |
| glyph decoder | active window, pending pixels, rows | feed, flush_each | - | a glyph is hashed over exactly its window |
| framebuffer | window, cursor, pixel store | feed, BMP export | web requests (ESP32) | pixel k of a window lands at its place |
| viewer | transaction in flight, window heard of last | feed, handle_frame, observe | - | its framebuffer catches up with the bus; a dumped window is what the panel shows |
| OTA upload | flash slots, otadata, reboot flag, shared hasher | POST /ota, the resets | other workers, dead peers, power loss | only a whole verified image is booted; the flash mutex comes free |
| other ESP32 tasks | latest values, pub/sub, log ring | uart, mqtt, http workers, wifi | each other, over async mutexes | keep-alive, settled values only, no lost lines |

## What is modelled

**WireFormat** is the vocabulary of the stream: one token per field the encoder
pushes, and `Read`, what a token means to a reader (the frame that is open, the
samples and gaps read so far, whether each frame obeys the protocol).  It is
translated from the decoder's parsers, one field at a time.

**WireEncoder** is `wire::Encoder`.  Its private functions are operators from
encoder to encoder (`CompleteRun`, `Window`, `DrainDeferred`, `GoIdle`, ...) and
its state is the Rust struct's: `run`, `deferred` (with `n_def` as its length) and
`state`.  `sink` holds the tokens of the current call and `reader` is the history
of what all tokens mean.  The actions are the calls the capture loops make: a
sample, an overrun, the idle flush, telemetry, START (which resets when stopped)
and STOP (which flushes when streaming).  A sample is an opaque value; the real
ones are masked to 18 bits and cannot equal the BLOCK sentinel.

**WireDecoder** is `wire::Decoder` over bytes that know which field they belong to
and which byte of it they are: `ParseOne` and its parsers, `Drain`, which does not
compact when a tag is bad, and `Receive`, which is `Decoder::feed`.  Their loops are
recursive functions of as many `Turn`s, or `Round`s, as there are bytes, the ones after
the loop's end changing nothing: each takes a byte at least.

**WireLink** composes the two through an in-order line that is read in chunks of
any size, until the decoder reports a desync, which ends the viewer's reader thread.  The
capture loop goes on while bytes are in flight, up to `LineCap`.  **SampleStream** is the
abstract promise: a FIFO of samples and gaps.  `StreamSpec` is that promise with `sent` mapped to what was fed and
`delivered` to what the decoder's events add up to.

**UartTx** is `UartSink`.  The CPU and the DMA interleave at register reads, so a
push is four steps (`PushCall`, `PushSpin`, `PushStore`, `PushKick`), each of which
sees the live count, and `DmaByte` is the hardware.  `KickDma` is one step because
the channel moves nothing between the test of its completion flag and its
re-arming.  A byte is named by its place in the order of pushes, which makes
"in order and once" a statement about numbers.

**Stm32Capture** is `Capture` and the capture loop.  An edge raises a request on
both channels (`Edge`), each channel serves its own (`Dma`), and `fast_drain` is its
register reads and copies: `ReadPa`, `ReadPb`, `CopySample`, `CopyDone`, or
`StopTimer` and `Resync` when the backlog is over half a ring.  The loop around it
is `Poll`, `Wake` (the IRQ's waker), `Expire` and `TimedOut` (the 10 ms timer, whose
expiry polls the ring once more), and then `Discard`, `Idle` or `Feed`,
`BurstOver` and `Report`.  Positions are counted without wrapping so that a sample
can be named by its edge; the code's indices are their remainders and every use
takes the remainder.

**PicoCapture** is `RingCapture::drain` and its loop: the write position is read in
`ReadFill`, which judges the fill level, and again in `ReadAvailable`, which counts,
and the DMA writes (`Edge`) between any two steps.

**UsbPipe** is the Pico's way to the viewer: `PipeSink` drops a byte when the pipe is
full, the TX task reads the pipe, tops a packet up, writes it and sends an empty
packet after a full one, and the host's driver completes its read request on a short
packet only.  **PicoSession** puts the two programs at its ends: the viewer's
`reader_loop` and `sync` with `drain_until_quiet` (`HostOpen`, `HostStop`, `HostDrain`,
`HostQuiet`, `HostRead`, `HostExit`), and the firmware's RX and capture tasks
(`RxCommand`, `TakeCommand`, `CapturePass`, `AfterYield`).  The tasks share an executor: while the
capture task is in a pass of its own, taking command after command (`InPass`), no other runs.
A pass that drains may report an OVERRUN and a TICK.  A byte carries the number of the viewer's
life that caused it, so that "bytes of this session" can be said.  Of the encoder
only the shape of its output is kept: a head, bodies that may be 0xFC, an end, and the
last sample held back.

**MqttTask** is the ESP32's publisher: one `select` over the VALUES channel, the
debounce deadlines and the ping, with the watchdog in the ping's branch.  Timers are
what is left of them; a tick passes only when no branch is ready or a ping or a publish waits.
`Empty` is the empty string, a reading like the others and the code's mark of nothing
published and nothing pending.  `panel`, `held` and `settled` are histories of what the panel
really showed, the last two kept until VALUES loses a message; `held` is off before a row's
first repaint.

**PanelBus**, **Framebuffer** and **GlyphDecoder** are the readers' two consumers of
the panel's bus.  Both frame it alike, each with registers of its own.  `Framebuffer`
is a function from places to colours with a 16-bit cursor (`WritePixel`, `Advance`);
`GlyphDecoder` is the window being hashed (`OpenWindow`, `PushPixel`, `Match`), the rows
(`Insert`, `Value`) and `Flushed`.  A hash is the run lengths it is computed from.
**Display** feeds both as `Pipeline::feed` does: `Command`, `Data` and `FlushEach`.  The
words are a panel driver's, but a command may come at any time, so that addresses and
windows stay incomplete, overrun or are continued.  `screen` is the history of the matched glyphs
column by column, `crowded` the rows that were once too full for one (`insert` then drops it).

**PanelImage** is what is made of a framebuffer: the gateway's store of palette indices, two
to a byte (`Nearest`, `SetPixel`, `IndexAt`), the body of `/fb.bmp` in its chunks (`Bmp4Pixels`,
`BmpBody`) and the viewer's RGBA picture.  **Viewer** runs the gateway's framebuffer, fed word by
word, beside the viewer's: `BusDecoder` gathers a transaction (`BusData`), the next command hands it
over (`BusCommand`; `CommandAgain` is `feed_run` collapsing a run of equal commands), and
`HandleFrame` replays it and lets the `WindowTracker` see it (`Observe`, `Dump`).

**OtaUpdate** is `POST /ota` with its concurrent workers.  A worker's place between two awaits is
`worker[w].at`; the code after the signature has no await, so `cpu` keeps the other workers out
between its flash operations (`EraseTail`, `Activate`, `SetState`), each of which may fail, and
between any two of which the power may (`PowerFails`).  A chunk of the upload fills one
sector, which holds the chunk or garbage; a signature is good when what was hashed is a signed
image.  `Reply`, `SoftwareReset` and `RebootTask` (reboot.rs) are the ways to the next `Boot`.
The updater's and the bootloader's parts (`NextPartition`, `Boot`) are external: the next slot is
the one that is neither selected nor running, and either of the two once these differ.

Environment assumptions, each named in its module:

* the STM32's ring is never lapped between two drains (`MaxLag`; `fast_drain` says it
  trusts this), the requests of an edge are served before the next edge, and stopping
  the counter stops the requests and clearing the flags withdraws those not served (as
  `hard_resync`'s comments say);
* before the first resync the Pico's ring is not lapped;
* the Pico answers within one read timeout of the viewer (`HostQuiet`): a pass that takes
  longer, as sustained capture can cause, would let old bytes into the new session;
* the VALUES channel gets at most `Burst` messages in a tick of the MQTT task;
* glyph templates are more than a pixel wide and high (`DecoderConstants`; they are
  11x11, 32x42 and 40x61).  TLC showed why it matters: the decoder's registers start at
  0, the framebuffer's at the whole panel, and a one-pixel template would match in that
  default window something the framebuffer shows elsewhere;
* in `display` the painted windows lie on the panel (`ColParams`, `RowParams`); in `viewer`
  they may be inside out or reach beyond it, but no window ends in the last of the 16 bits' columns
  (`ViewerConstants`, see below);
* the palette begins with black and the panel's and a chunk's number of pixels are even
  (`ImageConstants`; both hold of palette.rs and of the 320x480 panel and its chunks of 4096);
* a flash operation either takes effect, fails without one, or, when the power fails within
  it, leaves its sector (or the entry of otadata it was writing) unreadable.

## Runs

| run | question | bounds |
|---|---|---|
| `link` | do the frames say what was fed, and does the link implement a FIFO for every cut of the stream? | 3 values, 6 samples and gaps, MAX_RUN 3, MAX_REPEAT2_LEN 2, 2-byte words, buffer of 13 bytes, at most 1 byte in flight (LineCap) at a call: a capped run, an overlong run in an open REPEAT2, three-run confirmation and window slides happen, every field is cut at every byte, a BLOCK of 5 samples fits the buffer and one of 6 does not |
| `uart` | order, exact free count, no stranded byte, no stuck push | ring of 8, 20 bytes: the ring fills and wraps twice |
| `stm32_capture` | pairing, order, loss marked, the tail of a burst drained | rings of 4, chunks of 1, 6 edges, fair loop: a resync after samples, samples after a resync, a wrap |
| `pico_capture` | exact until an overrun, and is a loss reported? | ring of 16, chunks of 2 (the code's ratio 8:1), 20 edges, fair loop: several resyncs and re-reads |
| `pico_session` | does the handshake cut the sessions apart? | 2 viewers, pipe of 3 bytes, packets of 2, 2 frame bodies, 1 report: the first viewer dies mid-stream, the pipe overflows in a frame and on an ack, stale frames hold a 0xFC |
| `pico_session_live` | does the handshake end, and does every byte arrive? | the same with 1 viewer, fair tasks: full packets, empty packets and top-ups happen |
| `mqtt` | are only settled readings published, and all non-empty ones that stand? | 2 sensors, a good, a malformed and the empty reading, DEBOUNCE 1 tick, a one-message channel that loses, 1 message a tick, reconnects and reboots: a reading changes before its tick, while it is published and while a ping waits |
| `display` | is what is hashed what is shown, and are a row's slots the visible glyphs? | 4x2 panel, 3 overlapping 2x2 windows, 2 glyphs and unmatched ones, 2 colours below a background line: cut, continued, overrun and partly painted-over windows all happen |
| `ota` | while `clean`, is what boots a whole verified image, and do the mutex and the flag come free? | 2 workers, slots of 3 sectors, a signed image with a tail to erase, an unsigned, an oversized and an empty one: concurrent uploads, every failure and power loss at every step |
| `viewer` | does the delayed replay catch up, is a dump what the panel shows, do the pictures agree? | 2x2 panel, 3 column and 1 row addresses, 2 colours (one near the palette's, one in the misc slot), writes of 3 words, chunks of 2 pixels |

`display` never fills a row: 2 slots fit side by side and MAX_DIGITS_PER_ROW is 2.  In
the code at most 5 digits of 32 or 40 pixels start in a row 155 pixels wide; only dots
could fill its 8 slots.  The theorem about `SlotsAreVisible` covers full rows.

`link` and `viewer` stop for good where the code does or where the bounds end (CHECK_DEADLOCK
FALSE in `link`: the reader thread ends at a desync).  `link`'s bounds are small for the encoder
alone, whose five invariants are proved for all of them.

The other runs are expected to be violated; each is a finding of `PROJECT.json`:

* `pico_count`: after an overrun the Pico delivers the very samples it counted as
  dropped, and older ones again.
* `mqtt_watchdog`: readings that keep arriving put off the ping, and with it the
  watchdog that is to reboot a board stuck on a malformed value.

Seen while modelling, and in the models, but without a run:

* On the STM32 the OVERRUN of a resync found while polling follows samples captured
  after the gap (`Report`), and a resync on a bus that then falls silent is never
  reported (`Idle` leaves `dropped` alone).
* The STOPPED ack is dropped like a data byte when the Pico's pipe is full (`Push`), and
  the viewer's handshake then fails.  `OwnLossOnly` states how far the harm goes.
* The viewer ends on a desync (host state `"desynced"`), where docs/wire_protocol.md says
  the host repeats the handshake.
* The decoder's comment says that a 0x3C keeps the pending window
  (decoder/src/lib.rs 241-244); the `finalise_cmd` above it has dropped it
  (`FinaliseCmd`), so a glyph painted in two parts is not seen.
* The pings starve as the watchdog does.
* A BLOCK or REPEAT2 longer than the decoder's buffer (a BLOCK of 255 samples exceeds the 1024
  bytes) is reported as a desync, though the decoder's documentation says such a frame is
  split across events (wire/src/decoder.rs 11-13).  `OnlyLongFramesBad` says that nothing else is.
* After the OTA's reboot flag is set `no second upload can sneak in during the drain`
  (firmware-esp32/src/http.rs 452-453); one that had passed the test of the flag and waited for the flash
  lock does (`Request`, then `TakeFlash`).  What it may overwrite depends on the slot the updater
  calls the next one, so `BootsVerified` holds only while `clean`: every upload so far began with
  the selected slot running.  An upload after a failed `set_current_ota_state` ends `clean` too: the
  slots are switched, and the flag is not set.
* The viewer's `WindowTracker` starts with the window 0..0 and the panel with the whole screen, so a
  one-pixel write before the first addresses is dumped as the corner's; `DumpIsShown` begins with
  both addresses heard.  An address of 0..0xFFFF makes its `col_end - col_start + 1` overflow.
* The framebuffer's cursor turns when `cursor_col += 1` passes `col_end` (framebuffer lib.rs 218-219).
  In a window that ends in column 0xFFFF nothing passes it: the addition overflows, which a debug
  build traps and a release build wraps to column 0.  The proof of `DumpIsShown` needed the
  assumption, and no driver of this panel addresses such a column.
* The kick inside `UartSink::push`'s spin is not what ends it: a full ring always has a
  transfer armed, and the kick does something only if that ends between the spin's reads of
  the count and of the TC flag (`PushFull`, `PushSpin`).
* In the MQTT task the empty string is a reading, of a row whose rightmost slot is `blank`
  (decoder/src/lib.rs 299-313), and also `nothing pending` and `nothing published yet` (mqtt.rs 213-219).
  So a row that is erased while nothing is pending is not staged and the old value stays published
  (`Stage`'s last case), but one erased while a change is pending takes its place and is published as an
  empty payload.  `Converges` speaks of the non-empty readings only; `NoTransients` of both.

Fairness.  The reader keeps reading (`host`'s loop never blocks on anything but the
port).  The UART's DMA runs while armed, a push in progress continues and the
capture loop kicks once per iteration.  The STM32's channels serve their requests,
its loop goes on, and the timer of its `select` fires.  The Pico's executor runs its
three tasks, the USB host polls and an open viewer goes on with its calls.  The MQTT
task runs, time passes, and the panel repaints every row again and again, as its
drivers do, and not always just while the task waits for the network: repaints come many times a
second, pings every 30 s (TLC showed that a row whose repaints come only then can lose
every message).  An HTTP worker that can go on does, and its read of a body ends by the
timeout at the latest (`config`), whatever the client does; `RebootComes` adds the 72-hour timer, which
`FlashReleased` must do without.  Edges, samples, uploads, commands and viewers are never assumed to come or to go.

Every property has a mutant in the module it guards (`\* Mutant:` in the
sources): a variant of one definition with a plausible bug.

## Proofs

**WireLinkProof** proves, for every set of samples, every MAX_RUN and
MAX_REPEAT2_LEN with MAX_REPEAT2_LEN < MAX_RUN and every number of calls, all five
invariants of `WireEncoder`.  None is inductive: what the stream says depends on the
reader's open frame being the encoder's, on the parity of an open REPEAT2, on no
run being held back while a REPEAT2 is open, and on neighbouring runs having
different values unless the first reached MAX_RUN.  The strengthening says so, each private function of the encoder has a
lemma with its contract, and `Inductive` composes them.

It then proves that the link is a FIFO, whatever the buffer, the field widths, the line and the
cuts: `EndsAgree`, `OnlyLongFramesBad` and the refinement `StreamSpec`.  A byte stream is seen
as the tokens it was pushed as, each with its reader before and after and its first position
(`Trace`); it leads (`Flows`) from what was delivered to where the encoder's reader is.
A call of the capture loop puts behind it what its reader followed (`TransmitKeeps`).  The heart
is `FrontParses`: `ParseOne` of any number of first bytes of such a stream takes a whole
frame, after which the rest still leads there, or waits.  A turn of `drain`, a
drain, a round of `feed` and a feed keep that in turn (`TurnKeeps`, `DrainKeeps`,
`RoundKeeps`, `ReceiveKeeps`), which makes `LinkInv` inductive.  It holds while the decoder has
reported nothing, and what it can report is a frame that fills its buffer.  Where a
statement is about every position (the words of a BLOCK, the lengths of a REPEAT2, the
turns of a loop) the least position that would break it gives the contradiction (`FromTo`).

**UartTxProof** proves `TypeOK`, `InOrder` and `RingHoldsUnsent` for every ring size
above 1.  Its invariant places head, tail and the transfer in flight
among the absolute positions of the bytes, and says that each slot between them
holds the byte of its position.

**OtaUpdateProof** proves `TypeOK` and `BootsVerified` for any number of HTTP workers, any
slot size and any set of images.  `BootsVerified` is guarded by `clean`: it says nothing of what
follows an upload that waited through another's commit, or one after a failed
`set_current_ota_state`, when the code may overwrite what boots.  Neither is inductive: the strengthening
follows the one upload under way, the flash mutex holder's.  Its slot is not the
running one and, until `Activate`, not the selected one; the sectors it has
written are its image's; behind the signature they are all of a signed
image.  It needs neither the hasher nor the executor's turns.  `OtaConstants` assumes that the
factory image is signed and fits a slot.

**Stm32CaptureProof** proves `TypeOK`, `Paired`, `InOrder` and `LossMarked` for any ring, chunk, number of
edges and of sessions.  A request that is raised and not yet served counts as the sample
it will become: seen like that both rings hold the same edges, in rising order, at the same
distance from their read indices, whichever channel is ahead.  `Edge` adds one to
both, `Dma` changes nothing, a copy takes the same number from both, and a resync, with
the timer stopped, leaves both empty, though their positions may differ from then on.  It
assumes what `fast_drain` does, that the DMA never laps the reader (`MaxLag`).  For `LossMarked`
(`Holes`) the rings hold the last edges without a hole, and the samples in hand and the last
one fed follow on them.  A hole can open only at a resync, which counts what it drops; from
then on a Gap is owed (`Owing`), until `Report` makes it one behind the hole (`Marked`) or STOP ends the session.

**PicoCaptureProof** proves `TypeOK` and `ExactUntilOverrun` for any ring, chunk and number of
edges.  Reader and writer get absolute positions less than a ring apart; so the masked
difference of the two reads is their distance, and each slot between them holds its
position's sample while the copy goes on.

**PicoSessionProof** proves `TypeOK`, `FreshStart` and `OwnLossOnly` for any pipe, packet, read
request and command channel, any number of viewers and any bounds.  The USB
pipe, the packet being filled, the one on the bus, the driver's request and the tty are one FIFO
(`InFlight`), in which each task moves bytes on.  The invariant follows a session from its STOP
to its last byte: the commands under way will stop the encoder (`StopComes`) and an ack
is then in flight or lost (`AckComes`); when the drain meets quiet nothing is in flight
(`PacketsEnd`: whatever waits in the driver has a short packet coming); behind that all that is in
flight is the session's own, and unless one of its bytes was lost it is framed as the decoder takes
it (`Framed`).  That the Pico answers within a read timeout is `HostQuiet`'s guard, and assumed.

**MqttTaskProof** proves `TypeOK` and `NoTransients` for any rows, readings, times, channel capacity and
message rate.  The empty reading is one of them, so it is the timer and not `pending` that says whether
a row has something pending: one that runs has a reading other than the published one.  While
VALUES holds no message of another reading, the panel shows
the pending one and has for as long as its timer ran; while it holds one the timer is
void, for a message is received before the timers are looked at.  That order of the select's
branches is what the property rests on: a publish may let both pile up.

**PanelProof** proves `TypeOK`, `SlotsAreVisible`, `ChangeIsDirty` and `HashedIsShown` for any panel,
templates, rows and row capacity.  A row's slots are in order and do not overlap; taking out those a new
glyph overlaps keeps that (`KeptIs`), and the first slot not left of the glyph parts the
rest (`PositionParts`), so the insertion is in order again and holds what it should
(`InsertIs`).  Painting a glyph hides exactly what it overlaps (`PaintShows`).  The
strengthening (`IInv`) keeps an open window on the panel and one pixel short of full, so that
what it matches is one glyph, in one row, at columns the panel has (`MatchIs`).
`HashedIsShown` rests on a second strengthening (`SInv`).  The two readers set their window
registers by the same words, so they agree unless the decoder's were never set (`RegsOK`), when no
glyph is that small; an open window is thus the framebuffer's, whose cursor is where the
window's next pixel goes (`CursorOK`, from division with remainder: `NextPlace`, `LineOf`).  The
pixels go to different places (`PlacesDiffer`), so those painted before stay (`PixelsOK`), and
each lies in a run of its parity (`PushRuns`, from how a run's end moves with one more pixel:
`LongerRun`, `AnotherRun`).  The proofs assume that columns are addressed within the panel
(`DisplayConstants`), that the rows are disjoint and that a glyph is wider and higher than one pixel
(`DecoderConstants`).

The same module proves `DumpIsShown`, `CatchesUp` and `PicturesAgree` for any panel, palette, addresses,
colours and length of a transaction.  Its invariant (`VInv`) says that the panel is the viewer's
framebuffer with the transaction in flight replayed into it; one word more is one `FbData`
more (`FedOneMore`), so both ends move alike, and a finished transaction leaves nothing to replay.
What the framebuffer is in the middle of is told by that transaction (`FramedIs`); once both addresses were heard,
the tracker's window is the framebuffer's (`RegistersHeard`); and the first pixels of a write, as many as the
window has, stay at their places, for each place is taken once (`Spot`, `SpotsDiffer`, `Written`).
For the pictures each pixel's nibble of the store holds the index of its colour (`SetPixelIs`,
`StoreOK`; the store's zeros are black's index, `NearestBlack`), and the chunks of the response, one
after the other, are the cells from the first to the last (`BodyIs`).  The folds over words
and chunks are recursive functions; what they compute is unfolded by the least number that would break it
(`UpTo`), which the provers can use where an induction theorem's operator parameter stops them.
These theorems use `ViewerConstants` and `ImageConstants`, and none of the glyph decoder's assumptions.

Only model-checked: everything about liveness, which is beyond the prover.  Every safety
property that a passing run checks, invariant or action property, is also a theorem.

## Not modelled yet, and the plan

Done: the stream from the encoder to the decoder, the UART, both capture paths, the
Pico's sessions with the viewer, the MQTT task, framebuffer and glyph decoder, the viewer's framing,
the exported pictures, OTA uploads.

Next, in this order:

1. The ESP32's side of the stream: the UART task's handshake without an ack, a DMA ring that is
   lapped while a picture response holds the framebuffer's lock, a pipeline that goes on after a
   desync (and the frames a `BadTag` leaves in the decoder's buffer), the STM32's command loop at
   its other end.  After a desync what the gateway reads is garbage until chance ends it, so little can be
   promised there.
2. The log ring and its readers: sequential but for the one signal the readers share.

The number of runs is kept to a dozen: a later module's run takes the place of a
violated one, whose finding then moves to the list above.

Left out for good: the GUI, image templates and build scripts, the port permutations (a fixed choice
of bits, and samples are opaque here), the picotool reset request, and the PCB's files.
