------------------------------- MODULE Viewer -------------------------------
(***************************************************************************)
(* The two ends that show the panel.  The gateway feeds every bus word to    *)
(* its framebuffer at once (firmware-esp32/src/pipeline.rs); the desktop     *)
(* viewer (host/src/main.rs, host/src/bus_decoder.rs) gathers transactions   *)
(* and replays each when the next command ends it.                          *)
(*                                                                         *)
(* The words are those of a panel driver whose commands may come at any      *)
(* time, or whose words got lost.                                           *)
(***************************************************************************)
EXTENDS PanelImage

CONSTANTS
  ColAddresses, RowAddresses,  \* environment: the addresses, as four parameter words
  Colours,                     \* environment: the colours painted
  MaxWords                     \* bound on a transaction's data words, per command

ASSUME ViewerConstants ==
  /\ ColAddresses \cup RowAddresses \subseteq [1..4 -> 0..(BYTE - 1)]
  /\ Colours \subseteq 0..(U16 - 1) /\ MaxWords \in [Commands -> Nat]
  \* No window ends in the last of 16 bits' columns, behind which no cursor turns.
  /\ \A p \in ColAddresses : Pair(p[3], p[4]) < U16 - 1

VARIABLES
  panel,     \* the panel's memory, and what a framebuffer fed word by word holds
  packed,    \* the bytes of the gateway's store behind it
  current,   \* BusDecoder's transaction in flight
  shown,     \* the viewer's framebuffer
  win_tracker,
  dumped,    \* the window the last command had dumped
  addressed  \* history: the address commands the viewer heard out

viewer == <<current, shown, win_tracker, dumped, addressed>>
viewerVars == <<panel, packed, viewer>>

NoFrame == [cmd |-> "none", data |-> <<>>]
NothingDumped == [done |-> FALSE]

ViewerInit ==
  /\ panel = NewFramebuffer(0) /\ packed = NewStore
  /\ current = NoFrame
  /\ shown = NewFramebuffer(0)
  /\ win_tracker = Window(0, 0, 0, 0)
  /\ dumped = NothingDumped /\ addressed = {}

-----------------------------------------------------------------------------
(* handle_frame. *)

\* A framebuffer that is fed the words of a sequence, one by one.
Fed(f, data) ==
  LET fed[k \in 0..Len(data)] == IF k = 0 THEN f ELSE FbData(fed[k - 1], data[k])
  IN  fed[Len(data)]

\* Mutant: only the data is replayed.
ReplayData(f, frame) ==
  IF frame = NoFrame THEN f ELSE Fed(f, frame.data)

Replay(f, frame) ==
  IF frame = NoFrame THEN f ELSE Fed(FbCommand(f, frame.cmd), frame.data)

\* WindowTracker::observe, an address command with all its words.
Observe(t, frame) ==
  LET byte(i) == frame.data[i] % BYTE
      from == Pair(byte(1), byte(2))
      to == Pair(byte(3), byte(4))
  IN  IF frame.cmd \notin {"2A", "2B"} \/ Len(frame.data) < 4 THEN t
      ELSE IF frame.cmd = "2A" THEN [t EXCEPT !.col_start = from, !.col_end = to]
      ELSE [t EXCEPT !.row_start = from, !.row_end = to]

\* Mutant: a write that fills the window more than once is dumped, too.
DumpLong(t, frame) ==
  LET w == Wrap(t.col_end - t.col_start + 1)
      h == Wrap(t.row_end - t.row_start + 1)
  IN  IF /\ frame.cmd = "2C"
         /\ t.col_end >= t.col_start /\ t.row_end >= t.row_start
         /\ Len(frame.data) >= w * h
      THEN [done |-> TRUE, x |-> t.col_start, y |-> t.row_start, w |-> w,
            pixels |-> frame.data]
      ELSE NothingDumped

\* observe, a MEMORY_WRITE that exactly fills the window.
Dump(t, frame) ==
  LET w == Wrap(t.col_end - t.col_start + 1)
      h == Wrap(t.row_end - t.row_start + 1)
  IN  IF /\ frame.cmd = "2C"
         /\ t.col_end >= t.col_start /\ t.row_end >= t.row_start
         /\ Len(frame.data) = w * h
      THEN [done |-> TRUE, x |-> t.col_start, y |-> t.row_start, w |-> w,
            pixels |-> frame.data]
      ELSE NothingDumped

HandleFrame(frame) ==
  /\ shown' = Replay(shown, frame)
  /\ win_tracker' = Observe(win_tracker, frame)
  /\ dumped' = Dump(win_tracker, frame)
  /\ addressed' = IF frame.cmd \in {"2A", "2B"} /\ Len(frame.data) >= 4
                  THEN addressed \cup {frame.cmd} ELSE addressed

-----------------------------------------------------------------------------
(* The bus. *)

\* BusDecoder::feed, and feed_run, of a command: the frame it ends is handled.
BusCommand(c) ==
  /\ panel' = FbCommand(panel, c)
  /\ current' = [cmd |-> c, data |-> <<>>]
  /\ HandleFrame(current)
  /\ UNCHANGED packed

\* The other copies of a run of commands end no frame.
CommandAgain ==
  /\ current # NoFrame /\ current.data = <<>>
  /\ panel' = FbCommand(panel, current.cmd)
  /\ UNCHANGED <<packed, viewer>>

\* What the driver may send next as data.
BusWords ==
  LET n == Len(panel.cmd.buf)
      Next4(params) ==
        {p[n + 1] : p \in {q \in params : \A i \in 1..n : q[i] = panel.cmd.buf[i]}}
  IN  CASE TakesPixels(panel) -> Colours
        [] TakesAddress(panel) -> Next4(IF panel.cmd.kind = "2A" THEN ColAddresses ELSE RowAddresses)
        [] OTHER -> {0}

BusData(w) ==
  LET place == <<panel.cursor_col, panel.cursor_row>>
  IN  /\ current # NoFrame => Len(current.data) < MaxWords[current.cmd]
      /\ panel' = FbData(panel, w)
      /\ packed' = IF TakesPixels(panel) /\ place \in Places
                   THEN SetPixel(packed, place[2] * WIDTH + place[1], w) ELSE packed
      /\ current' = IF current = NoFrame THEN NoFrame ELSE [current EXCEPT !.data = Append(@, w)]
      /\ dumped' = NothingDumped
      /\ UNCHANGED <<shown, win_tracker, addressed>>

ViewerNext ==
  \/ \E c \in Commands : BusCommand(c)
  \/ CommandAgain
  \/ \E w \in BusWords : BusData(w)

ViewerSpec == ViewerInit /\ [][ViewerNext]_viewerVars

-----------------------------------------------------------------------------
(* Properties. *)

\* After a command the viewer's framebuffer is what one fed word by word was
\* before it: pixels, registers and cursor, whatever was cut short, continued or
\* repeated (main.rs 586-598, bus_decoder.rs 33-70).
CatchesUp ==
  [][(\E c \in Commands : BusCommand(c)) => shown' = panel]_viewerVars

\* A dumped window is what the panel shows there, once the viewer heard both
\* addresses: before, its default window is not the panel's (main.rs 165-208).
DumpIsShown ==
  dumped.done /\ addressed = {"2A", "2B"} =>
    \A k \in DOMAIN dumped.pixels :
      LET place == <<dumped.x + ((k - 1) % dumped.w), dumped.y + ((k - 1) \div dumped.w)>>
      IN  place \in Places => panel.pixels[place] = dumped.pixels[k]

\* Between transactions the browser's picture is the viewer's, each colour
\* replaced by the palette's (lib.rs 87-121, 363-402, palette.rs 37-65, http.rs
\* 176-195).
PicturesAgree ==
  current.data = <<>> =>
    LET seen == RgbaPicture(shown)
    IN  BmpPicture(packed) = [k \in DOMAIN seen |-> PALETTE[Nearest(seen[k])]]
=============================================================================
