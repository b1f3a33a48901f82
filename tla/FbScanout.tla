----------------------------- MODULE FbScanout -----------------------------
(***************************************************************************)
(* rtl/sun2-common/fb_scanout.sv: the frame buffer on a screen.  The pixel  *)
(* side walks the screen and shows one half of a ping-pong line buffer; the *)
(* memory side fills the other half, told by two toggles when a frame and a *)
(* line begin.  Nothing comes back the other way: the two keep in step only *)
(* because a fetch takes less than a line, so `late` records whether it did *)
(* since the frame began, and what must hold of the picture holds unless it *)
(* is set.                                                                  *)
(*                                                                          *)
(* What a beat holds is known by where it was fetched from: <<row, beat>>.  *)
(* The order of the pixels in a beat is in ByteLanes.                       *)
(***************************************************************************)
EXTENDS Integers

CONSTANTS
  BEATS_PER_LINE, BEAT,       \* beats of a line, pixels of a beat
  FB_H, X0, Y0,               \* the picture's height, and where it starts
  TotalW, TotalH,             \* the generator's counts, blanking included
  FetchRows                   \* what fetch_row counts modulo, 2**11

ASSUME ScanAssumption ==
  /\ BEATS_PER_LINE \in Nat \ {0} /\ BEAT \in Nat \ {0, 1} /\ FB_H \in Nat \ {0}
  /\ X0 \in Nat \ {0, 1, 2} /\ Y0 \in Nat \ {0}
  /\ TotalW \in Nat /\ TotalW >= X0 + BEATS_PER_LINE * BEAT
  /\ TotalH \in Nat /\ TotalH >= Y0 + FB_H
  /\ FetchRows \in Nat /\ FetchRows > FB_H

VARIABLES
  cx, cy, vs_tgl, ls_tgl, pixbuf, nextbuf, p, bidx,     \* clk_pixel
  vs_s, ls_s, fetch_row, fetch_beat, fetching,          \* ui_clk
  linebuf,
  flight, c_done, c_rdata,                              \* mig_arb, seen from here
  late                                                  \* a fetch has outlasted its line

pixel == <<cx, cy, vs_tgl, ls_tgl, pixbuf, nextbuf, p, bidx>>
ui    == <<vs_s, ls_s, fetch_row, fetch_beat, fetching, linebuf, flight, c_done, c_rdata>>
scanvars == <<pixel, ui, late>>

FB_W  == BEATS_PER_LINE * BEAT
Beats == 0 .. BEATS_PER_LINE - 1
Places == (0 .. FetchRows - 1) \X Beats
Junk  == <<>>
None  == <<>>
-----------------------------------------------------------------------------
in_y   == cy >= Y0 /\ cy < Y0 + FB_H
in_x   == cx >= X0 /\ cx < X0 + FB_W
fb_row == cy - Y0

rdbuf == fb_row % 2

\* Everything the last toggle asked for is over.
Crossed == vs_s = <<vs_tgl, vs_tgl, vs_tgl>> /\ ls_s = <<ls_tgl, ls_tgl, ls_tgl>>
Settled == Crossed /\ ~fetching /\ flight = None /\ ~c_done

frame_starts == cx = 0 /\ cy = 0
line_starts  == cx = 0 /\ in_y

prime_late == cx = X0 - 2
\* The one read port is aimed at beat 0 two clocks before it is wanted.
prime == cx = X0 - 3

\* An edge of clk_pixel.  Past the last beat the read port shows a word of the
\* line buffer nobody looks at.  A toggle crosses in a few clocks, where a line
\* takes a thousand: that much is assumed of the two clocks, and no more.
PixClk ==
  /\ frame_starts \/ line_starts => Crossed
  /\ cx' = (cx + 1) % TotalW
  /\ cy' = IF cx' = 0 THEN (cy + 1) % TotalH ELSE cy
  /\ vs_tgl' = (vs_tgl # frame_starts)
  /\ ls_tgl' = (ls_tgl # line_starts)
  /\ nextbuf' = IF bidx \in Beats THEN linebuf[<<IF in_y THEN rdbuf ELSE 0, bidx>>] ELSE Junk
  /\ CASE prime /\ in_y ->
            bidx' = 0 /\ UNCHANGED <<pixbuf, p>>
       [] ~prime /\ cx = X0 - 1 /\ in_y ->
            pixbuf' = nextbuf /\ bidx' = 1 /\ p' = 0
       [] in_x /\ in_y /\ p = BEAT - 1 ->
            pixbuf' = nextbuf /\ bidx' = bidx + 1 /\ p' = 0
       [] in_x /\ in_y /\ p < BEAT - 1 ->
            p' = p + 1 /\ UNCHANGED <<pixbuf, bidx>>
       [] OTHER -> UNCHANGED <<pixbuf, bidx, p>>
  /\ late' = IF frame_starts THEN ~Settled
             ELSE late \/ (line_starts /\ ~Settled)
  /\ UNCHANGED ui
-----------------------------------------------------------------------------
vs_pulse == vs_s[2] # vs_s[3]
ls_pulse == ls_s[2] # ls_s[3]

last_beat == fetch_beat = BEATS_PER_LINE - 1

fetch_row_next == (fetch_row + 1) % FetchRows

Cross(s, tgl) == {<<first, s[1], s[2]>> : first \in {s[1], tgl}}

Fetch ==
  CASE vs_pulse ->
         fetch_row' = 0 /\ fetch_beat' = 0 /\ fetching' = TRUE
    [] ~vs_pulse /\ ls_pulse ->
         fetch_row' = fetch_row_next /\ fetch_beat' = 0 /\ fetching' = (fetch_row_next < FB_H)
    [] ~vs_pulse /\ ~ls_pulse /\ fetching /\ c_done ->
         /\ fetching' = ~last_beat
         /\ fetch_beat' = IF last_beat THEN fetch_beat ELSE fetch_beat + 1
         /\ UNCHANGED fetch_row
    [] OTHER -> UNCHANGED <<fetch_row, fetch_beat, fetching>>

FillLineBuffer ==
  linebuf' = IF fetching /\ c_done
             THEN [linebuf EXCEPT ![<<fetch_row % 2, fetch_beat>>] = c_rdata] ELSE linebuf

Port_eager ==
  \/ /\ flight = None
     /\ flight' \in IF fetching THEN {None, <<fetch_row, fetch_beat>>} ELSE {None}
     /\ c_done' = FALSE /\ UNCHANGED c_rdata
  \/ /\ flight # None
     /\ \/ UNCHANGED <<flight, c_rdata>> /\ c_done' = FALSE
        \/ flight' = None /\ c_done' = TRUE /\ c_rdata' = flight

\* The arbiter takes the address a request shows, and answers for that address
\* whatever becomes of the request.
Port ==
  \/ /\ flight = None
     /\ flight' \in IF fetching /\ ~c_done THEN {None, <<fetch_row, fetch_beat>>} ELSE {None}
     /\ c_done' = FALSE /\ UNCHANGED c_rdata
  \/ /\ flight # None
     /\ \/ UNCHANGED <<flight, c_rdata>> /\ c_done' = FALSE
        \/ flight' = None /\ c_done' = TRUE /\ c_rdata' = flight

\* An edge of ui_clk.
FetchClk ==
  /\ vs_s' \in Cross(vs_s, vs_tgl) /\ ls_s' \in Cross(ls_s, ls_tgl)
  /\ Fetch
  /\ FillLineBuffer
  /\ Port
  /\ UNCHANGED <<pixel, late>>
-----------------------------------------------------------------------------
\* The generator's counters start a screen; no line has been fetched.
ScanInit ==
  /\ cx = 0 /\ cy = 0 /\ vs_tgl = FALSE /\ ls_tgl = FALSE
  /\ pixbuf = Junk /\ nextbuf = Junk /\ p = 0 /\ bidx = 0
  /\ vs_s = <<FALSE, FALSE, FALSE>> /\ ls_s = <<FALSE, FALSE, FALSE>>
  /\ fetch_row = 0 /\ fetch_beat = 0 /\ fetching = FALSE
  /\ linebuf = [s \in {0, 1} \X Beats |-> Junk]
  /\ flight = None /\ c_done = FALSE /\ c_rdata = Junk
  /\ late = TRUE

ScanNext == PixClk \/ FetchClk

ScanSpec == ScanInit /\ [][ScanNext]_scanvars
-----------------------------------------------------------------------------
ScanTypeOK ==
  /\ cx \in 0 .. TotalW - 1 /\ cy \in 0 .. TotalH - 1
  /\ p \in 0 .. BEAT - 1 /\ bidx \in 0 .. BEATS_PER_LINE + 1
  /\ fetch_row \in 0 .. FetchRows - 1 /\ fetch_beat \in Beats
  /\ linebuf \in [{0, 1} \X Beats -> Places \cup {Junk}]
  /\ flight \in Places \cup {None}

\* What is on the screen is the frame buffer: every visible pixel comes from
\* its own place in its own row (fb_scanout.sv 115-150, 213-218).
PictureTrue ==
  in_x /\ in_y /\ ~late =>
    pixbuf = <<fb_row, (cx - X0) \div BEAT>> /\ p = (cx - X0) % BEAT

\* While the memory keeps up it is asked for each beat of the picture once a
\* frame, in order: a done always belongs to the beat now being fetched.
BeatForBeat == ~late /\ fetching /\ c_done => c_rdata = <<fetch_row, fetch_beat>>
=============================================================================
