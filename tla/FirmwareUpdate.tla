---------------------------- MODULE FirmwareUpdate -----------------------------
(* The firmware update, supla_update.c: one HTTP request, whose answer is      *)
(* written to the other half of the flash sector by sector, checked against    *)
(* its signature, and booted.  Everything the update keeps is one record; the  *)
(* operators give its next value, and DevConn makes steps of them.             *)
(*                                                                             *)
(* The answer is a header of Header units and a file; one unit is as many      *)
(* bytes as one cares to tell apart.  TCP brings it in segments of any length. *)
EXTENDS Integers

CONSTANTS
  Sector,          \* SPI_FLASH_SEC_SIZE
  Header,          \* the length of the header of the answer
  Space,           \* the largest file the flash map has room for
  Segments,        \* how long segments may be
  Files,           \* how long the files may be that are offered
  UpdateDelay,     \* the 2 s from the answer of the server to the download
  UpdateTimeout    \* UPDATE_TIMEOUT, in ticks

ASSUME FirmwareAssumption ==
  /\ {Sector, Header, Space, UpdateDelay, UpdateTimeout} \subseteq Nat \ {0}
  /\ Segments \subseteq Nat \ {0}
  /\ Files \subseteq 0 .. Space + 1

(* image: the firmware that runs.  conn: "lost" when the name is not known,    *)
(* "dead" when the connection is half open, "gone" when it closed.  file: the  *)
(* length of the file, where 0 stands for an answer that is refused - not 200, *)
(* of another type, without a length.  sent: how much of the answer has come.  *)
(* got: downloaded_data_size, where Space + 1 means too much.                  *)
(* written: flash_awo - flash_addr.  whole: what came was taken in order.      *)
UpdState ==
  [image : {"old", "new"}, step : {"none", "check", "checking", "downloading"},
   window : 0 .. UpdateTimeout,
   conn : {"none", "delay", "resolving", "lost", "connecting", "open", "dead",
           "gone"},
   delay : 0 .. UpdateDelay + 1, file : Files \cup {0},
   sent : 0 .. Header + Space + 1, got : 0 .. Space + 1,
   buff : 0 .. Sector - 1, written : 0 .. Space, whole : BOOLEAN]

(* supla_esp_update_init                                                       *)
UpdInit(image, wanted) ==
  [image |-> image, step |-> IF wanted THEN "check" ELSE "none", window |-> 0,
   conn |-> "none", delay |-> 0, file |-> 0, sent |-> 0,
   got |-> 0, buff |-> 0, written |-> 0, whole |-> TRUE]

(* supla_esp_check_updates, which clears the wish in the flash                 *)
UpdCheck(u) == [u EXCEPT !.step = "checking", !.window = UpdateTimeout]

(* supla_esp_update_url_result for a file that exists                          *)
UpdStart(u) == [u EXCEPT !.conn = "delay", !.delay = UpdateDelay + 1]

(* supla_esp_update_started                                                    *)
UpdateStarted(u) == u.step \in {"checking", "downloading"} /\ u.window > 0

(* Nothing comes any more over a connection that is half open or gone: what    *)
(* has come until then plays no role.                                          *)
GivenUp(u, conn) ==
  [UpdInit(u.image, FALSE) EXCEPT !.conn = conn, !.step = u.step,
                                  !.window = u.window]

(* The station leaves its network: an open connection is half open from then.  *)
UpdLinkLost(u) == IF u.conn = "open" THEN GivenUp(u, "dead") ELSE u

Answer(u) == Header + u.file

--------------------------------------------------------------------------------
(* supla_esp_update_recv_cb                                                    *)

(* The header is complete with this segment.                                   *)
Matches(u, n) == u.sent < Header /\ u.sent + n >= Header

StepAfter(u, n) ==
  IF Matches(u, n) /\ u.file \in 1 .. Space THEN "downloading" ELSE u.step

(* How much of the segment is taken for the file.  The length of the whole     *)
(* header is subtracted from a segment that only ends it.                      *)
Taken(u, n) ==
  CASE StepAfter(u, n) # "downloading" -> 0
    [] Matches(u, n) /\ StepAfter(u, n) = "downloading" -> n - Header
    [] OTHER -> n

(* supal_esp_update_download: full sectors are written as they fill, the last  *)
(* one when the file is complete.                                              *)
LastSectorLeft(u, n) ==                                \* mutant of Downloaded
  LET filled == u.buff + n
  IN  [u EXCEPT !.got = @ + n, !.buff = filled % Sector,
                !.written = @ + filled - (filled % Sector)]

Downloaded(u, n) ==
  LET filled == u.buff + n
      rest   == IF u.got + n = u.file THEN 0 ELSE filled % Sector
  IN  [u EXCEPT !.got = @ + n, !.buff = rest, !.written = @ + filled - rest]

(* The record after the segment.  Where less is left than the header was long  *)
(* the length wraps and what lies behind the segment is written: how much that *)
(* is, compared with the file, is anybody's guess.                             *)
After(u, n) ==
  LET came  == [u EXCEPT !.sent = @ + n, !.step = StepAfter(u, n)]
      split == came.step = "downloading" /\ Matches(u, n) /\ u.sent > 0
      kept  == [came EXCEPT !.whole = @ /\ ~split]
      taken == Taken(u, n)
  IN  CASE taken < 0 -> {[kept EXCEPT !.got = g] : g \in 0 .. Space + 1}
        [] taken >= 0 /\ u.got + taken > Space ->
             {[kept EXCEPT !.got = Space + 1]}
        [] OTHER -> {Downloaded(kept, taken)}

(* The file is complete: it is verified, and the device restarts.              *)
Finished(u) == u.step = "downloading" /\ u.got = u.file

(* supla_esp_update_verify_and_reboot: the signature is right for the whole    *)
(* file as it was sent.                                                        *)
Verified(u, signed) == signed /\ u.whole /\ u.written = u.file

(* supla_esp_update_flash_write has something to write, and may fail for good. *)
Writes(u, n) == \E a \in After(u, n) : a.written # u.written
================================================================================
