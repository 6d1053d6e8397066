------------------------------- MODULE Request ------------------------------
(***************************************************************************)
(* What one client sees of request.c: its requests one after another, the  *)
(* bytes that are received, stored and sent for each in pieces of any      *)
(* size, the errors on the way, the status page, and whether the           *)
(* connection is kept.  Which thread runs a handler is in Worker and what  *)
(* happens to the items in Server: here a lookup or a store just succeeds  *)
(* or not.  A stored item is a header, whose first StatusLine bytes are    *)
(* the status line and Content-Length, and a body; its bytes are numbered. *)
(***************************************************************************)
EXTENDS Integers, SequencesExt

CONSTANTS
  BodyLengths,              \* lengths of bodies
  RangeEnds,                \* numbers in a Range header
  SsizeHalf,                \* 2^63: an ssize_t is less, and at least -SsizeHalf
  Uint32Size,               \* 2^32: what item->length can tell apart
  StatusLine, HeaderLength  \* http_make_200_response_header, put_header_length

ASSUME RequestAssumption ==
  /\ SsizeHalf \in Nat \ {0} /\ Uint32Size \in Nat \ {0}
  /\ BodyLengths \subseteq 0 .. SsizeHalf - 1 /\ RangeEnds \subseteq Nat
  /\ StatusLine \in Nat /\ HeaderLength \in Nat /\ 0 < StatusLine /\ StatusLine < HeaderLength

VARIABLES
  handler,             \* the handler that runs next
  req,                 \* the request
  http_code, keepalive, connection_broken, disk_error, process_size,
  item,                \* is r->item set?
  range,               \* range_start and range_end
  unread,              \* bytes of the body that are still on the socket
  output,              \* what was sent: numbers of bytes of the item, -code for a page
  disk                 \* which byte of a PUT is at each place of its block, -1: none

requestVars == <<handler, req, http_code, keepalive, connection_broken, disk_error, process_size,
                 item, range, unread, output, disk>>

RANGE_NO_SET == -1

NoRange == [start |-> RANGE_NO_SET, end |-> RANGE_NO_SET]

(* What arithmetic on ssize_t makes of a number that is not too small: the   *)
(* build wraps around.                                                       *)
ssize_t(n) == IF n < SsizeHalf THEN n ELSE ((n + SsizeHalf) % (2 * SsizeHalf)) - SsizeHalf

(* The digits of a range that is written x are added up in an ssize_t each.  *)
http_parse_get_range(x) == [start |-> ssize_t(x.start), end |-> ssize_t(x.end)]

Accepted(y) ==
  y # NoRange /\ (y.start = RANGE_NO_SET \/ y.end = RANGE_NO_SET \/ y.start <= y.end)

(* The ranges that may be written; several in one header count as none.      *)
Written ==
  LET Mark == RangeEnds \cup {RANGE_NO_SET}
  IN  {x \in [start : Mark, end : Mark] : Accepted(http_parse_get_range(x))} \cup {NoRange}

(* What http_request_parse accepts.  length: of the body of the item.        *)
(* ignored: bytes of a body that comes with a method whose headers do not    *)
(* include Content-Length.  extra: bytes that the client sends after the     *)
(* declared body.                                                            *)
Parsed ==
  [method : {"GET", "HEAD"}, length : BodyLengths, ignored : {0, 1}, extra : {0}, range : Written]
  \cup [method : {"PUT"}, length : BodyLengths, ignored : {0}, extra : {0, 1}, range : {NoRange}]
  \cup [method : {"DELETE"}, length : {0}, ignored : {0, 1}, extra : {0}, range : {NoRange}]

NoRequest == [method |-> "DELETE", length |-> 0, ignored |-> 0, extra |-> 0, range |-> NoRange]

ItemLength == HeaderLength + req.length

RequestInit ==
  /\ handler = "read_request_header" /\ keepalive = TRUE /\ connection_broken = FALSE
  /\ disk_error = FALSE /\ item = FALSE /\ process_size = 0 /\ http_code = 0
  /\ req = NoRequest /\ range = NoRange /\ unread = 0 /\ output = <<>> /\ disk = <<>>

(* A kept connection, or a new one: request_process_entry resets as well.    *)
(* What is left unread is parsed as the next request, whatever it may be.    *)
request_reset ==
  /\ handler' = "read_request_header" /\ keepalive' = TRUE /\ connection_broken' = FALSE
  /\ disk_error' = FALSE /\ item' = FALSE /\ process_size' = 0 /\ http_code' = 0 /\ output' = <<>>
  /\ req' = NoRequest /\ range' = NoRange /\ unread' = 0 /\ disk' = <<>>

-----------------------------------------------------------------------------
(* Reading the header.  The handlers of the server accept the request or    *)
(* not; then a worker gets it, or none can ("TooBusy").                      *)

Answered(r, code, next, found) ==
  /\ req' = r /\ http_code' = code /\ handler' = next /\ item' = found
  /\ range' = http_parse_get_range(r.range)
  /\ UNCHANGED <<connection_broken, disk_error, process_size, output>>

(* What came of an ignored body goes with the buffer of the header. *)
ReadGet(r) ==
  /\ r.method \in {"GET", "HEAD"}
  /\ unread' \in 0 .. r.ignored /\ keepalive' \in BOOLEAN /\ UNCHANGED disk
  /\ \/ Answered(r, 404, "finalize", FALSE)
     \/ Answered(r, 500, "finalize", TRUE)
     \/ r.range # NoRange /\ Answered(r, 206, "write_response_206_header_mem", TRUE)
     \/ r.range = NoRange /\ Answered(r, 200, "write_response", TRUE)

(* Mutant: the connection is kept after a declined body that is not read.    *)
ReadPut_Kept(r, early) ==
  /\ r.method = "PUT" /\ early <= r.length
  /\ unread' = r.length + r.extra - early /\ keepalive' \in BOOLEAN
  /\ disk' = [i \in 0 .. HeaderLength + r.length - 1 |-> -1]
  /\ Answered(r, 204, "finalize", FALSE)

(* early: bytes of the body that came with the header.  A declined body is   *)
(* read to its end all the same, unless shutdown_if_not_store is set.        *)
ReadPut(r, early) ==
  /\ r.method = "PUT" /\ early <= r.length
  /\ unread' = r.length + r.extra - early /\ keepalive' \in BOOLEAN
  /\ disk' = [i \in 0 .. HeaderLength + r.length - 1 |-> -1]
  /\ \/ \E found \in BOOLEAN : Answered(r, 500, "finalize", found)
     \/ Answered(r, 204, "finalize", FALSE) /\ ~keepalive'
     \/ Answered(r, 204, "put_read_request_body_preread", FALSE)
     \/ Answered(r, 201, "put_read_request_body_preread", TRUE)

ReadDelete(r) ==
  /\ r.method = "DELETE"
  /\ unread' \in 0 .. r.ignored /\ keepalive' \in BOOLEAN /\ UNCHANGED disk
  /\ \E code \in {204, 404} : Answered(r, code, "finalize", FALSE)

(* A malformed header, or one that fills the buffer before its end.          *)
ReadBad ==
  /\ \/ keepalive' = FALSE /\ unread' = 0
     \/ UNCHANGED keepalive /\ unread' = 1
  /\ UNCHANGED disk
  /\ Answered(req, 400, "finalize", FALSE)

Broken ==
  /\ connection_broken' = TRUE /\ handler' = "finalize"
  /\ UNCHANGED <<req, http_code, keepalive, disk_error, process_size, item, range, unread, output, disk>>

request_read_request_header ==
  /\ handler = "read_request_header"
  /\ \/ \E r \in Parsed : ReadGet(r) \/ ReadDelete(r)
     \/ \E r \in Parsed, early \in BodyLengths : ReadPut(r, early)
     \/ ReadBad
     \/ Broken

-----------------------------------------------------------------------------
(* Storing a body.                                                          *)

(* Mutant: every piece goes to the start of the block.                       *)
request_write_disk_Rewinds(n) ==
  [i \in DOMAIN disk |-> IF item /\ i < n THEN i + process_size ELSE disk[i]]

(* n bytes go to the block, behind the ones that are there.  There may be no *)
(* item: then they are dropped.                                              *)
request_write_disk(n) ==
  [i \in DOMAIN disk |-> IF item /\ i \in process_size .. process_size + n - 1 THEN i ELSE disk[i]]

Writes(n, next) ==
  /\ \/ /\ disk' = request_write_disk(n) /\ process_size' = process_size + n /\ handler' = next
        /\ UNCHANGED <<http_code, disk_error>>
     \/ /\ item /\ http_code' = 500 /\ disk_error' = TRUE /\ handler' = "finalize"
        /\ UNCHANGED <<process_size, disk>>
  /\ UNCHANGED <<req, keepalive, connection_broken, item, range, output>>

(* The header of the item, and the part of the body that came early.         *)
request_put_read_request_body_preread ==
  /\ handler = "put_read_request_body_preread"
  /\ Writes(ItemLength + req.extra - unread, "put_read_request_body")
  /\ UNCHANGED unread

(* One turn of the loop: at the end, or n bytes were received.               *)
request_put_read_request_body ==
  /\ handler = "put_read_request_body"
  /\ \/ /\ process_size = ItemLength /\ handler' = "finalize"
        /\ UNCHANGED <<req, http_code, keepalive, connection_broken, disk_error, process_size, item,
                       range, unread, output, disk>>
     \/ /\ process_size < ItemLength
        /\ \E n \in 1 .. unread :
             /\ unread' = unread - n
             /\ \/ n <= ItemLength - process_size /\ Writes(n, handler)
                \/ /\ n > ItemLength - process_size
                   /\ http_code' = 400 /\ keepalive' = FALSE /\ handler' = "finalize"
                   /\ UNCHANGED <<req, connection_broken, disk_error, process_size, item, range, output, disk>>
     \/ process_size < ItemLength /\ Broken

-----------------------------------------------------------------------------
(* Sending an item.                                                         *)

(* One sendfile of the item's bytes from start on: a part of what is left, a *)
(* disk error or a broken connection.  When all is sent, next comes.         *)
request_send_file(start, length, next) ==
  \/ /\ \E n \in 1 .. length - process_size :
          /\ output' = output \o [i \in 1 .. n |-> start + process_size + i - 1]
          /\ process_size' = IF next = "write_response_206_body" /\ process_size + n = length
                             THEN 0 ELSE process_size + n
          /\ handler' = IF process_size + n = length THEN next ELSE handler
     /\ UNCHANGED <<req, http_code, keepalive, connection_broken, disk_error, item, range, unread, disk>>
  \/ /\ disk_error' = TRUE /\ handler' = "finalize"
     /\ UNCHANGED <<req, http_code, keepalive, connection_broken, process_size, item, range, unread, output, disk>>
  \/ Broken

request_get_write_response ==
  /\ handler = "write_response"
  /\ request_send_file(0, IF req.method = "HEAD" THEN HeaderLength ELSE ItemLength, "finalize")

(* Mutant: an end that equals the length is not cut off.                     *)
Ranged_Beyond(x, n) ==
  IF x.start = RANGE_NO_SET THEN [start |-> IF x.end > n THEN 0 ELSE ssize_t(n - x.end), end |-> n - 1]
  ELSE [x EXCEPT !.end = IF @ = RANGE_NO_SET \/ @ > n THEN n - 1 ELSE @]

(* range_start and range_end of a body of length n. *)
Ranged(x, n) ==
  IF x.start = RANGE_NO_SET THEN [start |-> IF x.end > n THEN 0 ELSE ssize_t(n - x.end), end |-> n - 1]
  ELSE [x EXCEPT !.end = IF @ = RANGE_NO_SET \/ @ >= n THEN n - 1 ELSE @]

(* The status line, with Content-Length and Content-Range of the part.       *)
request_get_write_response_206_header_mem ==
  /\ handler = "write_response_206_header_mem"
  /\ range' = Ranged(range, req.length)
  /\ \/ /\ range'.start >= req.length /\ http_code' = 416 /\ handler' = "finalize"
        /\ UNCHANGED <<output, connection_broken>>
     \/ /\ range'.start < req.length
        /\ output' = <<-206, range'.start, range'.end>> /\ handler' = "write_response_206_header_disk"
        /\ UNCHANGED <<http_code, connection_broken>>
     \/ /\ range'.start < req.length
        /\ connection_broken' = TRUE /\ handler' = "finalize"
        /\ UNCHANGED <<http_code, output>>
  /\ UNCHANGED <<req, keepalive, disk_error, process_size, item, unread, disk>>

request_get_write_response_206_header_disk ==
  /\ handler = "write_response_206_header_disk"
  /\ request_send_file(StatusLine, HeaderLength - StatusLine,
                       IF req.method = "HEAD" THEN "finalize" ELSE "write_response_206_body")

request_get_write_response_206_body ==
  /\ handler = "write_response_206_body"
  /\ request_send_file(HeaderLength + range.start, range.end - range.start + 1, "finalize")

-----------------------------------------------------------------------------
(* The end of a request.                                                    *)

(* A handler that waits for the socket; quitting ends it in the same way.    *)
request_timeout_handler ==
  /\ handler \in {"read_request_header", "put_read_request_body", "write_response",
                  "write_response_206_header_disk", "write_response_206_body"}
  /\ Broken

http_code_page == {201, 204, 400, 404, 413, 416, 500}

(* A page is sent if nothing was; a code that has no page ends the process,  *)
(* and the client connects to the next one.                                  *)
request_finalize ==
  /\ handler = "finalize"
  /\ IF connection_broken \/ output # <<>>
     THEN /\ handler' = "do_finalize"
          /\ UNCHANGED <<req, http_code, keepalive, connection_broken, disk_error, process_size, item,
                         range, unread, output, disk>>
     ELSE \/ /\ http_code \in http_code_page /\ handler' = "do_finalize"
             /\ \/ output' = <<-http_code>> /\ UNCHANGED connection_broken
                \/ connection_broken' = TRUE /\ UNCHANGED output
             /\ UNCHANGED <<req, http_code, keepalive, disk_error, process_size, item, range, unread, disk>>
          \/ http_code \notin http_code_page /\ request_reset

request_do_finalize == handler = "do_finalize" /\ request_reset

RequestNext ==
  \/ request_read_request_header \/ request_put_read_request_body_preread
  \/ request_put_read_request_body \/ request_get_write_response
  \/ request_get_write_response_206_header_mem \/ request_get_write_response_206_header_disk
  \/ request_get_write_response_206_body \/ request_timeout_handler
  \/ request_finalize \/ request_do_finalize

RequestSpec == RequestInit /\ [][RequestNext]_requestVars

-----------------------------------------------------------------------------
(* Properties.                                                              *)

(* The bytes of the body that a request asks for: from start to end, or the  *)
(* last end bytes.                                                           *)
Wanted == {i \in 0 .. req.length - 1 :
  IF req.range.start = RANGE_NO_SET THEN i >= req.length - req.range.end
  ELSE i >= req.range.start /\ (req.range.end = RANGE_NO_SET \/ i <= req.range.end)}

Bytes(first, last) == [i \in 1 .. last - first + 1 |-> first + i - 1]

(* The item, or its header. *)
WholeItem == Bytes(0, (IF req.method = "HEAD" THEN HeaderLength ELSE ItemLength) - 1)

(* A status line that announces the part, the stored header behind its own   *)
(* status line, and the part.                                                *)
PartOfItem ==
  <<-206, Min(Wanted), Max(Wanted)>> \o Bytes(StatusLine, HeaderLength - 1)
  \o (IF req.method = "HEAD" THEN <<>>
      ELSE Bytes(HeaderLength + Min(Wanted), HeaderLength + Max(Wanted)))

(* The whole response to the request with the present status.                *)
Response ==
  CASE http_code = 200 -> WholeItem
    [] http_code = 206 -> PartOfItem
    [] OTHER -> <<-http_code>>

(* The numbers of the range fit into an ssize_t. *)
Fits == req.range.start < SsizeHalf /\ req.range.end < SsizeHalf

(* Whatever the pieces in which the socket takes the answer, what was sent   *)
(* is a prefix of the one right response (the whole item, its header, or the *)
(* announced part with the header that was stored) and never a byte more; it *)
(* is all of it when the request ends on a whole connection without a disk   *)
(* error, and a range is refused exactly if it selects no byte.  Stated for  *)
(* ranges whose numbers fit: http_parse_get_range does not refuse the others *)
(* and goes on with what is left of them.                                    *)
ResponseExact ==
  Fits =>
    /\ http_code = 416 => Wanted = {}
    /\ output # <<>> => (http_code = 206 => Wanted # {}) /\ IsPrefix(output, Response)
    /\ handler = "do_finalize" /\ ~connection_broken /\ ~disk_error => output = Response

uint32_t(n) == n % Uint32Size

(* server_request_finalize keeps the item of a PUT. *)
server_request_finalize == item /\ ~disk_error /\ process_size >= uint32_t(ItemLength)

(* A PUT that leaves its item in the cache has stored each byte of header    *)
(* and body at its place, however the body was cut into early bytes and      *)
(* receives, and whoever is told 201 has such an item.  Stated for what "we  *)
(* supports 4G at most" (server.h:108) allows; item_max_size is what keeps   *)
(* longer ones out, where it is set.                                         *)
StoredExact ==
  handler = "do_finalize" /\ req.method = "PUT" /\ ItemLength < Uint32Size =>
    /\ server_request_finalize => \A i \in DOMAIN disk : disk[i] = i
    /\ output = <<-201>> => server_request_finalize

(* A connection that is kept after a request that was not refused with 400   *)
(* or 500 has nothing of the declared body left to be read as a request:     *)
(* what is unread is at most what the client sent after it.  Stated for the  *)
(* methods whose Content-Length is read, and for the others without a body.  *)
KeptInSync ==
  /\ handler = "do_finalize" /\ keepalive /\ ~connection_broken
  /\ http_code \notin {400, 500} /\ req.ignored = 0
  => unread <= req.extra

(* http_code_page is asked only for codes it knows ("should not happen").    *)
PageExists ==
  handler = "finalize" /\ ~connection_broken /\ output = <<>> => http_code \in http_code_page
=============================================================================
