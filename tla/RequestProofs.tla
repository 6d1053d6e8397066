--------------------------- MODULE RequestProofs ---------------------------
(***************************************************************************)
(* Proofs about Request, for bodies of every length and pieces of every    *)
(* size: what a PUT stores, what a GET or HEAD is sent, and what a kept    *)
(* connection has left unread.                                             *)
(***************************************************************************)
EXTENDS Request, TLAPS

(* The handlers of a response with an item. *)
Sending == {"write_response", "write_response_206_header_mem",
            "write_response_206_header_disk", "write_response_206_body"}

(* The variables have their types, as far as the proofs need them. *)
RequestTypeOK ==
  /\ handler \in Sending \cup {"read_request_header", "put_read_request_body_preread",
                             "put_read_request_body", "finalize", "do_finalize"}
  /\ req.method \in {"GET", "HEAD", "PUT", "DELETE"}
  /\ req.length \in Nat /\ req.length < SsizeHalf /\ req.extra \in Nat /\ req.ignored \in Nat
  /\ range.start \in Int /\ range.end \in Int
  /\ process_size \in Nat /\ unread \in Nat
  /\ http_code \in Nat

(* The first n bytes of the block are those of the request. *)
Filled(n) == \A i \in 0 .. n - 1 : i \in DOMAIN disk => disk[i] = i

(* What a handler finds. *)
HandlerShape ==
  /\ handler = "read_request_header" =>
       /\ process_size = 0 /\ ~disk_error /\ ~connection_broken /\ output = <<>> /\ http_code = 0 /\ ~item
       /\ req = NoRequest /\ unread = 0
  /\ handler \in Sending =>
       req.method \in {"GET", "HEAD"} /\ unread <= req.ignored /\ http_code \in {200, 206}
  /\ handler \in {"put_read_request_body_preread", "put_read_request_body"} =>
       /\ req.method = "PUT" /\ output = <<>> /\ ~disk_error
       /\ http_code = (IF item THEN 201 ELSE 204)
       /\ DOMAIN disk = 0 .. ItemLength - 1
  /\ handler = "put_read_request_body_preread" =>
       process_size = 0 /\ unread <= req.length + req.extra /\ req.extra <= unread
  /\ handler = "put_read_request_body" =>
       process_size + unread = ItemLength + req.extra

(* What was stored, while a PUT goes on and when it ends. *)
StoreShape ==
  /\ req.method = "PUT" => /\ DOMAIN disk = 0 .. ItemLength - 1
                           /\ item => Filled(process_size)
  /\ handler \in {"finalize", "do_finalize"} =>
       /\ handler = "finalize" /\ req.method = "PUT" => output = <<>>
       /\ ~connection_broken /\ http_code = 201 =>
            item /\ ~disk_error /\ process_size = ItemLength
       /\ ~connection_broken /\ keepalive /\ http_code \notin {400, 500} /\ req.ignored = 0 =>
            unread <= req.extra
       /\ req.method = "PUT" /\ output = <<-201>> => http_code = 201 /\ ~connection_broken

RequestInv == RequestTypeOK /\ HandlerShape /\ StoreShape

(* What is left of a number in an ssize_t. *)
LEMMA Wrapped ==
  ASSUME NEW n \in Int
  PROVE  ssize_t(n) \in Int /\ (n < SsizeHalf => ssize_t(n) = n)
  <1>1. n + SsizeHalf \in Int /\ SsizeHalf \in Nat \ {0} BY RequestAssumption
  <1>2. \A a \in Int, m \in Nat \ {0} : a % (2 * m) \in Int OBVIOUS
  <1>3. (n + SsizeHalf) % (2 * SsizeHalf) \in Int BY <1>1, <1>2
  <1>4. PICK k \in Int : k = (n + SsizeHalf) % (2 * SsizeHalf) BY <1>3
  <1>5. ssize_t(n) = IF n < SsizeHalf THEN n ELSE k - SsizeHalf BY <1>4, Zenon DEF ssize_t
  <1> QED BY <1>1, <1>5

(* The numbers of a range that may be written. *)
LEMMA WrittenEnds ==
  ASSUME NEW x \in Written
  PROVE  x.start \in Nat \cup {-1} /\ x.end \in Nat \cup {-1}
  <1>1. CASE x = NoRange BY <1>1 DEF NoRange, RANGE_NO_SET
  <1>2. CASE x # NoRange
    <2>1. x.start \in RangeEnds \cup {-1} /\ x.end \in RangeEnds \cup {-1}
      BY <1>2 DEF Written, RANGE_NO_SET
    <2>2. \A n \in RangeEnds \cup {-1} : n \in Nat \cup {-1} BY RequestAssumption
    <2> QED BY <2>1, <2>2
  <1> QED BY <1>1, <1>2

LEMMA RangeParsed ==
  ASSUME NEW x \in Written
  PROVE  http_parse_get_range(x).start \in Int /\ http_parse_get_range(x).end \in Int
  <1>1. x.start \in Int /\ x.end \in Int BY WrittenEnds
  <1>2. ssize_t(x.start) \in Int /\ ssize_t(x.end) \in Int BY <1>1, Wrapped
  <1> QED BY <1>2 DEF http_parse_get_range

(* What the parser yields. *)
LEMMA ParsedFields ==
  ASSUME NEW r \in Parsed
  PROVE  /\ r.method \in {"GET", "HEAD", "PUT", "DELETE"}
         /\ r.length \in Nat /\ r.length < SsizeHalf /\ r.extra \in Nat /\ r.ignored \in Nat
         /\ r.range \in Written
  <1>a. \A n \in BodyLengths \cup {0} : n \in Nat /\ n < SsizeHalf BY RequestAssumption
  <1>b. NoRange \in Written BY DEF Written
  <1>1. CASE r \in [method : {"GET", "HEAD"}, length : BodyLengths, ignored : {0, 1}, extra : {0},
                   range : Written]
    <2>1. /\ r.method \in {"GET", "HEAD"} /\ r.length \in BodyLengths /\ r.ignored \in {0, 1}
          /\ r.extra = 0 /\ r.range \in Written
      BY <1>1
    <2> QED BY <1>a, <2>1
  <1>2. CASE r \in [method : {"PUT"}, length : BodyLengths, ignored : {0}, extra : {0, 1},
                   range : {NoRange}]
    <2>1. /\ r.method = "PUT" /\ r.length \in BodyLengths /\ r.ignored = 0
          /\ r.extra \in {0, 1} /\ r.range = NoRange
      BY <1>2
    <2> QED BY <1>a, <1>b, <2>1
  <1>3. CASE r \in [method : {"DELETE"}, length : {0}, ignored : {0, 1}, extra : {0},
                   range : {NoRange}]
    <2>1. /\ r.method = "DELETE" /\ r.length = 0 /\ r.ignored \in {0, 1}
          /\ r.extra = 0 /\ r.range = NoRange
      BY <1>3
    <2> QED BY <1>a, <1>b, <2>1
  <1> QED BY <1>1, <1>2, <1>3 DEF Parsed

LEMMA InitShape == RequestInit => RequestInv
  <1> SUFFICES ASSUME RequestInit PROVE RequestInv OBVIOUS
  <1> USE DEF RequestInit, NoRequest, NoRange, RANGE_NO_SET
  <1>1. RequestTypeOK BY RequestAssumption DEF RequestTypeOK
  <1>2. HandlerShape BY DEF HandlerShape, Sending
  <1>3. StoreShape BY DEF StoreShape
  <1> QED BY <1>1, <1>2, <1>3 DEF RequestInv

LEMMA ResetShape ==
  ASSUME request_reset
  PROVE  RequestInv'
  <1> USE DEF request_reset, NoRequest, NoRange, RANGE_NO_SET
  <1>1. RequestTypeOK' BY RequestAssumption DEF RequestTypeOK
  <1>2. HandlerShape' BY DEF HandlerShape, Sending
  <1>3. StoreShape' BY DEF StoreShape
  <1> QED BY <1>1, <1>2, <1>3 DEF RequestInv

LEMMA BrokenShape ==
  ASSUME RequestInv, Broken, handler # "do_finalize"
  PROVE  RequestInv'
  <1> USE DEF Broken, RequestInv
  <1>1. RequestTypeOK' BY DEF RequestTypeOK
  <1>2. HandlerShape' BY DEF HandlerShape, Sending
  <1>3. StoreShape'
    <2>1. req.method = "PUT" => output = <<>>
      BY DEF StoreShape, HandlerShape, RequestTypeOK
    <2>2. Filled(process_size)' <=> Filled(process_size) BY DEF Filled
    <2>3. ItemLength' = ItemLength BY DEF ItemLength
    <2> QED BY <2>1, <2>2, <2>3 DEF StoreShape
  <1> QED BY <1>1, <1>2, <1>3

LEMMA HeaderShape ==
  ASSUME RequestInv, request_read_request_header
  PROVE  RequestInv'
  <1> USE RequestAssumption
  <1>a. /\ handler = "read_request_header" /\ process_size = 0 /\ ~disk_error
        /\ ~connection_broken /\ output = <<>> /\ unread = 0 /\ req = NoRequest
    BY DEF request_read_request_header, RequestInv, HandlerShape
  <1>1. ASSUME NEW r \in Parsed, ReadGet(r) \/ ReadDelete(r)
        PROVE  RequestInv'
    <2>1. /\ req' = r /\ range' = http_parse_get_range(r.range) /\ unread' \in 0 .. r.ignored
          /\ output' = output
          /\ r.method \in {"GET", "HEAD", "DELETE"}
          /\ http_code' \in {200, 204, 206, 404, 500}
          /\ handler' \in {"finalize", "write_response_206_header_mem", "write_response"}
          /\ handler' # "finalize" => r.method \in {"GET", "HEAD"} /\ http_code' \in {200, 206}
          /\ UNCHANGED <<connection_broken, disk_error, process_size>>
      <3>1. CASE ReadGet(r) BY <3>1 DEF ReadGet, Answered
      <3>2. CASE ReadDelete(r) BY <3>2 DEF ReadDelete, Answered
      <3> QED BY <1>1, <3>1, <3>2
    <2>2. /\ r.length \in Nat /\ r.length < SsizeHalf /\ r.extra \in Nat /\ r.ignored \in Nat
          /\ range'.start \in Int /\ range'.end \in Int
      BY <2>1, ParsedFields, RangeParsed
    <2>3. unread' \in Nat /\ unread' <= r.ignored BY <2>1, <2>2
    <2>4. RequestTypeOK' BY <1>a, <2>1, <2>2, <2>3 DEF RequestTypeOK, Sending
    <2>5. HandlerShape' BY <1>a, <2>1, <2>2, <2>3 DEF HandlerShape, Sending
    <2>6. StoreShape' BY <1>a, <2>1, <2>2, <2>3 DEF StoreShape
    <2> QED BY <2>4, <2>5, <2>6 DEF RequestInv
  <1>2. ASSUME NEW r \in Parsed, NEW early \in BodyLengths, ReadPut(r, early)
        PROVE  RequestInv'
    <2>1. /\ req' = r /\ range' = http_parse_get_range(r.range)
          /\ unread' = r.length + r.extra - early
          /\ output' = output /\ r.method = "PUT" /\ early <= r.length /\ early \in Nat
          /\ disk' = [i \in 0 .. HeaderLength + r.length - 1 |-> -1]
          /\ UNCHANGED <<connection_broken, disk_error, process_size>>
      BY <1>2 DEF ReadPut, Answered
    <2>2. \/ handler' = "finalize" /\ http_code' = 500
          \/ handler' = "finalize" /\ item' = FALSE /\ http_code' = 204 /\ keepalive' = FALSE
          \/ handler' = "put_read_request_body_preread" /\ item' = FALSE /\ http_code' = 204
          \/ handler' = "put_read_request_body_preread" /\ item' = TRUE /\ http_code' = 201
      BY <1>2 DEF ReadPut, Answered
    <2>3. RequestTypeOK'
      <3>1. /\ r.length \in Nat /\ r.length < SsizeHalf /\ r.extra \in Nat /\ r.ignored \in Nat
            /\ unread' \in Nat
        BY <2>1, ParsedFields
      <3>2. /\ req'.method = "PUT" /\ req'.length \in Nat /\ req'.length < SsizeHalf
            /\ req'.extra \in Nat /\ req'.ignored \in Nat
        BY <2>1, <3>1
      <3>3. process_size' = 0 /\ connection_broken' = connection_broken /\ disk_error' = disk_error
        BY <1>a, <2>1
      <3>4. http_code' \in Nat /\ range'.start \in Int /\ range'.end \in Int
        BY <2>1, <2>2, ParsedFields, RangeParsed
      <3> QED BY <2>1, <2>2, <3>1, <3>2, <3>3, <3>4 DEF RequestTypeOK
    <2>4. HandlerShape'
      <3>1. r.length \in Nat /\ r.extra \in Nat BY ParsedFields
      <3>2. DOMAIN disk' = 0 .. ItemLength' - 1
        <4>1. ItemLength' = HeaderLength + r.length BY <2>1 DEF ItemLength
        <4>2. DOMAIN disk' = 0 .. HeaderLength + r.length - 1 BY <2>1
        <4> QED BY <3>1, <4>1, <4>2
      <3>3. handler' = "finalize" => HandlerShape' BY DEF HandlerShape, Sending
      <3>4. ASSUME handler' = "put_read_request_body_preread" PROVE HandlerShape'
        <4>1. http_code' = IF item' THEN 201 ELSE 204 BY <2>2, <3>4
        <4>2. process_size' = 0 /\ output' = <<>> /\ ~disk_error' /\ req'.method = "PUT"
          BY <1>a, <2>1
        <4>3. unread' <= req'.length + req'.extra /\ req'.extra <= unread' BY <2>1, <3>1
        <4> QED BY <3>2, <3>4, <4>1, <4>2, <4>3 DEF HandlerShape, Sending
      <3> QED BY <2>2, <3>3, <3>4
    <2>5. StoreShape'
      BY <1>a, <2>1, <2>2, ParsedFields DEF StoreShape, Filled, ItemLength
    <2> QED BY <2>3, <2>4, <2>5 DEF RequestInv
  <1>3. ASSUME ReadBad
        PROVE  RequestInv'
    <2>0. range' = NoRange
      <3>1. range' = http_parse_get_range(NoRange) BY <1>a, <1>3 DEF ReadBad, Answered, NoRequest
      <3>2. ssize_t(-1) = -1 BY Wrapped
      <3> QED BY <3>1, <3>2 DEF http_parse_get_range, NoRange, RANGE_NO_SET
    <2>1. /\ req' = req /\ range' = NoRange /\ http_code' = 400 /\ handler' = "finalize" /\ item' = FALSE
          /\ unread' \in {0, 1}
          /\ UNCHANGED <<connection_broken, disk_error, process_size, output>>
      BY <1>a, <1>3, <2>0 DEF ReadBad, Answered
    <2>2. RequestTypeOK' BY <1>a, <2>1 DEF RequestInv, RequestTypeOK, NoRange, RANGE_NO_SET
    <2>3. HandlerShape' BY <2>1 DEF HandlerShape, Sending
    <2>4. StoreShape' BY <1>a, <2>1 DEF StoreShape, NoRequest
    <2> QED BY <2>2, <2>3, <2>4 DEF RequestInv
  <1>4. ASSUME Broken
        PROVE  RequestInv'
    BY <1>a, <1>4, BrokenShape
  <1> QED BY <1>1, <1>2, <1>3, <1>4 DEF request_read_request_header

(* n bytes of the body are stored, dropped or met by a disk error. *)
LEMMA WritesShape ==
  ASSUME RequestInv, NEW n \in Nat, handler \in {"put_read_request_body_preread", "put_read_request_body"},
         Writes(n, "put_read_request_body"), unread' \in Nat,
         process_size + n + unread' = ItemLength + req.extra
  PROVE  RequestInv'
  <1>a. /\ req.method = "PUT" /\ output = <<>> /\ ~disk_error
        /\ http_code = (IF item THEN 201 ELSE 204)
        /\ DOMAIN disk = 0 .. ItemLength - 1 /\ (item => Filled(process_size))
    BY DEF RequestInv, HandlerShape, StoreShape
  <1>b. /\ RequestTypeOK /\ UNCHANGED <<req, keepalive, connection_broken, item, range, output>>
    BY DEF RequestInv, Writes
  <1>c. ItemLength' = ItemLength
    BY <1>b DEF ItemLength
  <1>1. CASE /\ disk' = request_write_disk(n) /\ process_size' = process_size + n
             /\ handler' = "put_read_request_body" /\ UNCHANGED <<http_code, disk_error>>
    <2>1. DOMAIN disk' = 0 .. ItemLength - 1
      BY <1>1, <1>a DEF request_write_disk
    <2>2. item => Filled(process_size)'
      <3> SUFFICES ASSUME item, NEW i \in 0 .. process_size' - 1, i \in DOMAIN disk'
                   PROVE  disk'[i] = i
        BY DEF Filled
      <3>1. process_size \in Nat /\ process_size' = process_size + n BY <1>1, <1>b DEF RequestTypeOK
      <3>2. i \in DOMAIN disk BY <1>a, <2>1
      <3>3. i < process_size => disk[i] = i BY <1>a, <3>1, <3>2 DEF Filled
      <3>4. disk'[i] = IF item /\ i \in process_size .. process_size + n - 1 THEN i ELSE disk[i]
        BY <1>1, <3>2 DEF request_write_disk
      <3> QED BY <3>1, <3>3, <3>4
    <2>3. RequestTypeOK' BY <1>1, <1>b DEF RequestTypeOK
    <2>4. HandlerShape' BY <1>1, <1>a, <1>b, <1>c, <2>1 DEF HandlerShape, Sending
    <2>5. StoreShape' BY <1>1, <1>a, <1>b, <1>c, <2>1, <2>2 DEF StoreShape
    <2> QED BY <2>3, <2>4, <2>5 DEF RequestInv
  <1>2. CASE /\ item /\ http_code' = 500 /\ disk_error' = TRUE /\ handler' = "finalize"
             /\ UNCHANGED <<process_size, disk>>
    <2>1. Filled(process_size)' <=> Filled(process_size) BY <1>2 DEF Filled
    <2>2. RequestTypeOK' BY <1>2, <1>b DEF RequestTypeOK
    <2>3. HandlerShape' BY <1>2 DEF HandlerShape, Sending
    <2>4. StoreShape' BY <1>2, <1>a, <1>b, <1>c, <2>1 DEF StoreShape
    <2> QED BY <2>2, <2>3, <2>4 DEF RequestInv
  <1> QED BY <1>1, <1>2 DEF Writes

LEMMA PrereadShape ==
  ASSUME RequestInv, request_put_read_request_body_preread
  PROVE  RequestInv'
  <1> DEFINE n == ItemLength + req.extra - unread
  <1>1. /\ handler = "put_read_request_body_preread" /\ Writes(n, "put_read_request_body") /\ unread' = unread
    BY DEF request_put_read_request_body_preread
  <1>2. /\ process_size = 0 /\ unread <= req.length + req.extra /\ unread \in Nat
        /\ req.length \in Nat /\ req.extra \in Nat
    BY <1>1 DEF RequestInv, HandlerShape, RequestTypeOK
  <1>3. n \in Nat /\ process_size + n + unread' = ItemLength + req.extra
    BY <1>1, <1>2, RequestAssumption DEF ItemLength
  <1> HIDE DEF n
  <1> QED BY <1>1, <1>2, <1>3, WritesShape

LEMMA BodyShape ==
  ASSUME RequestInv, request_put_read_request_body
  PROVE  RequestInv'
  <1>a. /\ handler = "put_read_request_body" /\ req.method = "PUT" /\ output = <<>> /\ ~disk_error
        /\ http_code = (IF item THEN 201 ELSE 204)
        /\ DOMAIN disk = 0 .. ItemLength - 1 /\ (item => Filled(process_size))
        /\ process_size + unread = ItemLength + req.extra
    BY DEF RequestInv, HandlerShape, StoreShape, request_put_read_request_body
  <1>b. /\ process_size \in Nat /\ unread \in Nat /\ req.length \in Nat /\ req.extra \in Nat
        /\ ItemLength \in Nat
    BY RequestAssumption DEF RequestInv, RequestTypeOK, ItemLength
  <1>1. ASSUME /\ process_size = ItemLength /\ handler' = "finalize"
               /\ UNCHANGED <<req, http_code, keepalive, connection_broken, disk_error, process_size,
                              item, range, unread, output, disk>>
        PROVE  RequestInv'
    <2>1. Filled(process_size)' <=> Filled(process_size) BY <1>1 DEF Filled
    <2>2. ItemLength' = ItemLength BY <1>1 DEF ItemLength
    <2>3. RequestTypeOK' BY <1>1 DEF RequestInv, RequestTypeOK
    <2>4. HandlerShape' BY <1>1 DEF HandlerShape, Sending
    <2>5. unread <= req.extra BY <1>1, <1>a, <1>b
    <2>6. StoreShape' BY <1>1, <1>a, <2>1, <2>2, <2>5 DEF StoreShape
    <2> QED BY <2>3, <2>4, <2>6 DEF RequestInv
  <1>2. ASSUME NEW n \in 1 .. unread, unread' = unread - n, Writes(n, handler)
        PROVE  RequestInv'
    BY <1>2, <1>a, <1>b, WritesShape
  <1>3. ASSUME NEW n \in 1 .. unread, unread' = unread - n,
               http_code' = 400, handler' = "finalize",
               UNCHANGED <<req, connection_broken, disk_error, process_size, item, range, output, disk>>
        PROVE  RequestInv'
    <2>1. Filled(process_size)' <=> Filled(process_size) BY <1>3 DEF Filled
    <2>2. ItemLength' = ItemLength BY <1>3 DEF ItemLength
    <2>3. RequestTypeOK' BY <1>3, <1>b DEF RequestInv, RequestTypeOK
    <2>4. HandlerShape' BY <1>3 DEF HandlerShape, Sending
    <2>5. StoreShape' BY <1>3, <1>a, <2>1, <2>2 DEF StoreShape
    <2> QED BY <2>3, <2>4, <2>5 DEF RequestInv
  <1>4. ASSUME Broken
        PROVE  RequestInv'
    BY <1>4, <1>a, BrokenShape
  <1> QED BY <1>1, <1>2, <1>3, <1>4 DEF request_put_read_request_body

(* A step of a response: only the progress of a GET changes. *)
LEMMA SendingShape ==
  ASSUME RequestInv, handler \in Sending, handler' \in Sending \cup {"finalize"},
         UNCHANGED <<req, unread>>, process_size' \in Nat, range'.start \in Int, range'.end \in Int,
         http_code' = http_code \/ (handler' = "finalize" /\ http_code' = 416)
  PROVE  RequestInv'
  <1>1. /\ req.method \in {"GET", "HEAD"} /\ unread <= req.ignored /\ unread \in Nat
        /\ req.extra \in Nat /\ http_code \in {200, 206}
    BY DEF RequestInv, HandlerShape, RequestTypeOK
  <1>2. RequestTypeOK' BY <1>1 DEF RequestInv, RequestTypeOK, Sending
  <1>3. HandlerShape' BY <1>1 DEF HandlerShape, Sending
  <1>4. StoreShape' BY <1>1 DEF StoreShape, Sending
  <1> QED BY <1>2, <1>3, <1>4 DEF RequestInv

LEMMA SendFileShape ==
  ASSUME RequestInv, handler \in Sending, NEW start, NEW length \in Int,
         NEW next \in {"finalize", "write_response_206_body"},
         request_send_file(start, length, next)
  PROVE  RequestInv'
  <1>a. /\ process_size \in Nat /\ handler # "do_finalize"
        /\ range.start \in Int /\ range.end \in Int
    BY DEF RequestInv, RequestTypeOK, Sending
  <1>1. ASSUME NEW n \in 1 .. length - process_size,
               process_size' = IF next = "write_response_206_body" /\ process_size + n = length
                               THEN 0 ELSE process_size + n,
               handler' = IF process_size + n = length THEN next ELSE handler,
               UNCHANGED <<req, http_code, keepalive, connection_broken, disk_error, item, range, unread, disk>>
        PROVE  RequestInv'
    <2>1. process_size' \in Nat BY <1>a, <1>1
    <2>2. handler' \in Sending \cup {"finalize"} BY <1>1 DEF Sending
    <2>3. UNCHANGED <<req, unread, http_code, range>> BY <1>1
    <2>4. range'.start \in Int /\ range'.end \in Int BY <1>a, <2>3
    <2> QED BY <2>1, <2>2, <2>3, <2>4, SendingShape
  <1>2. ASSUME handler' = "finalize",
               UNCHANGED <<req, http_code, keepalive, connection_broken, process_size, item, range, unread, output, disk>>
        PROVE  RequestInv'
    BY <1>a, <1>2, SendingShape
  <1>3. ASSUME Broken
        PROVE  RequestInv'
    BY <1>a, <1>3, BrokenShape
  <1> QED BY <1>1, <1>2, <1>3 DEF request_send_file

LEMMA ResponseShape ==
  ASSUME RequestInv,
         \/ request_get_write_response \/ request_get_write_response_206_header_mem
         \/ request_get_write_response_206_header_disk \/ request_get_write_response_206_body
  PROVE  RequestInv'
  <1> USE RequestAssumption
  <1>a. /\ req.length \in Nat /\ process_size \in Nat /\ range.start \in Int /\ range.end \in Int
        /\ ItemLength \in Nat
    BY DEF RequestInv, RequestTypeOK, ItemLength
  <1>1. CASE request_get_write_response
    <2> DEFINE length == IF req.method = "HEAD" THEN HeaderLength ELSE ItemLength
    <2>1. length \in Int BY <1>a
    <2>2. handler \in Sending /\ request_send_file(0, length, "finalize")
      BY <1>1 DEF request_get_write_response, Sending
    <2> HIDE DEF length
    <2> QED BY <2>1, <2>2, SendFileShape
  <1>2. CASE request_get_write_response_206_header_mem
    <2>1. /\ handler \in Sending /\ handler' \in Sending \cup {"finalize"}
          /\ UNCHANGED <<req, unread, process_size>> /\ range' = Ranged(range, req.length)
          /\ http_code' = http_code \/ (handler' = "finalize" /\ http_code' = 416)
      BY <1>2 DEF request_get_write_response_206_header_mem, Sending
    <2>2. range'.start \in Int /\ range'.end \in Int
      <3>1. req.length - range.end \in Int BY <1>a
      <3>2. ssize_t(req.length - range.end) \in Int BY <3>1, Wrapped
      <3> QED BY <1>a, <2>1, <3>2 DEF Ranged, RANGE_NO_SET
    <2> QED BY <1>a, <2>1, <2>2, SendingShape
  <1>3. CASE request_get_write_response_206_header_disk
    <2> DEFINE next == IF req.method = "HEAD" THEN "finalize" ELSE "write_response_206_body"
    <2>1. handler \in Sending /\ request_send_file(StatusLine, HeaderLength - StatusLine, next)
      BY <1>3 DEF request_get_write_response_206_header_disk, Sending
    <2>2. next \in {"finalize", "write_response_206_body"} /\ HeaderLength - StatusLine \in Int
      OBVIOUS
    <2> HIDE DEF next
    <2> QED BY <2>1, <2>2, SendFileShape
  <1>4. CASE request_get_write_response_206_body
    <2>1. /\ handler \in Sending
          /\ request_send_file(HeaderLength + range.start, range.end - range.start + 1, "finalize")
      BY <1>4 DEF request_get_write_response_206_body, Sending
    <2>2. range.end - range.start + 1 \in Int BY <1>a
    <2> QED BY <2>1, <2>2, SendFileShape
  <1> QED BY <1>1, <1>2, <1>3, <1>4

LEMMA FinalizeShape ==
  ASSUME RequestInv, request_finalize
  PROVE  RequestInv'
  <1>1. CASE http_code \notin http_code_page /\ request_reset
    BY <1>1, ResetShape
  <1>2. CASE /\ handler = "finalize" /\ handler' = "do_finalize"
             /\ UNCHANGED <<req, http_code, keepalive, disk_error, process_size, item, range, unread, disk>>
             /\ \/ UNCHANGED <<output, connection_broken>>
                \/ connection_broken' = TRUE /\ UNCHANGED output
                \/ output' = <<-http_code>> /\ UNCHANGED connection_broken /\ ~connection_broken
    <2>1. Filled(process_size)' <=> Filled(process_size) BY <1>2 DEF Filled
    <2>2. ItemLength' = ItemLength BY <1>2 DEF ItemLength
    <2>3. RequestTypeOK' BY <1>2 DEF RequestInv, RequestTypeOK
    <2>4. HandlerShape' BY <1>2 DEF HandlerShape, Sending
    <2>5. req.method = "PUT" => output = <<>> BY <1>2 DEF RequestInv, StoreShape
    <2>6. req.method = "PUT" /\ output' = <<-201>> => http_code' = 201 /\ ~connection_broken'
      <3>1. http_code \in Nat BY DEF RequestInv, RequestTypeOK
      <3> QED BY <1>2, <2>5, <3>1
    <2>7. StoreShape' BY <1>2, <2>1, <2>2, <2>6 DEF RequestInv, StoreShape
    <2> QED BY <2>3, <2>4, <2>7 DEF RequestInv
  <1> QED BY <1>1, <1>2 DEF request_finalize

LEMMA StepShape ==
  ASSUME RequestInv, [RequestNext]_requestVars
  PROVE  RequestInv'
  <1>1. CASE request_timeout_handler
    BY <1>1, BrokenShape DEF request_timeout_handler
  <1>2. CASE request_do_finalize
    BY <1>2, ResetShape DEF request_do_finalize
  <1>3. CASE UNCHANGED requestVars
    <2>1. Filled(process_size)' <=> Filled(process_size) BY <1>3 DEF Filled, requestVars
    <2>2. ItemLength' = ItemLength BY <1>3 DEF ItemLength, requestVars
    <2>3. RequestTypeOK' BY <1>3 DEF RequestInv, RequestTypeOK, requestVars
    <2>4. HandlerShape' BY <1>3, <2>2 DEF RequestInv, HandlerShape, requestVars
    <2>5. StoreShape' BY <1>3, <2>1, <2>2 DEF RequestInv, StoreShape, requestVars
    <2> QED BY <2>3, <2>4, <2>5 DEF RequestInv
  <1> QED BY <1>1, <1>2, <1>3, HeaderShape, PrereadShape, BodyShape, ResponseShape, FinalizeShape
          DEF RequestNext

-----------------------------------------------------------------------------
(* What is sent.                                                           *)

(* The length of an answer with the whole item, or its header. *)
Whole == IF req.method = "HEAD" THEN HeaderLength ELSE ItemLength

Rest == HeaderLength - StatusLine

(* The i-th thing of the right response with an item. *)
Element(i) ==
  IF http_code = 200 THEN i - 1
  ELSE IF i = 1 THEN -206
  ELSE IF i = 2 THEN Min(Wanted)
  ELSE IF i = 3 THEN Max(Wanted)
  ELSE IF i <= 3 + Rest THEN StatusLine + i - 4
  ELSE HeaderLength + Min(Wanted) + i - 4 - Rest

Sent(n) ==
  /\ output \in Seq(Int) /\ Len(output) = n
  /\ \A i \in 1 .. n : output[i] = Element(i)

(* The range is that of the bytes that the request asks for. *)
Selected ==
  /\ Wanted = range.start .. range.end
  /\ range.start \in Nat /\ range.end \in Nat /\ range.start <= range.end

SendShape ==
  /\ handler = "write_response" => http_code = 200 /\ process_size < Whole /\ Sent(process_size)
  /\ handler = "write_response_206_header_mem" =>
       /\ http_code = 206 /\ process_size = 0 /\ output = <<>>
       /\ req.range \in Written \ {NoRange} /\ range = http_parse_get_range(req.range)
  /\ handler = "write_response_206_header_disk" =>
       http_code = 206 /\ Selected /\ process_size < Rest /\ Sent(3 + process_size)
  /\ handler = "write_response_206_body" =>
       /\ http_code = 206 /\ Selected /\ process_size < range.end - range.start + 1
       /\ Sent(3 + Rest + process_size) /\ req.method # "HEAD"
  /\ handler \in {"finalize", "do_finalize"} =>
       /\ http_code = 416 => Wanted = {}
       /\ output # <<>> => (http_code = 206 => Wanted # {}) /\ IsPrefix(output, Response)
       /\ ~connection_broken /\ ~disk_error =>
            output = Response \/ (handler = "finalize" /\ output = <<>> /\ http_code \notin {200, 206})

LEMMA MinMax ==
  ASSUME NEW a \in Int, NEW b \in Int, a <= b
  PROVE  Min(a .. b) = a /\ Max(a .. b) = b
  BY DEF Min, Max

(* The clamping of a range that fits finds the bytes that are asked for, if any. *)
LEMMA RangedSelects ==
  ASSUME req.length \in Nat, req.length < SsizeHalf, req.range \in Written \ {NoRange}, Fits,
         NEW y, y = Ranged(http_parse_get_range(req.range), req.length)
  PROVE  /\ y.start >= req.length => Wanted = {}
         /\ y.start < req.length => /\ Wanted = y.start .. y.end
                                    /\ y.start \in Nat /\ y.end \in Nat /\ y.start <= y.end
  <1> USE DEF RANGE_NO_SET
  <1> DEFINE s == req.range.start
             e == req.range.end
             n == req.length
  <1>0. s \in Nat \cup {-1} /\ e \in Nat \cup {-1} BY WrittenEnds
  <1>a. ssize_t(s) = s /\ ssize_t(e) = e
    <2>1. s \in Int /\ e \in Int /\ s < SsizeHalf /\ e < SsizeHalf BY <1>0 DEF Fits
    <2> QED BY <2>1, Wrapped
  <1>b. http_parse_get_range(req.range) = [start |-> s, end |-> e]
    BY <1>a DEF http_parse_get_range
  <1>1. s = -1 \/ e = -1 \/ s <= e
    <2>1. Accepted(http_parse_get_range(req.range)) BY DEF Written
    <2> QED BY <1>b, <2>1 DEF Accepted
  <1>2. ~(s = -1 /\ e = -1)
    <2>1. Accepted(http_parse_get_range(req.range)) BY DEF Written
    <2> QED BY <1>b, <2>1 DEF Accepted, NoRange
  <1>3. s = -1 => e \in Nat BY <1>0, <1>2
  <1>c. y = Ranged([start |-> s, end |-> e], n) BY <1>b
  <1>4. Wanted = {i \in 0 .. n - 1 : IF s = -1 THEN i >= n - e ELSE i >= s /\ (e = -1 \/ i <= e)}
    BY DEF Wanted
  <1>5. CASE s = -1
    <2>1. y.start = (IF e > n THEN 0 ELSE ssize_t(n - e)) /\ y.end = n - 1 BY <1>5, <1>c DEF Ranged
    <2>2. n - e \in Int /\ n - e < SsizeHalf BY <1>3, <1>5, RequestAssumption
    <2>3. ssize_t(n - e) = n - e BY <2>2, Wrapped
    <2>4. y.start = (IF e > n THEN 0 ELSE n - e) /\ y.end = n - 1 BY <2>1, <2>3
    <2>5. n \in Nat OBVIOUS
    <2> HIDE DEF s, e, n
    <2> QED BY <1>3, <1>4, <1>5, <2>4, <2>5 DEF n
  <1>6. CASE s # -1
    <2>2. y.start = s /\ y.end = IF e = -1 \/ e >= n THEN n - 1 ELSE e BY <1>6, <1>c DEF Ranged
    <2>3. n \in Nat OBVIOUS
    <2> HIDE DEF s, e, n
    <2> QED BY <1>0, <1>1, <1>4, <1>6, <2>2, <2>3 DEF n
  <1> QED BY <1>5, <1>6

LEMMA BytesAre ==
  ASSUME NEW a \in Int, NEW b \in Int, a <= b + 1
  PROVE  /\ Bytes(a, b) \in Seq(Int) /\ Len(Bytes(a, b)) = b - a + 1
         /\ \A i \in 1 .. b - a + 1 : Bytes(a, b)[i] = a + i - 1
  <1>1. b - a + 1 \in Nat OBVIOUS
  <1> QED BY <1>1 DEF Bytes

(* The response, element by element. *)
LEMMA WholeResponse ==
  ASSUME http_code = 200, req.length \in Nat
  PROVE  /\ Response \in Seq(Int) /\ Len(Response) = Whole
         /\ \A i \in 1 .. Whole : Response[i] = Element(i)
  <1>1. Whole \in Nat /\ Response = Bytes(0, Whole - 1)
    BY RequestAssumption DEF Response, WholeItem, Whole, ItemLength
  <1>2. 0 \in Int /\ Whole - 1 \in Int /\ 0 <= Whole - 1 + 1 /\ Whole - 1 - 0 + 1 = Whole BY <1>1
  <1>3. /\ Bytes(0, Whole - 1) \in Seq(Int) /\ Len(Bytes(0, Whole - 1)) = Whole
        /\ \A i \in 1 .. Whole : Bytes(0, Whole - 1)[i] = 0 + i - 1
    BY <1>2, BytesAre
  <1> QED BY <1>1, <1>3 DEF Element

(* The list u is t behind s. *)
Joins(s, t, u) ==
  /\ u \in Seq(Int) /\ Len(u) = Len(s) + Len(t)
  /\ \A i \in 1 .. Len(s) : u[i] = s[i]
  /\ \A i \in 1 .. Len(t) : u[Len(s) + i] = t[i]

LEMMA Joined == \A s, t \in Seq(Int) : Joins(s, t, s \o t)
  BY DEF Joins

(* The length of an answer with a part. *)
Part == 3 + Rest + IF req.method = "HEAD" THEN 0 ELSE Max(Wanted) - Min(Wanted) + 1

LEMMA PartResponse ==
  ASSUME http_code = 206, req.length \in Nat, Selected
  PROVE  /\ Response \in Seq(Int) /\ Len(Response) = Part
         /\ \A i \in 1 .. Part : Response[i] = Element(i)
  <1> DEFINE a == Min(Wanted)
             b == Max(Wanted)
             x == <<-206, a, b>>
             y == Bytes(StatusLine, HeaderLength - 1)
             z == IF req.method = "HEAD" THEN <<>> ELSE Bytes(HeaderLength + a, HeaderLength + b)
             k == IF req.method = "HEAD" THEN 0 ELSE b - a + 1
  <1>1. a \in Nat /\ b \in Nat /\ a <= b
    <2>1. a = range.start /\ b = range.end BY MinMax DEF Selected
    <2> QED BY <2>1 DEF Selected
  <1>2. Response = (x \o y) \o z
    <2>1. Response = PartOfItem BY DEF Response
    <2> QED BY <2>1, Zenon DEF PartOfItem
  <1>3. Rest \in Nat /\ StatusLine \in Nat /\ HeaderLength \in Nat /\ Rest = HeaderLength - StatusLine
    BY RequestAssumption DEF Rest
  <1> HIDE DEF a, b
  <1>4. x \in Seq(Int) /\ Len(x) = 3 /\ x[1] = -206 /\ x[2] = a /\ x[3] = b BY <1>1
  <1>5. y \in Seq(Int) /\ Len(y) = Rest /\ \A i \in 1 .. Rest : y[i] = StatusLine + i - 1
    <2>1. /\ StatusLine \in Int /\ HeaderLength - 1 \in Int /\ StatusLine <= HeaderLength - 1 + 1
          /\ HeaderLength - 1 - StatusLine + 1 = Rest
      BY <1>3
    <2> QED BY <2>1, BytesAre
  <1>6. z \in Seq(Int) /\ Len(z) = k /\ k \in Nat /\ \A i \in 1 .. k : z[i] = HeaderLength + a + i - 1
    <2>1. CASE req.method = "HEAD" BY <2>1
    <2>2. CASE req.method # "HEAD"
      <3>1. /\ HeaderLength + a \in Int /\ HeaderLength + b \in Int /\ HeaderLength + a <= HeaderLength + b + 1
            /\ HeaderLength + b - (HeaderLength + a) + 1 = b - a + 1
        BY <1>1, <1>3
      <3>2. z = Bytes(HeaderLength + a, HeaderLength + b) /\ k = b - a + 1 BY <2>2
      <3> HIDE DEF z, k
      <3>3. k \in Nat BY <1>1, <3>2
      <3>4. /\ z \in Seq(Int) /\ Len(z) = k
            /\ \A i \in 1 .. k : z[i] = HeaderLength + a + i - 1
        <4>1. PICK f, l : f = HeaderLength + a /\ l = HeaderLength + b OBVIOUS
        <4>2. f \in Int /\ l \in Int /\ f <= l + 1 /\ l - f + 1 = k BY <1>1, <1>3, <3>2, <4>1
        <4>3. z = Bytes(f, l) BY <3>2, <4>1
        <4>4. /\ Bytes(f, l) \in Seq(Int) /\ Len(Bytes(f, l)) = k
              /\ \A i \in 1 .. k : Bytes(f, l)[i] = f + i - 1
          BY <4>2, BytesAre
        <4> QED BY <4>1, <4>3, <4>4
      <3> QED BY <3>3, <3>4
    <2> QED BY <2>1, <2>2
  <1>7. Part = 3 + Rest + k BY DEF Part, a, b
  <1> HIDE DEF x, y, z, k
  <1>a. PICK u : u = x \o y OBVIOUS
  <1>b. Joins(x, y, u) BY <1>4, <1>5, <1>a, Joined, Zenon
  <1>8. /\ u \in Seq(Int) /\ Len(u) = 3 + Rest
        /\ \A i \in 1 .. 3 : u[i] = x[i]
        /\ \A i \in 1 .. Rest : u[3 + i] = y[i]
    BY <1>4, <1>5, <1>b DEF Joins
  <1>c. Joins(u, z, Response) BY <1>2, <1>6, <1>8, <1>a, Joined, Zenon
  <1>9. /\ Response \in Seq(Int) /\ Len(Response) = 3 + Rest + k
        /\ \A i \in 1 .. 3 + Rest : Response[i] = u[i]
        /\ \A i \in 1 .. k : Response[3 + Rest + i] = z[i]
    BY <1>6, <1>8, <1>c DEF Joins
  <1>10. ASSUME NEW i \in 1 .. Part PROVE Response[i] = Element(i)
    <2>0. i \in Nat /\ i >= 1 /\ i <= 3 + Rest + k BY <1>3, <1>6, <1>7
    <2>1. CASE i <= 3
      <3>a. i \in 1 .. 3 /\ i \in 1 .. 3 + Rest BY <1>3, <2>0, <2>1
      <3>b. Response[i] = u[i] BY <1>9, <3>a
      <3>1. Response[i] = x[i] BY <1>8, <3>a, <3>b
      <3>2. i = 1 \/ i = 2 \/ i = 3 BY <2>0, <2>1
      <3>3. Element(i) = IF i = 1 THEN -206 ELSE IF i = 2 THEN a ELSE b
        BY <3>2 DEF Element, a, b
      <3> QED BY <1>4, <3>1, <3>2, <3>3
    <2>2. CASE 3 < i /\ i <= 3 + Rest
      <3>1. i - 3 \in 1 .. Rest /\ i = 3 + (i - 3) BY <1>3, <2>0, <2>2
      <3>a. i \in 1 .. 3 + Rest BY <1>3, <2>0, <2>2
      <3>b. Response[i] = u[i] BY <1>9, <3>a
      <3>c. u[3 + (i - 3)] = y[i - 3] BY <1>8, <3>1
      <3>2. Response[i] = y[i - 3] BY <3>1, <3>b, <3>c
      <3> QED BY <1>3, <1>5, <2>2, <3>1, <3>2 DEF Element
    <2>3. CASE 3 + Rest < i
      <3>1. i - 3 - Rest \in 1 .. k /\ i = 3 + Rest + (i - 3 - Rest) BY <1>3, <1>6, <2>0, <2>3
      <3>a. Response[3 + Rest + (i - 3 - Rest)] = z[i - 3 - Rest] BY <1>9, <3>1
      <3>2. Response[i] = z[i - 3 - Rest] BY <3>1, <3>a
      <3>3. z[i - 3 - Rest] = HeaderLength + a + (i - 3 - Rest) - 1 BY <1>6, <3>1
      <3>4. Element(i) = HeaderLength + a + i - 4 - Rest BY <1>3, <2>0, <2>3 DEF Element, a
      <3> QED BY <1>1, <1>3, <2>0, <3>2, <3>3, <3>4
    <2> QED BY <1>3, <2>0, <2>1, <2>2, <2>3
  <1> QED BY <1>7, <1>9, <1>10

LEMMA SendInit == RequestInit => SendShape
  BY DEF RequestInit, SendShape

LEMMA SendReset == ASSUME request_reset PROVE SendShape'
  BY DEF request_reset, SendShape

(* Nothing that the response depends on changes. *)
LEMMA SameResponse ==
  ASSUME UNCHANGED <<req, http_code>>
  PROVE  /\ Wanted' = Wanted /\ Response' = Response /\ Whole' = Whole
         /\ \A i : Element(i)' = Element(i)
  BY DEF Wanted, Response, WholeItem, PartOfItem, Whole, Element, ItemLength

LEMMA PrefixOf ==
  ASSUME NEW s \in Seq(Int), NEW t \in Seq(Int), Len(s) <= Len(t), \A i \in 1 .. Len(s) : s[i] = t[i]
  PROVE  IsPrefix(s, t) /\ (Len(s) = Len(t) => s = t)
  <1>1. SubSeq(s, 1, Len(s)) = SubSeq(t, 1, Len(s)) OBVIOUS
  <1> QED BY <1>1, SMTT(20) DEF IsPrefix

(* A piece is added to what was sent. *)
LEMMA SentMore ==
  ASSUME NEW m \in Nat, Sent(m), NEW n \in Nat, NEW s \in Int,
         output' = output \o [i \in 1 .. n |-> s + i - 1],
         UNCHANGED <<req, http_code>>, \A i \in 1 .. n : Element(m + i) = s + i - 1
  PROVE  Sent(m + n)'
  <1> DEFINE t == [i \in 1 .. n |-> s + i - 1]
  <1>1. t \in Seq(Int) /\ Len(t) = n /\ \A i \in 1 .. n : t[i] = s + i - 1 OBVIOUS
  <1>2. output \in Seq(Int) /\ Len(output) = m /\ \A i \in 1 .. m : output[i] = Element(i)
    BY DEF Sent
  <1> HIDE DEF t
  <1>3. Joins(output, t, output') BY <1>1, <1>2, Joined, Zenon DEF t
  <1>4. /\ output' \in Seq(Int) /\ Len(output') = m + n
        /\ \A i \in 1 .. m : output'[i] = output[i]
        /\ \A i \in 1 .. n : output'[m + i] = t[i]
    BY <1>1, <1>2, <1>3 DEF Joins
  <1>5. ASSUME NEW i \in 1 .. m + n PROVE output'[i] = Element(i)
    <2>1. CASE i <= m
      <3>1. i \in 1 .. m BY <2>1
      <3> QED BY <1>2, <1>4, <3>1
    <2>2. CASE i > m
      <3>1. i - m \in 1 .. n /\ m + (i - m) = i BY <2>2
      <3>2. output'[m + (i - m)] = s + (i - m) - 1 BY <1>1, <1>4, <3>1
      <3>3. Element(m + (i - m)) = s + (i - m) - 1 BY <3>1
      <3> QED BY <3>1, <3>2, <3>3
    <2>3. i <= m \/ i > m OBVIOUS
    <2> QED BY <2>1, <2>2, <2>3
  <1>6. \A i : Element(i)' = Element(i) BY SameResponse
  <1> QED BY <1>4, <1>5, <1>6 DEF Sent

(* The m elements of the response. *)
Elements(m) ==
  /\ Response \in Seq(Int) /\ Len(Response) = m
  /\ \A i \in 1 .. m : Response[i] = Element(i)

(* Sending ends, early only with an error. *)
LEMMA SendEnds ==
  ASSUME handler' = "finalize", UNCHANGED <<req, http_code>>, http_code \in {200, 206},
         NEW n \in Nat, NEW m \in Nat, n <= m, Elements(m), Sent(n)',
         http_code = 206 => Wanted # {}, n = m \/ disk_error' \/ connection_broken'
  PROVE  SendShape'
  <1>1. /\ Wanted' = Wanted /\ Response' = Response
        /\ \A i : Element(i)' = Element(i)
    BY SameResponse
  <1>2. /\ output' \in Seq(Int) /\ Len(output') = n
        /\ \A i \in 1 .. n : output'[i] = Element(i)
    BY <1>1 DEF Sent
  <1>3. /\ Response \in Seq(Int) /\ Len(Response) = m /\ n <= m
        /\ \A i \in 1 .. n : output'[i] = Response[i]
    BY <1>2 DEF Elements
  <1>4. IsPrefix(output', Response) /\ (n = m => output' = Response)
    BY <1>2, <1>3, PrefixOf
  <1>5. IsPrefix(output, Response)' BY <1>1, <1>4 DEF IsPrefix
  <1>6. http_code' # 416 OBVIOUS
  <1> QED BY <1>1, <1>4, <1>5, <1>6 DEF SendShape

(* A call of request_send_file for the elements from base + 1 on. *)
LEMMA SendFileSends ==
  ASSUME NEW base \in Nat, NEW start \in Int, NEW length \in Int, NEW next,
         NEW sent \in Nat, process_size = sent, sent < length, Sent(base + sent),
         \A i \in 1 .. length : Element(base + i) = start + i - 1,
         request_send_file(start, length, next)
  PROVE  /\ UNCHANGED <<req, http_code, range>>
         /\ \/ /\ handler' = "finalize" /\ (disk_error' \/ connection_broken')
               /\ Sent(base + sent)'
            \/ \E k \in sent + 1 .. length :
                 /\ Sent(base + k)'
                 /\ process_size' = IF next = "write_response_206_body" /\ k = length THEN 0 ELSE k
                 /\ handler' = IF k = length THEN next ELSE handler
  <1>1. CASE Broken \/ (disk_error' = TRUE /\ handler' = "finalize" /\ UNCHANGED <<req, http_code, range, output>>)
    <2>1. /\ UNCHANGED <<req, http_code, range, output>> /\ handler' = "finalize"
          /\ disk_error' \/ connection_broken'
      BY <1>1 DEF Broken
    <2>2. \A i : Element(i)' = Element(i) BY <2>1, SameResponse
    <2>3. Sent(base + sent)' BY <2>1, <2>2 DEF Sent
    <2> QED BY <2>1, <2>3
  <1>2. ASSUME NEW n \in 1 .. length - process_size,
               output' = output \o [i \in 1 .. n |-> start + process_size + i - 1],
               process_size' = IF next = "write_response_206_body" /\ process_size + n = length
                               THEN 0 ELSE process_size + n,
               handler' = IF process_size + n = length THEN next ELSE handler,
               UNCHANGED <<req, http_code, range>>
        PROVE  \E k \in sent + 1 .. length :
                 /\ Sent(base + k)'
                 /\ process_size' = IF next = "write_response_206_body" /\ k = length THEN 0 ELSE k
                 /\ handler' = IF k = length THEN next ELSE handler
    <2> DEFINE m == base + sent
               s == start + sent
               k == sent + n
    <2>1. m \in Nat /\ s \in Int /\ n \in Nat /\ k \in sent + 1 .. length /\ m + n = base + k
      BY <1>2
    <2>2. ASSUME NEW i \in 1 .. n PROVE Element(m + i) = s + i - 1
      <3>1. sent + i \in 1 .. length /\ base + (sent + i) = m + i BY <1>2
      <3>2. Element(base + (sent + i)) = start + (sent + i) - 1 BY <3>1
      <3>3. start + (sent + i) - 1 = s + i - 1 BY <1>2
      <3> QED BY <3>1, <3>2, <3>3
    <2>3. Sent(m) /\ output' = output \o [i \in 1 .. n |-> s + i - 1] BY <1>2
    <2> HIDE DEF m, s
    <2>4. Sent(m + n)' BY <1>2, <2>1, <2>2, <2>3, SentMore
    <2>5. Sent(base + k)' BY <2>1, <2>4 DEF Sent
    <2> QED BY <1>2, <2>1, <2>5
  <1> QED BY <1>1, <1>2 DEF request_send_file, Broken

(* Where a handler of a response has come to, and what is left of it. *)
LEMMA SendingState ==
  ASSUME RequestInv, SendShape,
         handler \in {"write_response", "write_response_206_header_disk", "write_response_206_body"}
  PROVE  /\ http_code \in {200, 206} /\ (http_code = 206 => Wanted # {} /\ Selected)
         /\ \E n, m \in Nat : n <= m /\ Sent(n) /\ Elements(m)
  <1>1. req.length \in Nat /\ process_size \in Nat BY DEF RequestInv, RequestTypeOK
  <1>2. Rest \in Nat BY RequestAssumption DEF Rest
  <1>3. CASE handler = "write_response"
    <2>1. http_code = 200 /\ process_size < Whole /\ Sent(process_size) BY <1>3 DEF SendShape
    <2>2. Whole \in Nat BY <1>1, RequestAssumption DEF Whole, ItemLength
    <2>3. Elements(Whole) BY <1>1, <2>1, WholeResponse DEF Elements
    <2> QED BY <1>1, <2>1, <2>2, <2>3
  <1>4. ASSUME http_code = 206, Selected, NEW n \in Nat, Sent(n), n <= Part
        PROVE  /\ Wanted # {} /\ Part \in Nat /\ Elements(Part)
    <2>1. Wanted # {} BY <1>4 DEF Selected
    <2>2. Elements(Part) BY <1>1, <1>4, PartResponse DEF Elements
    <2>3. Part \in Nat
      <3>1. Min(Wanted) = range.start /\ Max(Wanted) = range.end BY <1>4, MinMax DEF Selected
      <3> QED BY <1>2, <1>4, <3>1 DEF Part, Selected
    <2> QED BY <2>1, <2>2, <2>3
  <1>5. CASE handler = "write_response_206_header_disk"
    <2>1. http_code = 206 /\ Selected /\ process_size < Rest /\ Sent(3 + process_size)
      BY <1>5 DEF SendShape
    <2>2. 3 + process_size <= Part
      <3>1. Min(Wanted) = range.start /\ Max(Wanted) = range.end BY <2>1, MinMax DEF Selected
      <3> QED BY <1>1, <1>2, <2>1, <3>1 DEF Part, Selected
    <2>3. 3 + process_size \in Nat BY <1>1
    <2> QED BY <1>4, <2>1, <2>2, <2>3
  <1>6. CASE handler = "write_response_206_body"
    <2>1. /\ http_code = 206 /\ Selected /\ process_size < range.end - range.start + 1
          /\ Sent(3 + Rest + process_size) /\ req.method # "HEAD"
      BY <1>6 DEF SendShape
    <2>2. 3 + Rest + process_size <= Part
      <3>1. Min(Wanted) = range.start /\ Max(Wanted) = range.end BY <2>1, MinMax DEF Selected
      <3> QED BY <1>1, <1>2, <2>1, <3>1 DEF Part, Selected
    <2>3. 3 + Rest + process_size \in Nat BY <1>1, <1>2
    <2> QED BY <1>4, <2>1, <2>2, <2>3
  <1> QED BY <1>3, <1>5, <1>6

(* A broken connection, or nothing sent yet. *)
LEMMA BrokenSends ==
  ASSUME RequestInv, SendShape, Broken, handler \notin {"finalize", "do_finalize"}
  PROVE  SendShape'
  <1>1. /\ connection_broken' = TRUE /\ handler' = "finalize"
        /\ UNCHANGED <<req, http_code, output>>
    BY DEF Broken
  <1>2. CASE handler \in {"write_response", "write_response_206_header_disk", "write_response_206_body"}
    <2>1. /\ http_code \in {200, 206} /\ (http_code = 206 => Wanted # {})
          /\ \E n, m \in Nat : n <= m /\ Sent(n) /\ Elements(m)
      BY <1>2, SendingState
    <2>2. PICK n, m \in Nat : n <= m /\ Sent(n) /\ Elements(m) BY <2>1
    <2>3. \A i : Element(i)' = Element(i) BY <1>1, SameResponse
    <2>4. Sent(n)' BY <1>1, <2>2, <2>3 DEF Sent
    <2> QED BY <1>1, <2>1, <2>2, <2>4, SendEnds
  <1>3. CASE handler \notin {"write_response", "write_response_206_header_disk", "write_response_206_body"}
    <2>1. output = <<>> /\ http_code # 416
      BY <1>3 DEF RequestInv, RequestTypeOK, HandlerShape, Sending, SendShape
    <2> QED BY <1>1, <2>1 DEF SendShape
  <1> QED BY <1>2, <1>3

(* Nothing is sent before the end of a request without a response. *)
LEMMA NothingSent ==
  ASSUME output' = <<>>,
         handler' \in {"finalize", "put_read_request_body_preread", "put_read_request_body"},
         http_code' \notin {200, 206, 416}
  PROVE  SendShape'
  BY DEF SendShape

LEMMA HeaderSends ==
  ASSUME RequestInv, SendShape, request_read_request_header
  PROVE  SendShape'
  <1>a. /\ handler = "read_request_header" /\ process_size = 0 /\ output = <<>>
    BY DEF request_read_request_header, RequestInv, HandlerShape
  <1>1. ASSUME NEW r \in Parsed, ReadGet(r)
        PROVE  SendShape'
    <2>1. req' = r /\ range' = http_parse_get_range(r.range) /\ output' = <<>> /\ process_size' = 0
      BY <1>1, <1>a DEF ReadGet, Answered
    <2>2. \/ handler' = "finalize" /\ http_code' \in {404, 500}
          \/ r.range # NoRange /\ handler' = "write_response_206_header_mem" /\ http_code' = 206
          \/ handler' = "write_response" /\ http_code' = 200
      BY <1>1 DEF ReadGet, Answered
    <2>3. CASE handler' = "finalize" /\ http_code' \in {404, 500}
      BY <2>1, <2>3, NothingSent
    <2>4. CASE r.range # NoRange /\ handler' = "write_response_206_header_mem" /\ http_code' = 206
      <3>1. r.range \in Written \ {NoRange} BY <2>4, ParsedFields
      <3> QED BY <2>1, <2>4, <3>1 DEF SendShape
    <2>5. CASE handler' = "write_response" /\ http_code' = 200
      <3>1. Sent(0)' BY <2>1 DEF Sent
      <3>2. 0 < Whole'
        <4>1. req'.length \in Nat BY <2>1, ParsedFields
        <4> QED BY <4>1, RequestAssumption DEF Whole, ItemLength
      <3>3. Sent(process_size)' BY <2>1, <3>1 DEF Sent
      <3> QED BY <2>1, <2>5, <3>2, <3>3 DEF SendShape
    <2> QED BY <2>2, <2>3, <2>4, <2>5
  <1>2. ASSUME NEW r \in Parsed, NEW early \in BodyLengths, ReadPut(r, early)
        PROVE  SendShape'
    <2>1. /\ output' = <<>> /\ http_code' \in {201, 204, 500}
          /\ handler' \in {"finalize", "put_read_request_body_preread"}
      BY <1>2, <1>a DEF ReadPut, Answered
    <2> QED BY <2>1, NothingSent
  <1>3. ASSUME NEW r \in Parsed, ReadDelete(r)
        PROVE  SendShape'
    <2>1. output' = <<>> /\ http_code' \in {204, 404} /\ handler' = "finalize"
      BY <1>3, <1>a DEF ReadDelete, Answered
    <2> QED BY <2>1, NothingSent
  <1>4. ASSUME ReadBad
        PROVE  SendShape'
    BY <1>4, <1>a, NothingSent DEF ReadBad, Answered
  <1>5. ASSUME Broken
        PROVE  SendShape'
    BY <1>5, <1>a, BrokenSends
  <1> QED BY <1>1, <1>2, <1>3, <1>4, <1>5 DEF request_read_request_header

LEMMA PutSends ==
  ASSUME RequestInv, SendShape, request_put_read_request_body_preread \/ request_put_read_request_body
  PROVE  SendShape'
  <1>1. /\ handler \in {"put_read_request_body_preread", "put_read_request_body"}
        /\ output = <<>> /\ http_code \in {201, 204}
    BY DEF RequestInv, HandlerShape, request_put_read_request_body_preread, request_put_read_request_body
  <1>2. ASSUME Broken PROVE SendShape' BY <1>1, <1>2, BrokenSends
  <1>3. ASSUME NEW n, Writes(n, "put_read_request_body") PROVE SendShape'
    <2>1. output' = <<>> /\ http_code' \in {201, 204, 500} /\ handler' \in {"finalize", "put_read_request_body"}
      BY <1>1, <1>3 DEF Writes
    <2> QED BY <2>1, NothingSent
  <1>4. CASE request_put_read_request_body_preread
    BY <1>3, <1>4 DEF request_put_read_request_body_preread
  <1>5. CASE request_put_read_request_body
    <2>1. handler = "put_read_request_body" BY <1>5 DEF request_put_read_request_body
    <2>2. \/ Broken \/ \E n : Writes(n, "put_read_request_body")
          \/ output' = output /\ handler' = "finalize" /\ http_code' \in {http_code, 400}
      BY <1>5, <2>1 DEF request_put_read_request_body
    <2> QED BY <1>1, <1>2, <1>3, <2>2, NothingSent
  <1> QED BY <1>4, <1>5

LEMMA WholeSends ==
  ASSUME RequestInv, SendShape, request_get_write_response
  PROVE  SendShape'
  <1>1. /\ handler = "write_response" /\ http_code = 200 /\ process_size \in Nat /\ req.length \in Nat
        /\ process_size < Whole /\ Sent(process_size) /\ request_send_file(0, Whole, "finalize")
    BY DEF request_get_write_response, SendShape, RequestInv, RequestTypeOK, Whole
  <1>2. Whole \in Nat BY <1>1, RequestAssumption DEF Whole, ItemLength
  <1>3. PICK m \in Nat : m = Whole BY <1>2
  <1>4. Elements(m) BY <1>1, <1>3, WholeResponse DEF Elements
  <1>5. PICK sent \in Nat : sent = process_size BY <1>1
  <1>6. \A i \in 1 .. m : Element(0 + i) = 0 + i - 1 BY <1>1 DEF Element
  <1>7. 0 + sent = sent /\ Sent(0 + sent) BY <1>1, <1>5
  <1>8. /\ UNCHANGED <<req, http_code, range>>
        /\ \/ handler' = "finalize" /\ (disk_error' \/ connection_broken') /\ Sent(0 + sent)'
           \/ \E k \in sent + 1 .. m :
                /\ Sent(0 + k)'
                /\ process_size' = IF "finalize" = "write_response_206_body" /\ k = m THEN 0 ELSE k
                /\ handler' = IF k = m THEN "finalize" ELSE handler
    <2>1. 0 \in Nat /\ 0 \in Int /\ m \in Int /\ sent < m /\ process_size = sent BY <1>1, <1>3, <1>5
    <2>2. request_send_file(0, m, "finalize") BY <1>1, <1>3
    <2> QED BY <1>6, <1>7, <2>1, <2>2, SendFileSends
  <1>9. CASE handler' = "finalize" /\ (disk_error' \/ connection_broken') /\ Sent(0 + sent)'
    BY <1>1, <1>3, <1>4, <1>5, <1>7, <1>8, <1>9, SendEnds
  <1>10. ASSUME NEW k \in sent + 1 .. m, Sent(0 + k)', process_size' = k,
                handler' = IF k = m THEN "finalize" ELSE handler
         PROVE  SendShape'
    <2>1. 0 + k = k /\ k \in Nat /\ k <= m BY <1>10
    <2>2. CASE k = m BY <1>1, <1>4, <1>8, <1>10, <2>1, <2>2, SendEnds
    <2>3. CASE k # m
      <3>1. Whole' = m BY <1>3, <1>8, SameResponse
      <3>2. Sent(process_size)' BY <1>10, <2>1 DEF Sent
      <3> QED BY <1>1, <1>8, <1>10, <2>1, <2>3, <3>1, <3>2 DEF SendShape
    <2> QED BY <2>2, <2>3
  <1> QED BY <1>8, <1>9, <1>10

LEMMA PartBegins ==
  ASSUME RequestInv, SendShape, Fits, request_get_write_response_206_header_mem
  PROVE  SendShape'
  <1>1. /\ http_code = 206 /\ process_size = 0 /\ output = <<>>
        /\ req.length \in Nat /\ req.length < SsizeHalf
        /\ req.range \in Written \ {NoRange} /\ range = http_parse_get_range(req.range)
        /\ range' = Ranged(range, req.length) /\ UNCHANGED <<req, process_size>>
    BY DEF request_get_write_response_206_header_mem, SendShape, RequestInv, RequestTypeOK
  <1>2. /\ range'.start >= req.length => Wanted = {}
        /\ range'.start < req.length => /\ Wanted = range'.start .. range'.end
                                        /\ range'.start \in Nat /\ range'.end \in Nat
                                        /\ range'.start <= range'.end
    BY <1>1, RangedSelects
  <1>3. Wanted' = Wanted BY <1>1 DEF Wanted
  <1>4. CASE range'.start >= req.length /\ http_code' = 416 /\ handler' = "finalize" /\ UNCHANGED output
    BY <1>1, <1>2, <1>3, <1>4, SMTT(20) DEF SendShape
  <1>5. CASE /\ range'.start < req.length
             /\ output' = <<-206, range'.start, range'.end>> /\ handler' = "write_response_206_header_disk"
             /\ UNCHANGED http_code
    <2>1. Selected' BY <1>2, <1>3, <1>5 DEF Selected
    <2>2. Min(Wanted') = range'.start /\ Max(Wanted') = range'.end BY <1>2, <1>3, <1>5, MinMax
    <2>3. PICK a, b \in Int : a = range'.start /\ b = range'.end /\ output' = <<-206, a, b>>
      BY <1>2, <1>5
    <2>4. /\ output' \in Seq(Int) /\ Len(output') = 3
          /\ output'[1] = -206 /\ output'[2] = a /\ output'[3] = b
      BY <2>3
    <2>5. Element(1)' = -206 /\ Element(2)' = a /\ Element(3)' = b
      BY <1>1, <1>5, <2>2, <2>3 DEF Element
    <2>6. \A i \in 1 .. 3 : i = 1 \/ i = 2 \/ i = 3 OBVIOUS
    <2>7. Sent(3)' BY <2>4, <2>5, <2>6 DEF Sent
    <2>8. Sent(3 + process_size)' BY <1>1, <2>7 DEF Sent
    <2>9. process_size' < Rest BY <1>1, RequestAssumption DEF Rest
    <2> QED BY <1>1, <1>5, <2>1, <2>8, <2>9 DEF SendShape, Rest
  <1>6. CASE connection_broken' = TRUE /\ handler' = "finalize" /\ UNCHANGED <<http_code, output>>
    BY <1>1, <1>6, SMTT(20) DEF SendShape
  <1> QED BY <1>4, <1>5, <1>6 DEF request_get_write_response_206_header_mem

(* The stored header, and then the part, behind the status line. *)
LEMMA PartSends ==
  ASSUME RequestInv, SendShape,
         request_get_write_response_206_header_disk \/ request_get_write_response_206_body
  PROVE  SendShape'
  <1>1. /\ handler \in {"write_response_206_header_disk", "write_response_206_body"}
        /\ http_code = 206 /\ Selected /\ process_size \in Nat /\ req.length \in Nat
    BY DEF request_get_write_response_206_header_disk, request_get_write_response_206_body,
           SendShape, RequestInv, RequestTypeOK
  <1>2. /\ Rest \in Nat /\ Rest > 0 /\ StatusLine \in Nat /\ HeaderLength \in Nat
        /\ Rest = HeaderLength - StatusLine
    BY RequestAssumption DEF Rest
  <1>3. PICK a, b \in Nat : range.start = a /\ range.end = b /\ a <= b /\ Wanted = a .. b
    BY <1>1 DEF Selected
  <1>4. Min(Wanted) = a /\ Max(Wanted) = b /\ Wanted # {} BY <1>3, MinMax
  <1>5. PICK sent \in Nat : sent = process_size BY <1>1
  <1>6. PICK m \in Nat : m = 3 + Rest + IF req.method = "HEAD" THEN 0 ELSE b - a + 1
    BY <1>2, <1>3
  <1>7. Elements(m)
    <2>1. Part = m BY <1>4, <1>6 DEF Part
    <2> QED BY <1>1, <2>1, PartResponse DEF Elements
  <1>8. CASE request_get_write_response_206_header_disk
    <2> DEFINE next == IF req.method = "HEAD" THEN "finalize" ELSE "write_response_206_body"
    <2>1. /\ handler = "write_response_206_header_disk" /\ sent < Rest /\ Sent(3 + process_size)
          /\ request_send_file(StatusLine, HeaderLength - StatusLine, next)
      BY <1>5, <1>8 DEF request_get_write_response_206_header_disk, SendShape
    <2>2. PICK nx : nx = next OBVIOUS
    <2>a. PICK k0 \in Nat : k0 = Rest BY <1>2
    <2>b. request_send_file(StatusLine, k0, nx) BY <1>2, <2>1, <2>2, <2>a
    <2>3. Sent(3 + sent) /\ 3 \in Nat BY <1>5, <2>1
    <2>4. \A i \in 1 .. k0 : Element(3 + i) = StatusLine + i - 1
      BY <1>1, <1>2, <2>a DEF Element
    <2>5. /\ UNCHANGED <<req, http_code, range>>
          /\ \/ handler' = "finalize" /\ (disk_error' \/ connection_broken') /\ Sent(3 + sent)'
             \/ \E k \in sent + 1 .. k0 :
                  /\ Sent(3 + k)'
                  /\ process_size' = IF nx = "write_response_206_body" /\ k = k0 THEN 0 ELSE k
                  /\ handler' = IF k = k0 THEN nx ELSE handler
      BY <1>2, <1>5, <2>1, <2>3, <2>4, <2>a, <2>b, SendFileSends
    <2>6. Selected' /\ Wanted' = Wanted BY <1>1, <2>5 DEF Selected, Wanted
    <2>7. CASE handler' = "finalize" /\ (disk_error' \/ connection_broken') /\ Sent(3 + sent)'
      <3>1. 3 + sent \in Nat /\ 3 + sent <= m BY <1>2, <1>3, <1>6, <2>1
      <3> QED BY <1>1, <1>4, <1>7, <2>5, <2>7, <3>1, SendEnds
    <2>8. ASSUME NEW k \in sent + 1 .. k0, Sent(3 + k)',
                 process_size' = IF nx = "write_response_206_body" /\ k = k0 THEN 0 ELSE k,
                 handler' = IF k = k0 THEN nx ELSE handler
          PROVE  SendShape'
      <3>1. k \in Nat /\ k <= k0 BY <2>8
      <3>2. CASE k # k0
        <4>1. process_size' = k /\ handler' = "write_response_206_header_disk" /\ k < Rest
          BY <2>1, <2>8, <2>a, <3>1, <3>2
        <4>2. Sent(3 + process_size)' BY <2>8, <4>1 DEF Sent
        <4> QED BY <1>1, <2>5, <2>6, <4>1, <4>2 DEF SendShape, Rest
      <3>3. CASE k = k0 /\ req.method = "HEAD"
        <4>1. handler' = "finalize" /\ 3 + k = m /\ 3 + k \in Nat BY <1>6, <2>2, <2>8, <2>a, <3>1, <3>3
        <4> QED BY <1>1, <1>4, <1>7, <2>5, <2>8, <4>1, SendEnds
      <3>4. CASE k = k0 /\ req.method # "HEAD"
        <4>1. handler' = "write_response_206_body" /\ process_size' = 0 /\ req' = req
          BY <2>2, <2>5, <2>8, <3>4
        <4>2. process_size' < range'.end - range'.start + 1 BY <1>3, <2>5, <4>1
        <4>3. 3 + k = 3 + Rest + 0 /\ Rest' = Rest BY <1>2, <2>a, <3>4 DEF Rest
        <4>4. Sent(3 + Rest + process_size)' BY <2>8, <4>1, <4>3 DEF Sent
        <4> QED BY <1>1, <2>5, <2>6, <3>4, <4>1, <4>2, <4>4 DEF SendShape
      <3> QED BY <3>2, <3>3, <3>4
    <2> QED BY <2>5, <2>7, <2>8
  <1>9. CASE request_get_write_response_206_body
    <2>1. /\ handler = "write_response_206_body" /\ sent < b - a + 1 /\ Sent(3 + Rest + process_size)
          /\ request_send_file(HeaderLength + a, b - a + 1, "finalize") /\ req.method # "HEAD"
      BY <1>3, <1>5, <1>9 DEF request_get_write_response_206_body, SendShape
    <2>2. PICK base \in Nat : base = 3 + Rest BY <1>2
    <2>a. PICK k0 \in Nat : k0 = b - a + 1 BY <1>3
    <2>b. PICK start \in Int : start = HeaderLength + a BY <1>2, <1>3
    <2>c. m = base + k0 BY <1>6, <2>1, <2>2, <2>a
    <2>3. Sent(base + sent) BY <1>5, <2>1, <2>2
    <2>4. ASSUME NEW i \in 1 .. k0 PROVE Element(base + i) = start + i - 1
      <3>1. base + i > 3 + Rest /\ base + i - 4 - Rest = i - 1 BY <1>2, <2>2
      <3>2. Element(base + i) = HeaderLength + a + (base + i) - 4 - Rest
        BY <1>1, <1>2, <1>4, <2>2, <3>1 DEF Element
      <3> QED BY <1>2, <1>3, <2>2, <2>b, <3>1, <3>2
    <2>5. /\ UNCHANGED <<req, http_code, range>>
          /\ \/ handler' = "finalize" /\ (disk_error' \/ connection_broken') /\ Sent(base + sent)'
             \/ \E k \in sent + 1 .. k0 :
                  /\ Sent(base + k)'
                  /\ process_size' = IF "finalize" = "write_response_206_body" /\ k = k0 THEN 0 ELSE k
                  /\ handler' = IF k = k0 THEN "finalize" ELSE handler
      BY <1>5, <2>1, <2>3, <2>4, <2>a, <2>b, SendFileSends
    <2>6. Selected' /\ Wanted' = Wanted BY <1>1, <2>5 DEF Selected, Wanted
    <2>7. CASE handler' = "finalize" /\ (disk_error' \/ connection_broken') /\ Sent(base + sent)'
      <3>1. base + sent \in Nat /\ base + sent <= m BY <2>1, <2>a, <2>c
      <3> QED BY <1>1, <1>4, <1>7, <2>5, <2>7, <3>1, SendEnds
    <2>8. ASSUME NEW k \in sent + 1 .. k0, Sent(base + k)', process_size' = k,
                 handler' = IF k = k0 THEN "finalize" ELSE handler
          PROVE  SendShape'
      <3>1. k \in Nat /\ k <= k0 BY <2>8
      <3>2. CASE k # k0
        <4>1. handler' = "write_response_206_body" /\ k < range'.end - range'.start + 1 /\ Rest' = Rest
          BY <1>3, <2>1, <2>5, <2>8, <2>a, <3>1, <3>2 DEF Rest
        <4>2. Sent(3 + Rest + process_size)' BY <2>2, <2>8, <4>1 DEF Sent
        <4> QED BY <1>1, <2>1, <2>5, <2>6, <2>8, <4>1, <4>2 DEF SendShape
      <3>3. CASE k = k0
        <4>1. handler' = "finalize" /\ base + k = m /\ base + k \in Nat BY <2>8, <2>c, <3>1, <3>3
        <4> QED BY <1>1, <1>4, <1>7, <2>5, <2>8, <4>1, SendEnds
      <3> QED BY <3>2, <3>3
    <2> QED BY <2>5, <2>7, <2>8
  <1> QED BY <1>8, <1>9

LEMMA FinalizeSends ==
  ASSUME RequestInv, SendShape, request_finalize
  PROVE  SendShape'
  <1>0. handler = "finalize" BY DEF request_finalize
  <1>1. CASE http_code \notin http_code_page /\ request_reset BY <1>1, SendReset
  <1>2. CASE /\ handler' = "do_finalize" /\ UNCHANGED <<req, http_code, disk_error, output>>
             /\ connection_broken \/ output # <<>> \/ connection_broken'
             /\ connection_broken => connection_broken'
    <2>1. Wanted' = Wanted /\ Response' = Response BY <1>2, SameResponse
    <2>2. IsPrefix(output, Response)' <=> IsPrefix(output, Response) BY <1>2, <2>1 DEF IsPrefix
    <2> QED BY <1>0, <1>2, <2>1, <2>2 DEF SendShape
  <1>3. CASE /\ handler' = "do_finalize" /\ UNCHANGED <<req, http_code, disk_error, connection_broken>>
             /\ http_code \in http_code_page /\ output' = <<-http_code>>
    <2>1. Wanted' = Wanted /\ Response' = Response BY <1>3, SameResponse
    <2>2. http_code \in Nat /\ http_code # 200 /\ http_code # 206 BY <1>3 DEF http_code_page
    <2>3. Response = <<-http_code>> BY <2>2 DEF Response
    <2>4. output' \in Seq(Int) BY <1>3, <2>2
    <2>5. output' = Response' BY <1>3, <2>1, <2>3
    <2>6. IsPrefix(output', output') BY <2>4, PrefixOf
    <2>7. IsPrefix(output, Response)' BY <2>5, <2>6 DEF IsPrefix
    <2> QED BY <1>0, <1>3, <2>1, <2>2, <2>5, <2>7 DEF SendShape
  <1> QED BY <1>1, <1>2, <1>3 DEF request_finalize

(* Only a new request may have another range. *)
LEMMA FitsBefore ==
  ASSUME RequestInv, [RequestNext]_requestVars, Fits', ~request_reset
  PROVE  Fits
  <1>1. CASE handler = "read_request_header"
    <2>1. req = NoRequest BY <1>1 DEF RequestInv, HandlerShape
    <2> QED BY <2>1, RequestAssumption DEF Fits, NoRequest, NoRange, RANGE_NO_SET
  <1>2. CASE handler # "read_request_header"
    <2>1. ASSUME NEW start, NEW length, NEW next, request_send_file(start, length, next)
          PROVE  req' = req
      BY <2>1 DEF request_send_file, Broken
    <2>2. request_get_write_response \/ request_get_write_response_206_header_disk
          \/ request_get_write_response_206_body => req' = req
      BY <2>1 DEF request_get_write_response, request_get_write_response_206_header_disk,
                  request_get_write_response_206_body
    <2>3. req' = req
      BY <1>2, <2>2 DEF RequestNext, requestVars, request_read_request_header, Broken, Writes,
           request_put_read_request_body_preread, request_put_read_request_body,
           request_get_write_response_206_header_mem, request_timeout_handler,
           request_finalize, request_do_finalize
    <2> QED BY <2>3 DEF Fits
  <1> QED BY <1>1, <1>2

LEMMA StepSends ==
  ASSUME RequestInv, Fits, SendShape, [RequestNext]_requestVars
  PROVE  SendShape'
  <1>1. CASE request_timeout_handler
    BY <1>1, BrokenSends DEF request_timeout_handler
  <1>2. CASE request_do_finalize
    BY <1>2, SendReset DEF request_do_finalize
  <1>3. CASE UNCHANGED requestVars
    <2>1. /\ Wanted' = Wanted /\ Response' = Response /\ Whole' = Whole
          /\ \A i : Element(i)' = Element(i)
      BY <1>3, SameResponse DEF requestVars
    <2>2. UNCHANGED <<handler, req, http_code, connection_broken, disk_error, process_size, range, output>>
      BY <1>3 DEF requestVars
    <2>4. Selected' <=> Selected BY <2>1, <2>2 DEF Selected
    <2>5. IsPrefix(output, Response)' <=> IsPrefix(output, Response) BY <2>1, <2>2 DEF IsPrefix
    <2>6. /\ Sent(process_size)' <=> Sent(process_size)
          /\ Sent(3 + process_size)' <=> Sent(3 + process_size)
          /\ Sent(3 + Rest + process_size)' <=> Sent(3 + Rest + process_size)
      BY <2>1, <2>2 DEF Sent, Rest
    <2> QED BY <2>1, <2>2, <2>4, <2>5, <2>6 DEF SendShape, Rest
  <1> QED BY <1>1, <1>2, <1>3, HeaderSends, PutSends, WholeSends, PartBegins, PartSends, FinalizeSends
          DEF RequestNext

-----------------------------------------------------------------------------
(* Theorems.                                                               *)

(* The strengthening: what each handler finds, how much of a body is stored *)
(* and how much is still on the socket.                                     *)
THEOREM RequestInvariant == RequestSpec => []RequestInv
  <1> QED BY InitShape, StepShape, PTL DEF RequestSpec

(* For bodies whose length item->length can hold (4G), received in pieces   *)
(* of any size: a PUT whose item stays (server_request_finalize) has each   *)
(* byte at its place in the block (request_put_read_request_body,           *)
(* request_write_disk), and whoever is told 201 has such an item.           *)
THEOREM BodiesStored == RequestSpec => []StoredExact
  <1>1. RequestInv => StoredExact
    <2> SUFFICES ASSUME RequestInv, handler = "do_finalize", req.method = "PUT", ItemLength < Uint32Size
                 PROVE  /\ server_request_finalize => \A i \in DOMAIN disk : disk[i] = i
                        /\ output = <<-201>> => server_request_finalize
      BY DEF StoredExact
    <2>1. /\ DOMAIN disk = 0 .. ItemLength - 1 /\ (item => Filled(process_size))
          /\ ~connection_broken /\ http_code = 201 => item /\ ~disk_error /\ process_size = ItemLength
          /\ output = <<-201>> => http_code = 201 /\ ~connection_broken
      BY DEF RequestInv, StoreShape
    <2>2. ItemLength \in Nat /\ process_size \in Nat
      BY RequestAssumption DEF RequestInv, RequestTypeOK, ItemLength
    <2>a. uint32_t(ItemLength) = ItemLength
      <3>1. \A n, m \in Nat : n < m => n % m = n OBVIOUS
      <3> QED BY <2>2, <3>1, RequestAssumption DEF uint32_t
    <2>3. server_request_finalize => \A i \in DOMAIN disk : disk[i] = i
      BY <2>1, <2>2, <2>a DEF server_request_finalize, Filled
    <2> QED BY <2>1, <2>2, <2>3, <2>a DEF server_request_finalize
  <1> QED BY <1>1, RequestInvariant, PTL

(* For bodies of any length: a connection that is kept after a request that *)
(* was not refused with 400 or 500, and was no GET, HEAD or DELETE that     *)
(* declared a body, has nothing of the declared body left on the socket     *)
(* (request_do_finalize, request_reset).                                    *)
THEOREM KeptConnectionsInSync == RequestSpec => []KeptInSync
  <1>1. RequestInv => KeptInSync
    BY DEF RequestInv, StoreShape, KeptInSync
  <1> QED BY <1>1, RequestInvariant, PTL

(* For items of any length, ranges of any kind whose numbers do not wrap in *)
(* a ssize_t (http_parse_get_range), and any pieces in which the socket     *)
(* takes the answer: what request_get_write_response and its 206            *)
(* counterparts send is a prefix of the one right response, all of it when  *)
(* the request ends without an error, and 416 answers only a range that     *)
(* selects nothing.                                                         *)
THEOREM ResponsesExact == RequestSpec => []ResponseExact
  <1>0. ASSUME RequestInv, Fits => SendShape, [RequestNext]_requestVars PROVE (Fits => SendShape)'
    <2>1. CASE request_reset BY <2>1, SendReset
    <2>2. CASE ~request_reset BY <1>0, <2>2, FitsBefore, StepSends
    <2> QED BY <2>1, <2>2
  <1>1. RequestSpec => [](Fits => SendShape)
    <2>1. RequestInit => (Fits => SendShape) BY SendInit
    <2> QED BY <1>0, <2>1, RequestInvariant, PTL DEF RequestSpec
  <1>2. ASSUME RequestInv, Fits => SendShape PROVE ResponseExact
    <2> SUFFICES ASSUME Fits PROVE ResponseExact BY DEF ResponseExact
    <2>0. SendShape BY <1>2
    <2>1. CASE handler \in {"finalize", "do_finalize"} BY <2>0, <2>1 DEF SendShape, ResponseExact
    <2>2. CASE handler \in {"write_response", "write_response_206_header_disk", "write_response_206_body"}
      <3>1. /\ http_code \in {200, 206} /\ (http_code = 206 => Wanted # {})
            /\ \E n, m \in Nat : n <= m /\ Sent(n) /\ Elements(m)
        BY <1>2, <2>0, <2>2, SendingState
      <3>2. PICK n, m \in Nat : n <= m /\ Sent(n) /\ Elements(m) BY <3>1
      <3>3. /\ output \in Seq(Int) /\ Len(output) = n /\ Response \in Seq(Int) /\ Len(Response) = m
            /\ \A i \in 1 .. n : output[i] = Element(i)
            /\ \A i \in 1 .. m : Response[i] = Element(i)
        BY <3>2 DEF Sent, Elements
      <3>4. \A i \in 1 .. n : output[i] = Response[i] BY <3>2, <3>3
      <3>5. IsPrefix(output, Response) BY <3>2, <3>3, <3>4, PrefixOf
      <3> QED BY <2>2, <3>1, <3>5 DEF ResponseExact
    <2>3. CASE handler \notin {"write_response", "write_response_206_header_disk", "write_response_206_body",
                               "finalize", "do_finalize"}
      <3>1. output = <<>> /\ http_code # 416
        BY <1>2, <2>0, <2>3 DEF RequestInv, RequestTypeOK, HandlerShape, Sending, SendShape
      <3> QED BY <2>3, <3>1 DEF ResponseExact
    <2> QED BY <2>1, <2>2, <2>3
  <1> QED BY <1>1, <1>2, RequestInvariant, PTL
=============================================================================
