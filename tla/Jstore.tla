------------------------------- MODULE Jstore -------------------------------
(***************************************************************************)
(* The nginx filter that fills the cache (nginx-jstore): it copies the     *)
(* body of a response that the cache missed and stores it with a           *)
(* subrequest.  One main request is followed from the location it enters   *)
(* to the end of its body.  nginx is external: it calls the access         *)
(* handler, then the header filter, then the body filter with one chain of *)
(* buffers after the other; the upstream may be done before its last       *)
(* buffers have been passed on.  The body is numbered units.               *)
(***************************************************************************)
EXTENDS Integers, SequencesExt

CONSTANTS
  Lengths,     \* of bodies, declared and real
  MaxSize,     \* jstore_max_size
  BufSizes,    \* sizes of a buffer of the body
  ClearsCtx    \* does this nginx clear the contexts on a redirect?

ASSUME JstoreAssumption ==
  /\ Lengths \subseteq Nat /\ MaxSize \in Nat /\ BufSizes \subseteq Nat /\ ClearsCtx \in BOOLEAN

VARIABLES
  phase,         \* what nginx calls next: "access", "header", "body", "end"
  status,        \* of the last upstream, 0 before the first
  ctx,           \* has the request a context?
  store_enable, subr_sent, copied_length,
  buf_chain,     \* the units in the chain, 0 for one that was not read
  response,      \* length: content_length_n, size: what really comes
  came,          \* the number of units that came
  handed,        \* the units handed to the next filter
  subrequests,   \* to: the location they go to, body: theirs
  lost           \* what failed and did not end the copying

ctxVars == <<ctx, subr_sent, copied_length, buf_chain>>

jstoreVars == <<phase, status, ctxVars, store_enable, response, came, handed, subrequests, lost>>

NoLength == -1

JstoreInit ==
  /\ phase = "access" /\ status = 0 /\ ctx = FALSE /\ store_enable = FALSE
  /\ subr_sent = FALSE /\ copied_length = 0 /\ buf_chain = <<>>
  /\ response = [length |-> NoLength, size |-> 0] /\ came = 0
  /\ handed = <<>> /\ subrequests = <<>> /\ lost = {}

(* target: the location has one.  Without memory there is no context. *)
ngx_http_jstore_handler(target) ==
  /\ phase = "access" /\ phase' = "header"
  /\ IF target /\ status = 404
     THEN store_enable' = FALSE /\ ctx' \in (IF ctx THEN {TRUE} ELSE BOOLEAN)
     ELSE UNCHANGED <<ctx, store_enable>>
  /\ UNCHANGED <<status, subr_sent, copied_length, buf_chain, response, came, handed, subrequests, lost>>

(* The upstream of the location fails and nginx redirects to another one. *)
Redirect ==
  /\ phase = "header" /\ phase' = "access" /\ status' \in {404, 500}
  /\ ctx' = (ctx /\ ~ClearsCtx)
  /\ UNCHANGED <<store_enable, subr_sent, copied_length, buf_chain, response, came, handed, subrequests, lost>>

-----------------------------------------------------------------------------
(* The header filter.                                                      *)

(* seen: the headers that the loop looks at from the first Cache-Control   *)
(* on, of which the later ones may be others.                              *)
ngx_http_jstore_check_cacheable(h) ==
  h.cacheable \/ (h.seen \subseteq {"max-age"} /\ h.expires # "past")

Headers == [cacheable : BOOLEAN, seen : SUBSET {"max-age", "other"}, expires : {"none", "past"}]

(* plain: status 200, no range, not only a header. *)
Fit(length, chunked, plain, checks, h) ==
  /\ length <= MaxSize /\ (length >= 0 \/ chunked) /\ plain
  /\ checks => ngx_http_jstore_check_cacheable(h)

ngx_http_jstore_header_filter ==
  /\ phase = "header" /\ phase' = "body"
  /\ \E length \in Lengths \cup {NoLength}, chunked, plain, checks \in BOOLEAN, h \in Headers :
       /\ store_enable' = (store_enable \/ (ctx /\ Fit(length, chunked, plain, checks, h)))
       /\ \E size \in Lengths : response' = [length |-> length, size |-> size]
  /\ subr_sent' = FALSE /\ copied_length' = 0 /\ buf_chain' = <<>>
  /\ UNCHANGED <<status, ctx, came, handed, subrequests, lost>>

-----------------------------------------------------------------------------
(* The body filter.                                                        *)

Pieces(from, n) == [i \in 1 .. n |-> from + i - 1]

(* A buffer without units is special; trouble is what fails.  A chain link *)
(* that cannot be had ends this call and not the copying, and a file that  *)
(* is too short leaves the end of the copy unwritten.                      *)
Buffers == [size : BufSizes, trouble : {"none", "temp_buf", "link", "read", "short"}]

(* The copy c takes the buffer, whose first unit has number c.next. *)
CopyBuf(c, buf) ==
  LET over == response.length >= 0 /\ buf.size + c.copied > response.length
      units == [i \in 1 .. buf.size |->
                  IF buf.trouble = "short" /\ i = buf.size THEN 0 ELSE c.next + i - 1]
      next == [c EXCEPT !.next = @ + buf.size]
  IN  CASE c.exit # "none" \/ buf.size = 0 -> next
        [] over \/ buf.trouble \in {"temp_buf", "read"} -> [next EXCEPT !.exit = "fail"]
        [] ~over /\ buf.trouble = "link" -> [next EXCEPT !.exit = "pipe", !.lost = @ \cup {"link"}]
        [] OTHER -> [next EXCEPT !.chain = @ \o units, !.copied = @ + buf.size,
                                 !.lost = @ \cup ({buf.trouble} \cap {"short"})]

CopyIn(in) ==
  FoldLeft(CopyBuf, [chain |-> buf_chain, copied |-> copied_length, next |-> came + 1,
                     exit |-> "none", lost |-> lost], in)

(* Mutant: a copy that is too short is stored. *)
Complete_Any(copied) == TRUE

Complete(copied) == response.length < 0 \/ copied = response.length

Size(in) == FoldLeft(LAMBDA n, buf : n + buf.size, 0, in)

HandOn(in, times) ==
  handed' = handed \o FlattenSeq([t \in 1 .. times |-> Pieces(came + 1, Size(in))])

KeepCopy(c) == ctx' = ctx /\ copied_length' = c.copied /\ buf_chain' = c.chain

GiveUp == ctx' = FALSE /\ copied_length' = 0 /\ buf_chain' = <<>>

(* A subrequest is made at the location of the main request, and then sent *)
(* to the target of that location.                                         *)
Post(to, body) == subrequests' = Append(subrequests, [to |-> to, body |-> body])

(* nginx calls again, or has passed the whole body on. *)
Goes(done) == phase' \in {"body"} \cup (IF done /\ came' = response.size THEN {"end"} ELSE {})

(* The main request first, then the subrequest.  If that cannot be made,   *)
(* or there is no memory for its body and it stays where it was made, the  *)
(* same buffers are handed on once more.  Without memory for its variables *)
(* the process may end, as nobody looks.                                   *)
StoreCopy(in, c, done) ==
  /\ subr_sent' = TRUE
  /\ \/ /\ HandOn(in, 1) /\ KeepCopy(c) /\ Post("target", c.chain) /\ Goes(done)
        /\ lost' = c.lost \cup (IF came' < response.size THEN {"early"} ELSE {})
     \/ /\ HandOn(in, 2) /\ GiveUp /\ Goes(done) /\ lost' = c.lost
        /\ UNCHANGED subrequests \/ Post("main", <<>>)
     \/ /\ HandOn(in, 1) /\ KeepCopy(c) /\ phase' = "end" /\ lost' = c.lost
        /\ UNCHANGED subrequests

(* done: the upstream is, or has no length left. *)
ngx_http_jstore_body_filter(in, done) ==
  /\ phase = "body" /\ came' = came + Size(in) /\ came' <= response.size
  /\ IF ~ctx \/ ~store_enable \/ subr_sent
     THEN HandOn(in, 1) /\ Goes(done) /\ UNCHANGED <<ctxVars, subrequests, lost>>
     ELSE LET c == CopyIn(in)
              stores == c.exit = "none" /\ done /\ Complete(c.copied)
              fails == c.exit = "fail" \/ (c.exit = "none" /\ done /\ ~Complete(c.copied))
          IN  \/ stores /\ StoreCopy(in, c, done)
              \/ /\ ~stores /\ (IF fails THEN GiveUp ELSE KeepCopy(c)) /\ Goes(done)
                 /\ HandOn(in, 1) /\ lost' = c.lost /\ UNCHANGED <<subr_sent, subrequests>>
  /\ UNCHANGED <<status, store_enable, response>>

(* The next request of nginx. *)
NextRequest ==
  /\ phase = "end" /\ phase' = "access" /\ status' = 0 /\ ctx' = FALSE /\ store_enable' = FALSE
  /\ subr_sent' = FALSE /\ copied_length' = 0 /\ buf_chain' = <<>>
  /\ response' = [length |-> NoLength, size |-> 0] /\ came' = 0
  /\ handed' = <<>> /\ subrequests' = <<>> /\ lost' = {}

JstoreNext ==
  \/ \E target \in BOOLEAN : ngx_http_jstore_handler(target)
  \/ Redirect
  \/ ngx_http_jstore_header_filter
  \/ \E in \in BoundedSeq(Buffers, 2) \ {<<>>}, done \in BOOLEAN : ngx_http_jstore_body_filter(in, done)
  \/ NextRequest

JstoreSpec == JstoreInit /\ [][JstoreNext]_jstoreVars

-----------------------------------------------------------------------------
(* Properties.                                                             *)

(* "now we have collect all response, so send a subrequest to store it":   *)
(* however the body is cut into buffers, whenever the upstream is done and *)
(* whichever of its buffers cannot be copied, at most one subrequest is    *)
(* made, only when the last status was 404, and the body of one that goes  *)
(* to the target is the whole response in its order.  One that stays at    *)
(* the main location, for want of memory, has no body.  No promise is made *)
(* of a file shorter than its buffer says, of a body longer than its       *)
(* declared length, and, without a declared length, after a refused chain  *)
(* link or when the upstream is done early.                                *)
StoresWhole ==
  \A n \in DOMAIN subrequests :
    /\ n = 1 /\ status = 404
    /\ \/ subrequests[n].to # "target"
       \/ subrequests[n].body = Pieces(1, response.size)
       \/ "short" \in lost
       \/ response.length >= 0 /\ response.size > response.length
       \/ response.length < 0 /\ lost \cap {"link", "early"} # {}
=============================================================================
