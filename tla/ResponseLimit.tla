---------------------------- MODULE ResponseLimit ----------------------------
(***************************************************************************)
(* The cap on one backend response (pkg/kubernetes/responselimit.go): the    *)
(* round tripper that wraps a body, limitedBody, and the consumers ReadAll   *)
(* and AcceptTruncated.  The body below is any io.Reader: a read returns     *)
(* fewer bytes than there is room for, none at all, or bytes together with   *)
(* an error.                                                                *)
(***************************************************************************)
EXTENDS Integers

CONSTANTS
  BackendLimits,  \* what max_backend_response_bytes may be; 0 is no cap
  MaxBody         \* bound on the length of a body

ASSUME BackendAssumption == BackendLimits \subseteq Nat /\ MaxBody \in Nat

VARIABLES
  cap,      \* limitedBody.limit, 0 when the body is not wrapped
  size,     \* the length of the body
  sent,     \* bytes the body has handed out
  read,     \* limitedBody.read
  sticky,   \* limitedBody.err is set
  closed,   \* limitedBody.closed
  closes,   \* how often the body below was closed
  stalled,  \* the body made no progress in maxZeroReads reads
  got,      \* bytes the consumer has
  outcome   \* what the consumer knows

bodyVars == <<cap, size, sent, read, sticky, closed, closes, stalled, got, outcome>>

Outcomes == {"idle", "reading", "complete", "oversized", "broken", "unavailable"}

NoBody ==
  /\ cap = 0 /\ size = 0 /\ sent = 0 /\ read = 0 /\ got = 0 /\ closes = 0
  /\ sticky = FALSE /\ closed = FALSE /\ stalled = FALSE
  /\ outcome = "idle"

\* A body of n bytes under cap c, of which nothing was read.
Body(c, n, o) ==
  /\ cap' = c /\ size' = n /\ sent' = 0 /\ read' = 0 /\ got' = 0
  /\ closes' = IF o = "unavailable" THEN 1 ELSE 0
  /\ sticky' = FALSE /\ closed' = FALSE /\ stalled' = FALSE
  /\ outcome' = o

\* A response arrives.  An upgraded connection, the schema fetch and a limit of
\* 0 leave the body as it is; without a configuration the body is closed and the
\* request fails.
RoundTrip ==
  \E n \in 0 .. MaxBody :
    \/ \E c \in BackendLimits \cup {0} : Body(c, n, "reading")
    \/ Body(0, n, "unavailable")

-----------------------------------------------------------------------------
(* limitedBody.Read. *)

\* What a read of the body below may report besides its bytes.
Reports(at) == {"nil", "broken"} \cup (IF at = size THEN {"EOF"} ELSE {})

Conclude(report) ==
  outcome' = CASE report = "nil" -> "reading"
               [] report = "EOF" -> "complete"
               [] OTHER -> "broken"

\* fail: the error stays and the body is closed.
FailBody ==
  /\ sticky' = TRUE /\ closed' = TRUE
  /\ closes' = IF sticky THEN closes ELSE closes + 1
  /\ outcome' = "oversized"

\* Mutant: a reader that makes no progress is taken to be at its end.
PeekLenient(at, atEnd) ==
  \/ at < size /\ sent' = at + 1 /\ FailBody /\ UNCHANGED stalled
  \/ /\ sent' = at
     /\ Conclude(atEnd) \/ Conclude("broken")
     /\ UNCHANGED <<sticky, closed, closes, stalled>>

\* readByte at a place in the body, up to maxZeroReads times: a byte more, the
\* end, an error, or no progress, which counts as a byte more.
Peek(at, atEnd) ==
  \/ at < size /\ sent' = at + 1 /\ FailBody /\ UNCHANGED stalled
  \/ sent' = at /\ FailBody /\ stalled' = TRUE
  \/ /\ sent' = at
     /\ (at = size /\ Conclude(atEnd)) \/ Conclude("broken")
     /\ UNCHANGED <<sticky, closed, closes, stalled>>

\* A read below the cap, of at most the room there is.  The byte after the cap is
\* looked for as soon as the cap is reached.
ReadSome(n, report) ==
  /\ got' = got + n
  /\ report \in Reports(sent + n)
  /\ read' = IF cap = 0 THEN read ELSE read + n
  /\ IF cap = 0 \/ read + n < cap \/ report # "nil"
     THEN /\ Conclude(report)
          /\ sent' = sent + n
          /\ UNCHANGED <<sticky, closed, closes, stalled>>
     ELSE Peek(sent + n, "nil")

\* Read.  A consumer may call again after an error; io.ReadAll does not.
ReadBody ==
  /\ outcome \in {"reading", "oversized", "broken"}
  /\ ~closed \/ sticky
  /\ CASE sticky -> /\ outcome' = "oversized"
                    /\ UNCHANGED <<sent, read, got, sticky, closed, closes, stalled>>
       [] ~sticky /\ cap # 0 /\ read = cap -> Peek(sent, "EOF") /\ UNCHANGED <<read, got>>
       [] OTHER -> \E n \in 0 .. size - sent, report \in {"nil", "EOF", "broken"} :
            /\ cap # 0 => n <= cap - read
            /\ ReadSome(n, report)
  /\ UNCHANGED <<cap, size>>

\* The consumer closes what it got, whether it read to the end or not; a body
\* that is not wrapped is closed once.
CloseBody ==
  /\ outcome \notin {"idle", "unavailable"}
  /\ cap # 0 \/ ~closed
  /\ closed' = TRUE
  /\ closes' = IF closed THEN closes ELSE closes + 1
  /\ UNCHANGED <<cap, size, sent, read, sticky, stalled, got, outcome>>

-----------------------------------------------------------------------------
(* Properties. *)

BodyTypeOK ==
  /\ cap \in Nat /\ size \in Nat /\ sent \in 0 .. size /\ read \in Nat /\ got \in Nat
  /\ sticky \in BOOLEAN /\ closed \in BOOLEAN /\ stalled \in BOOLEAN
  /\ closes \in Nat
  /\ outcome \in Outcomes

\* limitedBody: "an over-cap response is not accepted as complete", whatever the
\* reader returns at the cap and however often the consumer calls again.
CompleteMeansWhole == outcome = "complete" => got = size /\ (cap # 0 => size <= cap)

\* LimitResponseBody "allows exactly limit bytes": a body of that length is
\* refused only when its reader stops making progress.
TooLargeMeansLonger == outcome = "oversized" => size > cap \/ stalled

\* A body that is too large is closed by then, and no body is closed twice
\* (fail, Close).
ClosedOnce == closes <= 1 /\ (outcome = "oversized" => closes = 1)
=============================================================================
