-------------------------- MODULE TransferArchive --------------------------
(***************************************************************************)
(* The message history a primary hands to a device it linked:              *)
(* get_transfer_archive (src/src/push_service/linking.rs) polls for it     *)
(* until a deadline, download_transfer_archive (push_service/cdn.rs)       *)
(* fetches it, from where an earlier download broke off.                   *)
(*                                                                         *)
(* Time is counted in ticks, Second to a second, so that a remaining time  *)
(* can be rounded up or down to the seconds the server is asked to wait.   *)
(***************************************************************************)
EXTENDS Naturals, Sequences

CONSTANTS Second,    \* ticks in a second
          Total,     \* total_timeout, in ticks
          PollCap,   \* the five minutes of one request, in seconds
          Leeway,    \* the fifteen seconds of HTTP leeway, in seconds
          Size,      \* of the archive
          MaxBreaks  \* bound on downloads that break off

ASSUME TransferAssumption ==
    /\ Second \in Nat \ {0} /\ Total \in Nat \ {0} /\ PollCap \in Nat \ {0}
    /\ Leeway \in Nat /\ Size \in Nat \ {0}

VARIABLES arch   \* one transfer: the poll, the clock, and the download

NotStarted == [pc |-> "off", now |-> 0, asked |-> 0, secs |-> 0, ready |-> FALSE,
               answer |-> "none", result |-> "none", file |-> <<>>, total |-> 0, breaks |-> 0]
Over == [NotStarted EXCEPT !.pc = "over"]

-----------------------------------------------------------------------------
(* get_transfer_archive *)

Monus(a, b) == IF a > b THEN a - b ELSE 0
LesserOf(a, b) == IF a < b THEN a ELSE b

\* Mutant: part of a second counts as a whole one.
PollSecondsUp(remaining) ==
    (LesserOf(remaining, PollCap * Second) + Second - 1) \div Second
\* Duration::as_secs_f64().round()
PollSeconds(remaining) ==
    (2 * LesserOf(remaining, PollCap * Second) + Second) \div (2 * Second)

StartPoll == arch.pc = "off" /\ arch' = [arch EXCEPT !.pc = "poll"]

Poll ==
    LET remaining == Monus(Total, arch.now) IN
    /\ arch.pc = "poll"
    /\ arch' = IF remaining = 0
               THEN [arch EXCEPT !.pc = "done", !.result = "Timeout"]
               ELSE [arch EXCEPT !.pc = "wait", !.asked = arch.now, !.answer = "none",
                                 !.secs = PollSeconds(remaining)]

HttpTimeout == arch.asked + (arch.secs + Leeway) * Second

\* External: the server answers as soon as there is an archive (or the primary
\* declined: 200 with an error), and with a 204 when the time it was given is over.
ServePoll ==
    /\ arch.pc = "wait" /\ arch.answer = "none"
    /\ \/ arch.ready /\ \E a \in {"Available", "Error"} : arch' = [arch EXCEPT !.answer = a]
       \/ /\ ~arch.ready /\ arch.now >= arch.asked + arch.secs * Second
          /\ arch' = [arch EXCEPT !.answer = "NoContent"]
       \/ \E a \in {"Empty", "OtherCode"} : arch' = [arch EXCEPT !.answer = a]

\* A round trip takes a tick at least: the requests of the last half second,
\* which ask the server not to wait, follow each other as fast as that.
TakeAnswer ==
    /\ arch.pc = "wait" /\ arch.answer # "none" /\ arch.now > arch.asked
    /\ arch' = IF arch.answer = "NoContent" THEN [arch EXCEPT !.pc = "poll"]
               ELSE [arch EXCEPT !.pc = "done", !.result = arch.answer]

HttpTimesOut ==
    /\ arch.pc = "wait" /\ arch.now >= HttpTimeout
    /\ arch' = [arch EXCEPT !.pc = "done", !.result = "Http"]

\* Time passes, never past what must happen at this time.
Tick ==
    /\ arch.pc = "wait" /\ arch.now < HttpTimeout
    /\ arch' = [arch EXCEPT !.now = @ + 1]

PrimaryUploads ==
    /\ arch.pc \in {"poll", "wait"} /\ ~arch.ready
    /\ arch' = [arch EXCEPT !.ready = TRUE]

-----------------------------------------------------------------------------
(* download_transfer_archive *)

StartDownload ==
    /\ arch.pc = "done" /\ arch.result = "Available"
    /\ arch' = [NotStarted EXCEPT !.pc = "fetch"]

\* External: what the CDN may answer for bytes from start on: the part, or,
\* when it does not know ranges, the whole object.
Responses(start) ==
    {[status |-> 200, from |-> 0, length |-> Size, range |-> 0]} \cup
    (IF start = 0 THEN {}
     ELSE {[status |-> 206, from |-> start, length |-> Size - start, range |-> Size]})

\* Mutant: whatever comes back for a range is taken.
AcceptedAny(start, response) == TRUE
Accepted(start, response) == start > 0 => response.status = 206

TotalBytes(start, response) == IF start = 0 THEN response.length ELSE response.range

\* A Content-Length, or for a part a Content-Range with its total and no
\* multipart body, or the frame is invalid.  The caller appends what it reads
\* and, when the stream breaks, asks for the rest.
Download ==
    LET start == Len(arch.file) IN
    /\ arch.pc = "fetch"
    /\ \E response \in Responses(start) :
         IF ~Accepted(start, response)
         THEN arch' = [arch EXCEPT !.pc = "done", !.result = "UnhandledResponseCode"]
         ELSE \/ arch' = [arch EXCEPT !.pc = "done", !.result = "InvalidFrame"]
              \/ \E n \in 0..response.length :
                   LET part == [k \in 1..n |-> response.from + k]
                       now == [arch EXCEPT !.file = @ \o part,
                                           !.total = TotalBytes(start, response)] IN
                   arch' = IF n = response.length THEN [now EXCEPT !.pc = "done", !.result = "Whole"]
                           ELSE IF arch.breaks = MaxBreaks
                                THEN [now EXCEPT !.pc = "done", !.result = "Broken"]
                                ELSE [now EXCEPT !.breaks = @ + 1]

Forget == arch.pc = "done" /\ arch.result # "Available" /\ arch' = Over

ArchiveStep == \/ StartPoll \/ Poll \/ ServePoll \/ TakeAnswer \/ HttpTimesOut \/ Tick
               \/ PrimaryUploads \/ StartDownload \/ Download \/ Forget

-----------------------------------------------------------------------------
(* Properties *)

\* get_transfer_archive gives up when its time is over and not before, and no
\* request outlives the deadline by more than rounding to a second and the
\* leeway of the HTTP timeout allow.
PollIsPunctual ==
    /\ arch.result = "Timeout" => arch.now >= Total
    /\ arch.pc = "wait" => 2 * arch.now <= 2 * (Total + Leeway * Second) + Second

\* What a caller has appended across broken downloads is a prefix of the
\* archive, and the total it was told is the size of the archive.
ArchiveIsWhole ==
    /\ arch.file = [k \in 1..Len(arch.file) |-> k]
    /\ arch.total \in {0, Size}
    /\ arch.result = "Whole" => Len(arch.file) = Size

=============================================================================
