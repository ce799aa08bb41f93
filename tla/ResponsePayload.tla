---------------------------- MODULE ResponsePayload ----------------------------
(***************************************************************************)
(* What the four back ends of http::Network do with the body of a          *)
(* response: they write it to the caller's stream and give it to the data  *)
(* callback, at the place that the bytes received so far and the           *)
(* Content-Range header say, also when they send the request again on      *)
(* their own.                                                              *)
(*                                                                         *)
(* Curl asks again for a body it has read already when the status says     *)
(* so; Android looks at the status before it reads, and asks again after a *)
(* time-out, with or without a part of the body.  The other two never ask  *)
(* again.  The stream is empty at first, and the request is not cancelled. *)
(***************************************************************************)
EXTENDS Naturals, Sequences

CONSTANTS
    MaxBody,        \* bound on the bytes of a body
    MaxRetries      \* NetworkSettings::GetRetries

ResponsePayloadAssumption == MaxBody \in Nat \ {0} /\ MaxRetries \in Nat

VARIABLES
    platform,       \* the back end
    attempt,        \* how often the request was sent, so 1 + retry_count
    response,       \* the server's answer to this attempt
    phase,          \* where the request is
    count, offset, range_out,   \* of RequestHandle, RequestData, ResultData or OLPHttpTaskResponseData
    payload, tellp, \* the stream: its bytes, each by its attempt and its place in the body; its put position
    told,           \* history: the last call of the data callback
    outcome         \* history: whether the callback was given an HTTP status

vars == <<platform, attempt, response, phase, count, offset, range_out, payload, tellp, told, outcome>>

Platforms == {"curl", "winhttp", "android", "ios"}
Bodies == 0..MaxBody

(* An answer: its status, the first byte that its Content-Range header     *)
(* names, the length of its body, and whether it states that length.  Only *)
(* 206 names a byte, and the answer to a range behind the end names none.  *)
NoRange == MaxBody + 1
BehindEnd == MaxBody + 2
Responses ==
    {r \in [status : {200, 206, 416, 503}, range : {0, 1, NoRange, BehindEnd}, size : Bodies, stated : BOOLEAN] :
        /\ r.range \in {0, 1} <=> r.status = 206
        /\ r.range = BehindEnd => r.status = 416}
Nothing == [status |-> 0, range |-> NoRange, size |-> 0, stated |-> FALSE]

Init ==
    /\ platform \in Platforms /\ attempt = 1 /\ response = Nothing /\ phase = "sent"
    /\ count = 0 /\ offset = 0 /\ range_out = FALSE
    /\ payload = <<>> /\ tellp = 0 /\ told = <<>> /\ outcome = "none"

-----------------------------------------------------------------------------
(* Headers *)

(* HeaderFunction sets offset or range_out, and only if the header is      *)
(* there.                                                                  *)
CurlHeaders(r) ==
    /\ offset' = IF r.range \in {0, 1} THEN r.range ELSE offset
    /\ range_out' = (range_out \/ r.range = BehindEnd)
    /\ UNCHANGED count

(* HttpTask takes what it cannot parse for 0.                              *)
AndroidHeaders(r) ==
    /\ offset' = IF r.range \in {0, 1} THEN r.range ELSE 0
    /\ UNCHANGED <<count, range_out>>

(* Of "bytes */n", RequestCallback takes n, here MaxBody.                  *)
WinHttpHeaders(r) ==
    /\ offset' = CASE r.range \in {0, 1} -> r.range [] r.range = BehindEnd -> MaxBody [] OTHER -> offset
    /\ count' = IF r.range = NoRange THEN 0 ELSE count
    /\ UNCHANGED range_out

Headers(r) ==
    CASE platform = "curl" -> CurlHeaders(r)
      [] platform = "android" -> AndroidHeaders(r)
      [] platform = "winhttp" -> WinHttpHeaders(r)
      [] platform = "ios" -> UNCHANGED <<count, offset, range_out>>

MayRetry == attempt <= MaxRetries
ServerError(r) == r.status < 200 \/ r.status >= 500

Answer(r) ==
    /\ phase = "sent" /\ ~(platform = "android" /\ ServerError(r) /\ MayRetry)
    /\ Headers(r)
    /\ response' = r /\ phase' = "body"
    /\ UNCHANGED <<platform, attempt, payload, tellp, told, outcome>>

(* HttpTask sends again without looking at the rest of the answer.         *)
AnswerRefused(r) ==
    /\ phase = "sent" /\ platform = "android" /\ ServerError(r) /\ MayRetry
    /\ attempt' = attempt + 1
    /\ UNCHANGED <<platform, response, phase, count, offset, range_out, payload, tellp, told, outcome>>

-----------------------------------------------------------------------------
(* The body *)

Chunk(n) == [i \in 1..n |-> <<attempt, count + i>>]

Overwrite(s, p, bytes) ==
    [i \in 1..(IF Len(s) > p + Len(bytes) THEN Len(s) ELSE p + Len(bytes)) |->
        IF i \in (p + 1)..(p + Len(bytes)) THEN bytes[i - p] ELSE s[i]]

(* Mutant: writes where the stream stands. *)
Seek_Not == tellp
Seek == count

Write(bytes) ==
    /\ payload' = Overwrite(payload, Seek, bytes)
    /\ tellp' = Seek + Len(bytes)

(* WinHTTP's data callback is told offset 0 for every chunk.               *)
ChunkOffset == IF platform = "winhttp" THEN 0 ELSE offset + count

Tell == told' = [from |-> <<attempt, count + 1>>, offset |-> ChunkOffset]

(* RequestCallback does not read the body of a range behind the end.       *)
Unread == platform = "winhttp" /\ response.status = 416

Remaining == response.size - count

(* RxFunction, READ_COMPLETE, DataReceived, dataHandler.                   *)
Receive(n) ==
    /\ phase = "body" /\ ~Unread /\ ~range_out /\ n <= Remaining
    /\ Write(Chunk(n))
    /\ Tell
    /\ count' = count + n
    /\ UNCHANGED <<platform, attempt, response, phase, offset, range_out, outcome>>

-----------------------------------------------------------------------------
(* The end *)

Ended == range_out \/ Unread \/ Remaining = 0

Finish(how) == phase' = "done" /\ outcome' = how

(* Mutant: sends again without forgetting what was received. *)
Resend_CountKept ==
    /\ UNCHANGED count /\ attempt' = attempt + 1 /\ phase' = "sent" /\ response' = Nothing

(* CompleteMessage sends again and starts to count from 0.                 *)
Resend ==
    /\ count' = 0 /\ attempt' = attempt + 1 /\ phase' = "sent" /\ response' = Nothing

Complete ==
    /\ phase = "body" /\ Ended
    /\ \/ /\ platform = "curl" /\ ServerError(response) /\ MayRetry
          /\ Resend /\ UNCHANGED outcome
       \/ /\ ~(platform = "curl" /\ ServerError(response) /\ MayRetry)
          /\ Finish("status") /\ UNCHANGED <<attempt, response, count>>
    /\ UNCHANGED <<platform, offset, range_out, payload, tellp, told>>

(* The connection breaks before the body has ended, and the platform's     *)
(* library says so; WinHTTP may say instead that there is no more data,    *)
(* and RequestCallback compares the length with what the server has        *)
(* stated.                                                                 *)
SizeWrong == response.stated /\ response.size # 0 /\ response.size # count

Break ==
    /\ phase = "body" /\ ~Ended
    /\ \/ Finish("error")
       \/ /\ platform = "winhttp" /\ response.stated
          /\ Finish(IF SizeWrong THEN "error" ELSE "status")
    /\ UNCHANGED <<platform, attempt, response, count, offset, range_out, payload, tellp, told>>

(* A time-out, before the answer or in its body; ResetRequest.             *)
TimeOut ==
    /\ phase \in {"sent", "body"} /\ ~(phase = "body" /\ Ended)
    /\ \/ /\ platform = "android" /\ MayRetry
          /\ Resend /\ offset' = 0 /\ UNCHANGED outcome
       \/ /\ ~(platform = "android" /\ MayRetry)
          /\ Finish("error") /\ UNCHANGED <<attempt, response, count, offset>>
    /\ UNCHANGED <<platform, range_out, payload, tellp, told>>

Next ==
    \/ \E r \in Responses : Answer(r) \/ AnswerRefused(r)
    \/ \E n \in Bodies \ {0} : Receive(n)
    \/ Complete \/ Break \/ TimeOut

Spec == Init /\ [][Next]_vars

-----------------------------------------------------------------------------
(* Properties *)

TypeOK ==
    /\ platform \in Platforms /\ attempt \in 1..(MaxRetries + 1)
    /\ response \in Responses \cup {Nothing} /\ phase \in {"sent", "body", "done"}
    /\ count \in Bodies /\ offset \in Bodies /\ range_out \in BOOLEAN
    /\ payload \in Seq((1..(MaxRetries + 1)) \X Bodies) /\ tellp \in Bodies
    /\ outcome \in {"none", "status", "error"}

(* Whatever was sent again and wherever the connection broke: the stream   *)
(* starts with what was received of the last answer's body, in order;      *)
(* what lies behind it, no longer than the longest body so far, is the     *)
(* rest of bodies that were answered earlier (RxFunction's seekp; the      *)
(* stream is not cut when the request is sent again).                      *)
StreamExact ==
    /\ \A i \in 1..count : payload[i] = <<attempt, i>>
    /\ \A i \in (count + 1)..Len(payload) : payload[i][1] < attempt /\ payload[i][2] = i

(* Only a body that was received whole comes with a status, if it was to   *)
(* be read (CompleteMessage, DATA_AVAILABLE, completeRequest).             *)
StatusMeansWhole ==
    outcome = "status" => count = response.size \/ response.status = 416

(* The data callback is told the place of the chunk in the resource,       *)
(* except on the two platforms that do not look (HeaderFunction,           *)
(* DateAndOffsetCallback).                                                 *)
OffsetExact ==
    told # <<>> /\ told.from[1] = attempt /\ phase # "sent" /\ platform \in {"curl", "android"} =>
        told.offset = told.from[2] - 1 + IF response.range = 1 THEN 1 ELSE 0

PayloadExact == StreamExact /\ StatusMeansWhole /\ OffsetExact

=============================================================================
