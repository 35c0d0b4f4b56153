----------------------------- MODULE MCSseStream -----------------------------
(* One stream: the request's own goroutine and one pipeline with a deadline. *)
EXTENDS SseStream

CONSTANTS request, pipeline

MCEmitters == {request, pipeline}
MCTimed == {pipeline}

\* The pipeline's last event carries a raw response of more than a line's length.
MCLongEvents == {Progress(pipeline, MaxEvents)}
MCUnencodable == {Progress(request, MaxEvents)}
=============================================================================
