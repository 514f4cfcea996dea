---------------------------- MODULE MCSpanBuffer ----------------------------
(* Three streams share a buffer smaller than the spans of two of them.      *)
EXTENDS SpanBuffer

MCStreams == {"s1", "s2", "s3"}
=============================================================================
