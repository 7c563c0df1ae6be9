------------------------ MODULE MCMultipartRoundTrip ------------------------
(* An instance of MultipartRoundTrip for TLC. *)
EXTENDS MultipartRoundTrip

MCChunks == {<<"x">>, <<"cr">>, CRLF \o <<"-", "-">>, <<>>}
=============================================================================
