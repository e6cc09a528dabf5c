---------------------------- MODULE MCHttpClient ----------------------------
(* The instance of HttpClient for TLC: two requests of two hosts. *)
EXTENDS HttpClient

TwoRequests == {"r1", "r2"}
TwoHosts == {"api", "photos"}

=============================================================================
