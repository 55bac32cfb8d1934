--------------------------- MODULE MCInterceptor ---------------------------
(* Three sessions are written to the file, one after the other.            *)
EXTENDS Interceptor
=============================================================================
