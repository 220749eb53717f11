-------------------------- MODULE MCHttpRequests --------------------------
(* Two requests over one asio thread per scheme: one plain request that    *)
(* may take the thread down, and TLS requests that are in flight with it.  *)
EXTENDS HttpRequests
===========================================================================
