---------------------------- MODULE MCHttpClient ----------------------------
(***************************************************************************)
(* Model-checking instance of HttpClient: the constants are given in the   *)
(* .cfg files; this module only fixes the sentinel and the context bound.  *)
(***************************************************************************)
EXTENDS HttpClient

\* each post makes at most two attempts; one spare context lets a run
\* show a third attempt instead of stopping at the bound
MCMaxConns == 2 * MaxPosts + 1
=============================================================================
