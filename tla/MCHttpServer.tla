---------------------------- MODULE MCHttpServer ----------------------------
(***************************************************************************)
(* HttpServer for TLC: a 3-byte file, the Range headers "bytes=1-",       *)
(* "bytes=0-0,2-2", "bytes=-3" and "bytes=3-" (which does not parse), and *)
(* servlet bodies of 0 and 1 bytes.                                        *)
(***************************************************************************)
EXTENDS HttpServer

MCRangeHeaders ==
  { Header("bytes", << Token("from", 1, 0) >>),
    Header("bytes", << Token("span", 0, 0), Token("span", 2, 2) >>),
    Header("bytes", << Token("suffix", 0, 3) >>),
    Header("bytes", << Token("from", 3, 0) >>) }
=============================================================================
