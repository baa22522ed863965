---------------------------- MODULE MCRangeSpec ----------------------------
(***************************************************************************)
(* Range::parse over every header of at most MaxTokens tokens whose       *)
(* numbers are below Bound, against resources of the lengths in Lengths,  *)
(* and over the vectors of TestHttp.cpp.  Parsing is a pure function: the *)
(* state is the input and the result, and the one step is the call.       *)
(***************************************************************************)
EXTENDS RangeSpec, SequencesExt

CONSTANTS MaxTokens, Bound, Lengths

Tokens == {Token(k, f, l) : k \in Kinds, f \in 0 .. Bound - 1, l \in 0 .. Bound - 1}
Headers == {Header(u, ts) : u \in {"bytes", "block"}, ts \in BoundedSeq(Tokens, MaxTokens)}

VARIABLES hdr, length, ranges, parsed

vars == <<hdr, length, ranges, parsed>>

\* the bounded inputs, and the inputs of the tests
Init ==
  /\ \E input \in (Headers \X Lengths) \cup {<<v.hdr, v.len>> : v \in TestVectors} :
       hdr = input[1] /\ length = input[2]
  /\ ranges = <<>>
  /\ parsed = FALSE

\* ranges = Range::parse(header, length)
ParseRange ==
  /\ ~parsed
  /\ ranges' = Parse(hdr, length)
  /\ parsed' = TRUE
  /\ UNCHANGED <<hdr, length>>

Spec == Init /\ [][ParseRange]_vars

\* Range parsing totality (spec.md section 8): for any header and length,
\* every range Range::parse returns has begin >= 0, len > 0 and
\* begin + len <= resourceLength, so the server never seeks or reads
\* outside the file.
RangeParsingTotal ==
  \A i \in DOMAIN ranges :
    LET r == ranges[i]
    IN r.begin >= 0 /\ r.len > 0 /\ r.begin + r.len <= length

\* Range::parse returns what TestHttpRange.Parse_0 .. Parse_6 and
\* TestHttpRange.toString expect.
ParseMatchesTests ==
  \A v \in TestVectors :
    parsed /\ <<hdr, length>> = <<v.hdr, v.len>> => ranges = v.out
=============================================================================
