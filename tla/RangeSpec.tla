----------------------------- MODULE RangeSpec -----------------------------
(***************************************************************************)
(* net::http::Range::parse(header, resourceLength), the Byte-Range Spec.   *)
(* The parser is not in this repository's sources; it is modelled from    *)
(* spec.md section 4.4 and the vectors of src/sese/test/TestHttp.cpp.     *)
(*                                                                         *)
(* A header is its unit and its comma-separated list of range tokens; a   *)
(* token is "span" (start-end), "from" (start-), "suffix" (-N) or "bad"   *)
(* (a malformed numeric token such as 1200-2000-3000).  The lexing of the *)
(* header text is abstracted to this record.                               *)
(***************************************************************************)
EXTENDS Naturals, Sequences

Kinds == {"span", "from", "suffix", "bad"}

Token(kind, first, last) == [kind |-> kind, first |-> first, last |-> last]
Header(unit, toks) == [unit |-> unit, toks |-> toks]

\* a token is acceptable against a resource of length len
SpanUpToResource(t, len) == t.first <= t.last /\ t.last <= len
SpanInsideResource(t, len) == t.first <= t.last /\ t.last < len
Acceptable(t, len) ==
  CASE t.kind = "span"   -> SpanInsideResource(t, len)
    [] t.kind = "from"   -> t.first < len
    [] t.kind = "suffix" -> 0 < t.last /\ t.last <= len
    [] t.kind = "bad"    -> FALSE

\* the absolute (begin, len) range a token resolves to
FromToEndExclusive(t, len) == [begin |-> t.first, len |-> len - t.first - 1]
FromToEnd(t, len) == [begin |-> t.first, len |-> len - t.first]
Resolve(t, len) ==
  CASE t.kind = "span"   -> [begin |-> t.first, len |-> t.last - t.first + 1]
    [] t.kind = "from"   -> FromToEnd(t, len)
    [] t.kind = "suffix" -> [begin |-> len - t.last, len |-> t.last]

\* Range::parse: the unit must be "bytes" and there must be at least one
\* range; any unacceptable token rejects the whole header (an empty list);
\* otherwise every token, in order, resolved
Parse(h, len) ==
  IF /\ h.unit = "bytes"
     /\ h.toks # <<>>
     /\ \A i \in DOMAIN h.toks : Acceptable(h.toks[i], len)
  THEN [i \in DOMAIN h.toks |-> Resolve(h.toks[i], len)]
  ELSE <<>>

\* the vectors of TestHttpRange.Parse_0 .. Parse_6 and toString
TestVectors ==
  { [hdr |-> Header("bytes", << Token("span", 200, 1000), Token("span", 2000, 6576),
                                Token("from", 19000, 0) >>),
     len |-> 20000,
     out |-> << [begin |-> 200, len |-> 801], [begin |-> 2000, len |-> 4577],
                [begin |-> 19000, len |-> 1000] >>],
    [hdr |-> Header("bytes", <<>>), len |-> 20000, out |-> <<>>],
    [hdr |-> Header("block", << Token("from", 1200, 0) >>), len |-> 20000, out |-> <<>>],
    [hdr |-> Header("bytes", << Token("bad", 1200, 3000) >>), len |-> 20000, out |-> <<>>],
    [hdr |-> Header("bytes", << Token("span", 1200, 3000) >>), len |-> 100, out |-> <<>>],
    [hdr |-> Header("bytes", << Token("span", 1, 3000) >>), len |-> 100, out |-> <<>>],
    [hdr |-> Header("bytes", << Token("span", 99, 1) >>), len |-> 100, out |-> <<>>],
    [hdr |-> Header("bytes", << Token("span", 200, 1000) >>), len |-> 2000,
     out |-> << [begin |-> 200, len |-> 801] >>] }
=============================================================================
