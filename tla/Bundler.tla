------------------------------ MODULE Bundler ------------------------------
(***************************************************************************)
(* The resource bundler (src/sese/bundler/Bundler_LD.cpp, Bundler_RC.cpp): *)
(* from a std::map of binaries (key -> file path) it generates a C++      *)
(* header and source that name the resources, and either links the files  *)
(* into an object with "ld -r -b binary" (LD) or writes a Windows .rc     *)
(* script (RC).  The generated files must agree with each other and with  *)
(* the symbols ld defines.                                                 *)
(*                                                                         *)
(* A file path is a sequence of character classes; a symbol is the       *)
(* sequence of classes left after mangling.  The map iterates its keys in *)
(* order 1..N.  The driver that calls these functions is not in the       *)
(* sources: a run uses one backend (both write <class_name>.h), each of    *)
(* its generators runs once, in any order, and a failure (a file that     *)
(* cannot be created, ld exiting non-zero) throws and ends the run.       *)
(***************************************************************************)
EXTENDS Naturals, Sequences

CONSTANTS
  N,         \* number of binaries in the map
  Paths      \* file paths the map may hold

\* character classes of a path: letters and digits, '_', the characters
\* listed in INVALID_CHARS ("-+*/@%&!?=^~:;,."), control characters,
\* space and the other ASCII punctuation, bytes >= 0x80 (UTF-8)
Classes == {"alnum", "underscore", "listed", "cntrl", "space", "high"}

ASSUME N \in 1..3 /\ Paths \subseteq Seq(Classes)

Keys == 1 .. N

\* sanitizeFilename: replace_if INVALID_CHARS or iscntrl by '_'.  For a
\* byte >= 0x80 a (signed) char is negative and iscntrl(c) is undefined;
\* highCntrl is what the build's iscntrl answers for it.
SanitizeListedOnly(c, highCntrl) ==
  CASE c = "alnum"                  -> "alnum"
    [] c \in {"underscore", "listed"} -> "_"
    [] c \in {"cntrl", "space"}      -> c
    [] c = "high"                   -> "high"
SanitizeChar(c, highCntrl) ==
  CASE c = "alnum"                  -> "alnum"
    [] c \in {"underscore", "listed", "cntrl"} -> "_"
    [] c = "space"                  -> "space"
    [] c = "high"                   -> IF highCntrl THEN "_" ELSE "high"
Sanitize(p, highCntrl) == [i \in DOMAIN p |-> SanitizeChar(p[i], highCntrl)]

\* the name GNU ld (BFD binary input) gives the data of file p: every
\* character that is not alphanumeric becomes '_'
LdMangle(p) == [i \in DOMAIN p |-> IF p[i] = "alnum" THEN "alnum" ELSE "_"]

Start(name) == <<"start", name>>
End(name) == <<"end", name>>

\* write_ld_source_file: for each binary in map order, the start and end
\* symbols of its sanitized name, pushed through a FIFO queue into syms[]
SymsTableReversed(names) ==
  [i \in 1 .. 2 * Len(names) |->
     LET n == names[Len(names) + 1 - ((i + 1) \div 2)]
     IN IF i % 2 = 1 THEN Start(n) ELSE End(n)]
SymsTable(names) ==
  [i \in 1 .. 2 * Len(names) |->
     LET n == names[(i + 1) \div 2]
     IN IF i % 2 = 1 THEN Start(n) ELSE End(n)]

\* write_ld_header_file: the enum value of the i-th key, index counting
\* from 0 and incremented after use
LdEnumValueAfterIncrement(i) == i
LdEnumValue(i) == i - 1

\* write_rc_resource_file: the ids of the i-th key in the RC_INVOKED
\* defines and in the enum; each loop starts index at 1000 and increments
\* it before use
RcDefineId(i) == 1000 + i
RcEnumIdAfterUse(i) == 1000 + i - 1
RcEnumId(i) == 1000 + i

VARIABLES
  binaries,   \* Bundler::binaries
  backend,    \* "ld" or "rc"
  highCntrl,  \* iscntrl of a negative char in this build
  ldHeader,   \* the generated LD .h: enum values and syms[] size
  ldSource,   \* the generated LD .cpp: extern symbols and syms[]
  ldObject,   \* the symbols of the object ld produced
  rcScript,   \* the generated .rc: key -> id macro it uses
  rcHeader,   \* the generated RC .h: id macros and enum values
  failed      \* a generator has thrown

vars == <<binaries, backend, highCntrl, ldHeader, ldSource, ldObject, rcScript, rcHeader, failed>>

None == [done |-> FALSE]

Init ==
  /\ binaries \in [Keys -> Paths]
  /\ backend \in {"ld", "rc"}
  /\ highCntrl \in BOOLEAN
  /\ ldHeader = None /\ ldSource = None /\ ldObject = None
  /\ rcScript = None /\ rcHeader = None
  /\ failed = FALSE

\* File::createEx fails: the generator throws and the run ends
OpenFails(be, out) ==
  /\ ~failed
  /\ backend = be
  /\ out = None
  /\ failed' = TRUE
  /\ UNCHANGED <<binaries, backend, highCntrl, ldHeader, ldSource, ldObject, rcScript, rcHeader>>

\* write_ld_header_file: enum Binaries { k = index, ... } counting from 0
\* in map order, and static char* syms[binaries.size() * 2]
HeaderCount == N * 2
WriteLdHeaderFile ==
  /\ ~failed
  /\ backend = "ld"
  /\ ldHeader = None
  /\ ldHeader' = [done |-> TRUE, enum |-> [k \in Keys |-> LdEnumValue(k)], size |-> HeaderCount]
  /\ UNCHANGED <<binaries, backend, highCntrl, ldSource, ldObject, rcScript, rcHeader, failed>>

\* write_ld_source_file: an extern start / end declaration per binary and
\* the syms[] initialiser, both from the sanitized path
WriteLdSourceFile ==
  /\ ~failed
  /\ backend = "ld"
  /\ ldSource = None
  /\ LET names == [k \in Keys |-> Sanitize(binaries[k], highCntrl)]
     IN ldSource' = [done |-> TRUE,
                     externs |-> {Start(names[k]) : k \in Keys} \cup {End(names[k]) : k \in Keys},
                     size |-> N * 2,
                     syms |-> SymsTable(names)]
  /\ UNCHANGED <<binaries, backend, highCntrl, ldHeader, ldObject, rcScript, rcHeader, failed>>

\* make_ld_resources: ld -r -b binary over the paths; a non-zero exit
\* throws
MakeLdResources ==
  /\ ~failed
  /\ backend = "ld"
  /\ ldObject = None
  /\ \/ ldObject' = [done |-> TRUE,
                     symbols |-> {Start(LdMangle(binaries[k])) : k \in Keys}
                                 \cup {End(LdMangle(binaries[k])) : k \in Keys}]
        /\ UNCHANGED failed
     \/ failed' = TRUE /\ UNCHANGED ldObject
  /\ UNCHANGED <<binaries, backend, highCntrl, ldHeader, ldSource, rcScript, rcHeader>>

\* write_rc_file: BIN_<key> RCDATA "<path>" per binary
WriteRcFile ==
  /\ ~failed
  /\ backend = "rc"
  /\ rcScript = None
  /\ rcScript' = [done |-> TRUE, uses |-> Keys]
  /\ UNCHANGED <<binaries, backend, highCntrl, ldHeader, ldSource, ldObject, rcHeader, failed>>

\* write_rc_resource_file: under RC_INVOKED "#define BIN_<key> <id>", then
\* enum class Binaries { <key> = <id> }, each loop counting from 1000 and
\* incrementing before use
WriteRcResourceFile ==
  /\ ~failed
  /\ backend = "rc"
  /\ rcHeader = None
  /\ rcHeader' = [done |-> TRUE,
                  defines |-> [k \in Keys |-> RcDefineId(k)],
                  enum |-> [k \in Keys |-> RcEnumId(k)]]
  /\ UNCHANGED <<binaries, backend, highCntrl, ldHeader, ldSource, ldObject, rcScript, failed>>

\* every generator has run, or one has thrown
Finished ==
  /\ \/ failed
     \/ backend = "ld" /\ ldHeader.done /\ ldSource.done /\ ldObject.done
     \/ backend = "rc" /\ rcScript.done /\ rcHeader.done
  /\ UNCHANGED vars

Next ==
  \/ WriteLdHeaderFile \/ WriteLdSourceFile \/ MakeLdResources
  \/ WriteRcFile \/ WriteRcResourceFile
  \/ OpenFails("ld", ldHeader) \/ OpenFails("ld", ldSource)
  \/ OpenFails("rc", rcScript) \/ OpenFails("rc", rcHeader)
  \/ Finished

Spec == Init /\ [][Next]_vars

-----------------------------------------------------------------------------

TypeOK ==
  /\ binaries \in [Keys -> Paths]
  /\ backend \in {"ld", "rc"}
  /\ highCntrl \in BOOLEAN /\ failed \in BOOLEAN
  /\ ldHeader \in {None} \cup [done : {TRUE}, enum : [Keys -> 0 .. N - 1], size : Nat]
  /\ \A f \in {ldSource, ldObject, rcScript, rcHeader} : f.done \in BOOLEAN

\* The LD header and source agree: syms[] has the size the header declares,
\* and the enum value of every key indexes, at 2 * value and 2 * value + 1,
\* the start and end symbols of that key's own file.
LdTablesAgree ==
  (ldHeader.done /\ ldSource.done) =>
    /\ ldHeader.size = Len(ldSource.syms)
    /\ \A k \in Keys :
         LET e == ldHeader.enum[k]
             name == Sanitize(binaries[k], highCntrl)
         IN ldSource.syms[2 * e + 1] = Start(name) /\ ldSource.syms[2 * e + 2] = End(name)

\* The RC script, the RC_INVOKED defines and the enum agree: every key the
\* script names has a define, and its define equals its enum value, so
\* LoadResource(Binaries::k) finds the data of key k.
RcIdsAgree ==
  (rcScript.done /\ rcHeader.done) =>
    \A k \in rcScript.uses : rcHeader.defines[k] = rcHeader.enum[k]

\* Every symbol the generated LD source declares extern is defined by the
\* object ld produced from the same paths, so the bundle links.
LdSymbolsDefined ==
  (ldSource.done /\ ldObject.done) => ldSource.externs \subseteq ldObject.symbols
=============================================================================
