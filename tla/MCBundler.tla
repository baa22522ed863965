----------------------------- MODULE MCBundler -----------------------------
(***************************************************************************)
(* Bundler for TLC: paths of one or two characters.                       *)
(***************************************************************************)
EXTENDS Bundler

PathsOver(cs) == {<<c>> : c \in cs} \cup {<<c, d>> : c \in cs, d \in cs}

AsciiPaths == PathsOver({"alnum", "underscore", "listed", "cntrl"})

AnyPaths == PathsOver(Classes)
=============================================================================
