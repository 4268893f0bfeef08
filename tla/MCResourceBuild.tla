--------------------------- MODULE MCResourceBuild ---------------------------
(***************************************************************************)
(* One layout and one table: each is worked on without looking at the      *)
(* other, and they meet only in the records.                               *)
(***************************************************************************)
EXTENDS ResourceBuild

MCXmls == {"layout12.xml"}
MCPlists == {"Info.plist"}
=============================================================================
