------------------------------ MODULE MCReader ------------------------------
(***************************************************************************)
(* Reader on every text of three characters, and on longer ones made of    *)
(* the characters that read ahead over the end of a line, or that make     *)
(* assignments and redirections.                                           *)
(***************************************************************************)
EXTENDS Reader

ShortTexts == BoundedSeq(Class, 3)

ManyTexts == ShortTexts \cup BoundedSeq({"a", "<", "-", "\\", "nl"}, 5)
                        \cup BoundedSeq({"a", " ", "#", "\\", "nl"}, 5)
                        \cup BoundedSeq({"a", "=", "<", "&", "nl"}, 5)
=============================================================================
