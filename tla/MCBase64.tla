------------------------------ MODULE MCBase64 ------------------------------
(***************************************************************************)
(* Small instances of Base64 for TLC: keys of up to five bytes, whose bits *)
(* are all clear, all set, or alternate.                                   *)
(***************************************************************************)
EXTENDS Base64

SomeBytes == {0, 165, 255}

\* Lines that end with a quad, as those of the README's key do, and others.
LineWidths == 1..8
=============================================================================
