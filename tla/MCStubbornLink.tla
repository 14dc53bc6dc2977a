--------------------------- MODULE MCStubbornLink ---------------------------
(* Small instances of StubbornLink for TLC. *)
EXTENDS StubbornLink

CONSTANTS a, b
MCBodies == {a, b}

\* Two equal frames and a longer one.
MCBody == <<a, a, b>>
MCLength == <<1, 1, 3>>
\* A frame of several chunks, then a one-chunk frame.
MCBodyTwo == <<a, b>>
MCLengthTwo == <<3, 1>>
=============================================================================
