----------------------------- MODULE MCLibrary -----------------------------
(***************************************************************************)
(* Library for TLC.  The formats hold every directive and every way it can *)
(* be cut short, the paths every mixture of names and delimiters.  The     *)
(* heap has five pages, or four aligned ones with a table that does not    *)
(* end on a page.                                                          *)
(***************************************************************************)
EXTENDS Library

MCFormats == SeqOf({"%", "s", "c", "d", "x", "l", "o"}, 3)
             \cup {s \in SeqOf({"%", "l", "d", "x"}, 4) : Len(s) = 4}

MCPaths == SeqOf({"/", "a", "b"}, 5)

MCTexts == SeqOf({"/", "a", "b"}, 2)

MCCode == [c \in {"NUL", "/", "a", "b"} |->
             CASE c = "NUL" -> 0 [] c = "/" -> 47 [] c = "a" -> 97 [] c = "b" -> 98]
=============================================================================
