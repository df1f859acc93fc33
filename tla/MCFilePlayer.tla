----------------------------- MODULE MCFilePlayer -----------------------------
(* Instance of FilePlayer for TLC: a file of less than three blocks, seeks   *)
(* inside it and past its end, playing once, looping with and without      *)
(* silence.                                                                *)
EXTENDS FilePlayer

LoopPauses == {-1, 0, 2}

===============================================================================
