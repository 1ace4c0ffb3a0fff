------------------------------ MODULE MCLogger -------------------------------
(* Constants of Logger for model checking.                                 *)
EXTENDS Logger

McBases == {"program", "other"}
(* The second volume of one logfile belongs to somebody else.              *)
McUnwritable == {<<"other", 2>>}
(* A volume that may be written but not read.                              *)
McUnreadable == {<<"program", 2>>}
=============================================================================
