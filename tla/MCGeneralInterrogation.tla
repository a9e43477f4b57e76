----------------------- MODULE MCGeneralInterrogation -----------------------
(* Two TSCG frames, the first with two TS, the second with the last one.    *)
EXTENDS GeneralInterrogation

TwoFrames == << <<1, 2>>, <<3>> >>
=============================================================================
