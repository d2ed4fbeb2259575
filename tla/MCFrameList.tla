---------------------------- MODULE MCFrameList ----------------------------
(* TLC's instance of FrameList: three frames, few enough for the clients to *)
(* drain the list.                                                          *)
EXTENDS FrameList

MCnullptr == 0
MCJunk == 99

ThreeFrames == 1..3
ThreeInOrder == <<1, 2, 3>>
=============================================================================
