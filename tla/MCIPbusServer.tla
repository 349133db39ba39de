---------------------------- MODULE MCIPbusServer -----------------------------
(* Instances of IPbusServer for TLC. *)
EXTENDS IPbusServer

MCFrameLen == <<1, 2>>

\* The first client sends both frames, one behind the other if it likes.
MCMaxFrames == <<2, 1>>
=============================================================================
