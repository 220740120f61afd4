------------------------------- MODULE MCChannel -------------------------------
(* Three inputs; the first and the last have the same address, which is a  *)
(* URL, and the first two a software CAM.                                  *)
EXTENDS Channel

MCOf == <<"a", "b", "a">>
MCSource == {"a", "b"}
MCCam == {1, 2}
================================================================================
