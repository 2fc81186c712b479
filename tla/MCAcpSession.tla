---------------------------- MODULE MCAcpSession ----------------------------
(* One session, one prompt and one tool for TLC.                           *)
EXTENDS AcpSession

CONSTANTS sa, q1, a1
=============================================================================
