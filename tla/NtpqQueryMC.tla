---------------------------- MODULE NtpqQueryMC ----------------------------
(* A buffer of four octets and two fragments.  The replies: one fragment,  *)
(* two fragments cut at different places, and one that is too long.        *)
EXTENDS NtpqQuery

MCLayouts == {<<2>>, <<1, 3>>, <<2, 5>>}
=============================================================================
