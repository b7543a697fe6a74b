------------------------------ MODULE MCProcess ------------------------------
(* A small instance of Process.tla for TLC, whose two readings need no rounding. *)
EXTENDS ProcessProperties

MCTotal  == <<4>>
MCLevels == <<{0, 3}>>

MCQuotient(u, t) == (100 * u) \div t
MCPercent(s) == s
=============================================================================
