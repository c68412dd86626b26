------------------------------ MODULE Filters ------------------------------
(***************************************************************************)
(* Array.prototype.filter, as a recursive function: SelectSeq takes an     *)
(* operator, about which nothing could be proved.                          *)
(***************************************************************************)
EXTENDS Integers, Sequences

\* The entries of s that are in K, in their order.
Filtered(s, K) ==
    LET among[n \in 0 .. Len(s)] ==
            IF n = 0 THEN <<>>
            ELSE IF s[n] \in K THEN Append(among[n - 1], s[n]) ELSE among[n - 1]
    IN  among[Len(s)]
=============================================================================
