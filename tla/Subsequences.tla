----------------------------- MODULE Subsequences -----------------------------
(***************************************************************************)
(* What Vec::retain() leaves of a sequence: SelectSeq for positions, whose *)
(* test is a set, about which more can be proved than about an operator.   *)
(***************************************************************************)
EXTENDS Naturals, Sequences

\* The elements of s at the positions in J, in their order.
Subsequence(s, J) ==
    LET upTo[i \in 0 .. Len(s)] ==
            IF i = 0 THEN <<>>
            ELSE IF i \in J THEN Append(upTo[i - 1], s[i])
            ELSE upTo[i - 1]
    IN  upTo[Len(s)]

=============================================================================
