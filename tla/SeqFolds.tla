-------------------------------- MODULE SeqFolds -------------------------------
(***************************************************************************)
(* What loops over a slice compute, as recursive functions of the number   *)
(* of elements the loop has seen.                                          *)
(***************************************************************************)
EXTENDS Naturals, Sequences

(* The sum of a sequence of numbers. *)
Total(s) ==
  LET upTo[n \in 0..Len(s)] == IF n = 0 THEN 0 ELSE upTo[n - 1] + s[n]
  IN upTo[Len(s)]

(* The sequences of a sequence, one after the other. *)
Joined(ss) ==
  LET upTo[n \in 0..Len(ss)] == IF n = 0 THEN <<>> ELSE upTo[n - 1] \o ss[n]
  IN upTo[Len(ss)]

(* The elements of a sequence that are in S, in their order. *)
Among(s, S) ==
  LET upTo[n \in 0..Len(s)] ==
        IF n = 0 THEN <<>>
        ELSE IF s[n] \in S THEN Append(upTo[n - 1], s[n]) ELSE upTo[n - 1]
  IN upTo[Len(s)]

================================================================================
