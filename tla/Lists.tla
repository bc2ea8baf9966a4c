-------------------------------- MODULE Lists --------------------------------
(***************************************************************************)
(* A loop over a list that appends what passes a test, as several          *)
(* components of the program have one.                                     *)
(***************************************************************************)
EXTENDS Naturals, SequencesExt

\* The elements of seq that are in T, in their order.
Only(seq, T) ==
    LET only[i \in 0..Len(seq)] ==
            IF i = 0 THEN <<>>
            ELSE IF seq[i] \in T THEN Append(only[i - 1], seq[i]) ELSE only[i - 1]
    IN only[Len(seq)]

==============================================================================
