-------------------------------- MODULE Lists --------------------------------
(***************************************************************************)
(* The comprehension [x for x in list if x in chosen] of Python, as other  *)
(* modules use it.  It is written as a recursive function, not with        *)
(* SelectSeq, so that ListProofs can say what it does.                     *)
(***************************************************************************)
EXTENDS Naturals, Sequences

Only(list, chosen) ==
    LET only[n \in 0 .. Len(list)] ==
            IF n = 0 THEN <<>>
            ELSE IF list[n] \in chosen THEN Append(only[n - 1], list[n])
            ELSE only[n - 1]
    IN  only[Len(list)]
=============================================================================
