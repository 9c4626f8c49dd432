------------------------------- MODULE Formatter -------------------------------
(***************************************************************************)
(* formatter.split_message on sequences of characters.                     *)
(***************************************************************************)
EXTENDS FilterChain

(* Mutant of Cut: the boundary may be the first character behind the limit.  *)
CutPastLimit(s, limit) ==
    LET at == {i \in 2..(limit + 1) : s[i] \in Breaks}
    IN  IF at = {} THEN limit ELSE CHOOSE i \in at : \A j \in at : j <= i

(* The length of the first chunk of a text longer than the limit: up to and  *)
(* with its last space or newline behind the first character, or the limit.  *)
Cut(s, limit) ==
    LET at == {i \in 2..limit : s[i] \in Breaks}
    IN  IF at = {} THEN limit ELSE CHOOSE i \in at : \A j \in at : j <= i

(* _split_text: chunks[k] are those of the text from its k-th character on.  *)
SplitText(s, limit) ==
    LET Rest(k) == SubSeq(s, k, Len(s))
        chunks[k \in 1..(Len(s) + 1)] ==
            IF Len(s) < k THEN <<>>
            ELSE IF Len(Rest(k)) <= limit THEN <<Rest(k)>>
            ELSE LET n == Cut(Rest(k), limit)
                 IN  <<SubSeq(s, k, k + n - 1)>> \o chunks[k + n]
    IN  chunks[1]

SplitMessage(s, limit, split) ==
    IF limit = 0 \/ Len(s) <= limit \/ ~split THEN <<s>> ELSE SplitText(s, limit)
=============================================================================
