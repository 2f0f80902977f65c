------------------------------ MODULE GoStrings ------------------------------
(***************************************************************************)
(* The functions of Go's strings and strconv packages that the modelled   *)
(* code applies to configuration values and addresses, on strings taken as *)
(* sequences of one-character strings.                                    *)
(***************************************************************************)
EXTENDS Naturals, Sequences, SequencesExt

\* strings.Split(s, sep): the pieces between separators; "" gives [""].
RECURSIVE SplitSeq(_, _)
SplitSeq(s, sep) ==
    IF s = <<>> THEN <<<<>>>>
    ELSE LET rest == SplitSeq(Tail(s), sep) IN
         IF Head(s) = sep THEN <<<<>>>> \o rest
                          ELSE [rest EXCEPT ![1] = <<Head(s)>> \o @]

\* strings.Join(ss, sep).
RECURSIVE JoinSeq(_, _)
JoinSeq(ss, sep) ==
    CASE ss = <<>>   -> <<>>
      [] Len(ss) = 1 -> ss[1]
      [] OTHER       -> ss[1] \o <<sep>> \o JoinSeq(Tail(ss), sep)

RECURSIVE TrimLeft(_)
TrimLeft(s) == IF s # <<>> /\ Head(s) = " " THEN TrimLeft(Tail(s)) ELSE s

\* strings.TrimSpace and strings.ToLower on the modelled alphabet.
TrimSpace(s) == Reverse(TrimLeft(Reverse(TrimLeft(s))))
ToLower(s) == [i \in DOMAIN s |-> IF s[i] = "A" THEN "a" ELSE s[i]]

\* strings.Contains(s, sub): sub occurs in s as a contiguous run.
HasInfix(s, sub) == sub \in SubSeqs(s)

Digits == {"0", "1", "2", "3", "4", "5", "6", "7", "8", "9"}

\* strconv.ParseInt(s, 10, 64) succeeds: s is a non-empty run of digits.
IsDecimal(s) == s # <<>> /\ \A i \in DOMAIN s : s[i] \in Digits

==============================================================================
