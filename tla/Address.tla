------------------------------ MODULE Address ------------------------------
(***************************************************************************)
(* The address of the command b (cmd.c:143-145): read as a decimal number  *)
(* and, when that gives 0, as a hexadecimal one, by strtol each time.      *)
(* A character is its value as a digit, up to 15, or X, or Other; signs    *)
(* are left out.                                                           *)
(***************************************************************************)
EXTENDS Integers, Sequences, SequencesExt

CONSTANT LongMax  \* 2^31 - 1 in the code

ASSUME LongMaxOK == LongMax \in Nat \ {0}

X     == 16
Other == 17
Characters == 0..17

Digits(s, base) ==
  SubSeq(s, 1, Cardinality({i \in DOMAIN s : \A j \in 1..i : s[j] < base}))

(* 0x is skipped in front of a hexadecimal digit.                          *)
Prefixed(s) == Len(s) > 2 /\ s[1] = 0 /\ s[2] = X /\ s[3] < 16

(* A number too large for a long gives the largest.                        *)
strtol(s, base) ==
  LET digits == Digits(IF base = 16 /\ Prefixed(s) THEN SubSeq(s, 3, Len(s)) ELSE s, base)
      value[i \in 0..Len(digits)] ==
        IF i = 0 THEN 0
        ELSE IF value[i - 1] * base + digits[i] > LongMax THEN LongMax
             ELSE value[i - 1] * base + digits[i]
  IN value[Len(digits)]

(* A faulty variant, against which the properties are tested.              *)
AddressHexFirst(s) == IF strtol(s, 16) # 0 THEN strtol(s, 16) ELSE strtol(s, 10)

AddressOf(s) == IF strtol(s, 10) # 0 THEN strtol(s, 10) ELSE strtol(s, 16)
=============================================================================
