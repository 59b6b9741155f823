------------------------------ MODULE Names83 ------------------------------
(***************************************************************************)
(* The 8.3 name that filename8_3 of gemdos/path.c makes of a host name.  A *)
(* name is a sequence of character codes without path separators.          *)
(***************************************************************************)
EXTENDS Integers, Sequences, SequencesExt, Bitwise

Dot        == 46
Tilde      == 126
Underscore == 95

toupper(c) == IF c \in 97 .. 122 THEN c - 32 ELSE c

Fold(s) == [i \in DOMAIN s |-> toupper(s[i])]

(* strcasecmp(s, t) == 0 *)
SameName(s, t) == Fold(s) = Fold(t)

(* The place of the last dot; 0 if there is none or it is in front. *)
DotAt(s) ==
  LET dots == {i \in DOMAIN s : s[i] = Dot /\ \A j \in i + 1 .. Len(s) : s[j] # Dot}
  IN IF dots \subseteq {1} THEN 0 ELSE CHOOSE i \in dots : TRUE

StemLen(s) == IF DotAt(s) = 0 THEN Len(s) ELSE DotAt(s) - 1

TooLong(s) ==
  \/ Len(s) > 12
  \/ StemLen(s) > 8
  \/ DotAt(s) # 0 /\ Len(s) - StemLen(s) > 4

Stem(s) == SubSeq(s, 1, Min({8, StemLen(s)}))

needsHash(s) == TooLong(s) \/ Dot \in ToSet(Stem(s))

Pair(s, i) == s[i] ^^ (IF i = Len(s) THEN 0 ELSE s[i + 1] * 256)

(* The 16-bit hash of the whole name, of each character and the next one. *)
Hash(s) ==
  FoldLeft(LAMBDA h, i : (((h * 8) ^^ (h \div 32)) ^^ Pair(s, i)) % 65536,
           61455, [i \in DOMAIN s |-> i])

(* hash_alphabet: A .. Z and 0 .. 5 *)
Letter(n) == IF n < 26 THEN 65 + n ELSE 48 + n - 26

HashLetters(s) ==
  LET h == Hash(s) IN <<Tilde, Letter((h \div 1024) % 32), Letter((h \div 32) % 32), Letter(h % 32)>>

(* The first four characters of the stem, padded, and four for the hash. *)
Hashed(s, stem) ==
  [i \in 1 .. 8 |-> IF i > 4 THEN HashLetters(s)[i - 4]
                    ELSE IF i <= Len(stem) THEN stem[i] ELSE Tilde]

filename8_3(s, uppercase) ==
  LET case(t) == IF uppercase THEN Fold(t) ELSE t
      stem    == [i \in DOMAIN Stem(s) |-> IF s[i] = Dot THEN Underscore ELSE case(s)[i]]
      ext     == IF DotAt(s) = 0 THEN <<>>
                 ELSE SubSeq(case(s), DotAt(s), Min({Len(s), DotAt(s) + 3}))
  IN IF s \in {<<Dot>>, <<Dot, Dot>>} THEN s
     ELSE (IF needsHash(s) THEN Hashed(s, stem) ELSE stem) \o ext
=============================================================================
