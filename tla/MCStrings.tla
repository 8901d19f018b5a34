------------------------------- MODULE MCStrings -------------------------------
(* All pairs of short strings, grown a byte at a time, as inputs of Strings. *)
EXTENDS Strings

CONSTANTS
  Alphabet,       \* the bytes of the strings
  MaxLen, MaxArg, \* bounds: the lengths of the two strings
  MaxSpaces       \* bound: the spaces after a digest

ASSUME AlphabetAssumption == Alphabet \subseteq (1 .. 255) \ {10, 13}
ASSUME MaxSpacesAssumption == MaxSpaces \in Nat

VARIABLES str, arg

Empty == str = <<>> /\ arg = <<>>

Grow ==
  \E c \in Alphabet :
    \/ Len(str) < MaxLen /\ str' = Append(str, c) /\ UNCHANGED arg
    \/ Len(arg) < MaxArg /\ arg' = Append(arg, c) /\ UNCHANGED str

Inputs == Empty /\ [][Grow]_<<str, arg>>

\* trim_right cuts every trailing byte that is in the cutset and nothing else,
\* although a pass cuts at most one byte for each byte of the cutset and the order
\* of these matters to it (common.cpp:573-588).
TrimsAll ==
  LET res == trim_right(str, arg)
  IN  /\ IsPrefix(res, str)
      /\ \A i \in Len(res) + 1 .. Len(str) : str[i] \in {arg[j] : j \in DOMAIN arg}
      /\ res # <<>> => Last(res) \notin {arg[j] : j \in DOMAIN arg}

\* The spaces that a tool may print after a digest.
Blanks(n) == [i \in 1 .. n |-> Space]

\* compare_md5 takes two digests for equal exactly when they are, whatever spaces
\* follow either, and the null pointer for the empty one; a digest has no space in
\* it.  Of any text, whatever words and spaces it begins with, only the last word is
\* compared (common.cpp:495-513).
DigestsCompared ==
  \A n, m \in 0 .. MaxSpaces :
    Free(arg, {Space}) =>
      /\ Free(str, {Space}) =>
           (compare_md5(str \o Blanks(n), arg \o Blanks(m)) <=> str = arg)
      /\ arg # <<>> =>
           compare_md5(str \o <<Space>> \o (arg \o Blanks(n)), arg \o Blanks(m))
      /\ compare_md5(Null, arg \o Blanks(m)) <=> arg = <<>>

\* The path that find_files makes of a directory and a name has that name, and
\* that name as its path relative to the directory, however the directory is
\* written; formalize_path changes neither (common.cpp:148, 258-279 and 555-570).
PathsAgree ==
  arg # <<>> /\ Free(arg, Separators) =>
    LET path == append(str, arg)
    IN  /\ get_file_name(path) = arg
        /\ get_relative_path(str, path) = arg
        /\ get_relative_path(formalize_path(str), formalize_path(path)) = arg

\* What a server reads: the percent sign and two hexadecimal digits are a byte.
HexValue(d) == IF d < 58 THEN d - 48 ELSE d - 87
Decoded(enc) ==
  LET from[i \in 1 .. Len(enc) + 1] ==
        IF i > Len(enc) THEN <<>>
        ELSE IF enc[i] # Percent THEN <<enc[i]>> \o from[i + 1]
        ELSE IF i + 2 > Len(enc) THEN Throws
        ELSE <<16 * HexValue(enc[i + 1]) + HexValue(enc[i + 2])>> \o from[i + 3]
  IN  from[1]

\* The server decodes what url_encode has made of a text, unless the text has a
\* byte below 16, which is written with one digit and takes the byte after it with
\* it (common.cpp:325).
DecodesBack ==
  (\A i \in DOMAIN str : str[i] >= 16) => Decoded(url_encode(str)) = str
===============================================================================
