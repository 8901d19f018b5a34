-------------------------------- MODULE Strings --------------------------------
(***************************************************************************)
(* The functions of common.cpp that compute a string from a string, in a   *)
(* build for Linux with assertions.  A string is the sequence of its bytes;*)
(* none is 0 or a line break.                                              *)
(***************************************************************************)
EXTENDS Integers, SequencesExt

Space == 32
Percent == 37
Slash == 47
Backslash == 92
Separators == {Slash, Backslash}

\* What the exception of get_relative_path stands for.
Throws == <<0>>

-----------------------------------------------------------------------------
(* Regular expressions: std::regex_search finds the leftmost match, here    *)
(* the longest suffix that has the form of the expression.                  *)

Longest(S) == CHOOSE s \in S : \A t \in S : Len(t) <= Len(s)
Free(str, chars) == \A i \in DOMAIN str : str[i] \notin chars

\* [^/\\]+$, or the empty string when nothing matches
get_file_name(path) == Longest({s \in Suffixes(path) : Free(s, Separators)})

\* The first group of ([^ ]*) *$, which takes as much as it can.
Word(s) == Longest({p \in Prefixes(s) : Free(p, {Space})})
IsWordAndSpaces(s) == \E n \in 0 .. Len(s) :
  Free(SubSeq(s, 1, n), {Space}) /\ \A i \in n + 1 .. Len(s) : s[i] = Space

\* A mistake: the match begins where the text does.
trim_trailing_space_Cuts(str) == Word(str)

trim_trailing_space(str) == Word(Longest({s \in Suffixes(str) : IsWordAndSpaces(s)}))

Null == <<0>>
OrEmpty(p) == IF p = Null THEN <<>> ELSE p
compare_md5(a, b) ==
  trim_trailing_space(OrEmpty(a)) = trim_trailing_space(OrEmpty(b))

-----------------------------------------------------------------------------
(* Paths.                                                                   *)

formalize_path(path) ==
  [i \in DOMAIN path |-> IF path[i] = Backslash THEN Slash ELSE path[i]]

\* A mistake: the separator stays.
DropSeparator_Not(relative) == relative

DropSeparator(relative) ==
  IF relative # <<>> /\ Head(relative) \in Separators THEN Tail(relative) ELSE relative

\* strncmp compares the characters of the parent, not the names in the path.
get_relative_path(parent, child) ==
  IF IsPrefix(parent, child)
  THEN DropSeparator(SubSeq(child, Len(parent) + 1, Len(child)))
  ELSE Throws

\* std::filesystem::path(path).append(name), by which find_files makes paths.
append(path, name) ==
  IF name # <<>> /\ Head(name) = Slash THEN name
  ELSE IF path = <<>> \/ Last(path) = Slash THEN path \o name
  ELSE path \o <<Slash>> \o name

-----------------------------------------------------------------------------
(* trim_right.                                                              *)

\* When str has become empty, str[str.size() - 1] is a read outside it, of any
\* value; substr(0, -1) of the empty string is the empty string, so that the
\* outcome is the same.
Cut(str, c) == IF str # <<>> /\ Last(str) = c THEN Front(str) ELSE str

\* The body of the loop, and the loop.
CutAll(str, cutset) == FoldLeft(Cut, str, cutset)

\* A mistake: no loop.
trim_right_Once(str, cutset) == CutAll(str, cutset)

\* Each time but the last a byte is lost.
trim_right(str, cutset) ==
  LET passes[n \in 0 .. Len(str) + 1] ==
        IF n = 0 THEN str ELSE CutAll(passes[n - 1], cutset)
      last == CHOOSE n \in 1 .. Len(str) + 1 :
                /\ Len(passes[n]) = Len(passes[n - 1])
                /\ \A m \in 1 .. n - 1 : Len(passes[m]) # Len(passes[m - 1])
  IN  passes[last]

-----------------------------------------------------------------------------
(* url_encode.                                                              *)

\* Letters, digits and - . _ ~
IsUnreserved(c) ==
  c \in (48 .. 57) \cup (65 .. 90) \cup (97 .. 122) \cup {45, 46, 95, 126}

HexDigit(d) == IF d < 10 THEN 48 + d ELSE 87 + d

\* %%%x: a byte below 16 has one digit.
Escape(c) ==
  IF c < 16 THEN <<Percent, HexDigit(c)>>
  ELSE <<Percent, HexDigit(c \div 16), HexDigit(c % 16)>>

\* Mistakes: the percent sign passes for a safe character.
EncodeByte_Percent(c) == IF IsUnreserved(c) \/ c = Percent THEN <<c>> ELSE Escape(c)

EncodeByte(c) == IF IsUnreserved(c) THEN <<c>> ELSE Escape(c)

url_encode(str) == FoldLeft(LAMBDA buf, c : buf \o EncodeByte(c), <<>>, str)
===============================================================================
