-------------------------- MODULE StringFunctions --------------------------
(***************************************************************************)
(* The string functions the shim adds to CEL (src/src/data/cel/strings.rs) *)
(* over strings whose characters take one byte or more.  Indices of        *)
(* indexOf and lastIndexOf count bytes; those of charAt and substring      *)
(* count characters.  An index is an i64 cast to usize, which has fewer    *)
(* bits in WebAssembly.                                                    *)
(***************************************************************************)
EXTENDS Integers, Sequences, SequencesExt, FiniteSetsExt

CONSTANTS
    Size,       \* [characters -> number of bytes]
    UsizeBits   \* the width of usize

Error == <<"error">>

\* Mutant: a negative index is taken for 0.
AsUsizeClamped(i) == IF i < 0 THEN 0 ELSE i % 2^UsizeBits

AsUsize(i) == i % 2^UsizeBits

-----------------------------------------------------------------------------
(* What str does, on characters.                                           *)

RECURSIVE ByteLen(_)
ByteLen(s) == IF s = <<>> THEN 0 ELSE Size[Head(s)] + ByteLen(Tail(s))
Drop(s, n) == SubSeq(s, n + 1, Len(s))
Take(s, n) == SubSeq(s, 1, IF n < Len(s) THEN n ELSE Len(s))

\* The numbers of characters before an occurrence of arg, and their bytes.
Occurrences(s, arg) == {n \in 0..(Len(s) - Len(arg)) : SubSeq(s, n + 1, n + Len(arg)) = arg}
Find(s, arg) == IF Occurrences(s, arg) = {} THEN -1 ELSE ByteLen(Take(s, Min(Occurrences(s, arg))))
RFind(s, arg) == IF Occurrences(s, arg) = {} THEN -1 ELSE ByteLen(Take(s, Max(Occurrences(s, arg))))

\* The characters before byte base, if it is the first of a character.
Boundary(s, base) == {n \in 0..Len(s) : ByteLen(Take(s, n)) = base}

RECURSIVE Pieces(_, _, _, _)

\* splitn: up to n pieces from the character after start; the next separator
\* is one character further at least.
Pieces(s, sep, at, n) ==
    LET next == {m \in Occurrences(s, sep) : m >= at[2]}
        m == Min(next)
    IN  IF n = 0 THEN <<>>
        ELSE IF n = 1 \/ next = {} THEN <<Drop(s, at[1])>>
        ELSE <<SubSeq(s, at[1] + 1, m)>>
             \o Pieces(s, sep, <<m + Len(sep), m + (IF sep = <<>> THEN 1 ELSE Len(sep))>>, n - 1)
SplitN(s, sep, n) == Pieces(s, sep, <<0, 0>>, n)
AllPieces(s, sep) == SplitN(s, sep, Len(s) + 2)

RECURSIVE Glue(_, _)
Glue(list, sep) == IF Len(list) <= 1 THEN FlattenSeq(list) ELSE Head(list) \o sep \o Glue(Tail(list), sep)

-----------------------------------------------------------------------------
(* The functions; each alternative of IF is an early return.               *)

char_at(s, arg) == IF AsUsize(arg) >= Len(s) THEN Error ELSE <<s[AsUsize(arg) + 1]>>

\* Mutant: the result counts from base.
IndexFromBase(s, arg, base) ==
    LET at == Boundary(s, AsUsize(base))
    IN  IF AsUsize(base) >= ByteLen(s) THEN -1
        ELSE IF at = {} THEN -2 ELSE Find(Drop(s, Min(at)), arg)

index_of(s, arg) == Find(s, arg)

\* indexOf and lastIndexOf from a byte on; -2 stands for the panic of a slice
\* that starts inside a character.
index_of_from(s, arg, base) ==
    LET at == Boundary(s, AsUsize(base))
        idx == Find(Drop(s, Min(at)), arg)
    IN  IF AsUsize(base) >= ByteLen(s) THEN -1
        ELSE IF at = {} THEN -2
        ELSE IF idx = -1 THEN -1 ELSE AsUsize(base) + idx

last_index_of(s, arg) == RFind(s, arg)

\* Mutant: base counts characters.
LastFromCharacter(s, arg, base) ==
    IF AsUsize(base) >= ByteLen(s) THEN -1 ELSE RFind(Drop(s, AsUsize(base)), arg)

last_index_of_from(s, arg, base) ==
    LET at == Boundary(s, AsUsize(base))
    IN  IF AsUsize(base) >= ByteLen(s) THEN -1
        ELSE IF at = {} THEN -2 ELSE RFind(Drop(s, Min(at)), arg)

join(list, sep) == Glue(list, sep)

\* Mutant: the limit is the number of cuts.
SplitCuts(s, sep, n) == LET k == AsUsize(n) + 1 IN SplitN(s, sep, IF k > Len(s) + 2 THEN Len(s) + 2 ELSE k)

split(s, sep) == AllPieces(s, sep)
split_n(s, sep, n) == SplitN(s, sep, AsUsize(n))

replace(s, from, to) == Glue(AllPieces(s, from), to)
replace_n(s, from, to, n) == Glue(SplitN(s, from, AsUsize(n) + 1), to)

\* Mutant: take counts from the start of the string.
SubstringTakes(s, start, end) ==
    IF AsUsize(end) < AsUsize(start) THEN Error ELSE Take(Drop(s, AsUsize(start)), AsUsize(end))

substring_to(s, start, end) ==
    IF AsUsize(end) < AsUsize(start) THEN Error
    ELSE Take(Drop(s, AsUsize(start)), AsUsize(end) - AsUsize(start))
substring(s, start) == substring_to(s, start, Len(s))
=============================================================================
