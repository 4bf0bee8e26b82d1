------------------------------- MODULE TypeNames -------------------------------
(***************************************************************************)
(* typeDemangle: the passes over a demangled type name that bring it into  *)
(* the form under which dictionaries are loaded.  A name is a sequence of  *)
(* tokens; the demangler of the C++ library, which prints a type, is not   *)
(* part of the code.                                                       *)
(***************************************************************************)
EXTENDS Naturals, Sequences, SequencesExt

CONSTANT Types  \* the types demangled

VARIABLES
  type,  \* what typeDemangle was called for
  text,  \* demangledName
  pass   \* how many passes are over

nameVars == <<type, text, pass>>

(* A type has the tokens of its name as the demangler prints them, and as  *)
(* they should be, its template arguments, perhaps a const and, when it is *)
(* an array, its extent.                                                   *)
Type(raw, plain, args) ==
  [raw |-> raw, plain |-> plain, args |-> args, const |-> FALSE, extent |-> <<>>]
Const(t) == [t EXCEPT !.const = TRUE]
ArrayOf(t, size) == [t EXCEPT !.extent = <<"[", size, "]">>]

RECURSIVE Printed(_, _)
(* abi::__cxa_demangle; some libraries put a space between two ">". *)
Printed(t, spaced) ==
  LET args == [i \in DOMAIN t.args |-> Printed(t.args[i], spaced)]
      list == FoldLeft(LAMBDA all, arg : IF all = <<>> THEN arg ELSE all \o <<",", " ">> \o arg,
                       <<>>, args)
      close == IF spaced /\ list # <<>> /\ Last(list) = ">" THEN <<" ", ">">> ELSE <<">">>
  IN t.raw \o (IF t.args = <<>> THEN <<>> ELSE <<"<">> \o list \o close)
           \o (IF t.const THEN <<" ", "const">> ELSE <<>>)
           \o (IF t.extent = <<>> THEN <<>> ELSE <<" ">> \o t.extent)

----------------------------------------------------------------------------
(* The helpers                                                             *)

Found(s, from) == {i \in 1..(Len(s) - Len(from) + 1) :
                     SubSeq(s, i, i + Len(from) - 1) = from}

Erase(s, i, n) == SubSeq(s, 1, i - 1) \o SubSeq(s, i + n, Len(s))

RECURSIVE replaceString(_, _, _), removeParameter(_, _), constBeforeIdentifier(_),
          reformatter(_)

replaceString(s, from, to) ==
  IF Found(s, from) = {} THEN s
  ELSE LET i == Min(Found(s, from))
       IN replaceString(SubSeq(s, 1, i - 1) \o to \o SubSeq(s, i + Len(from), Len(s)),
                        from, to)

Count(s, i, j, token) == Cardinality({k \in i..j : s[k] = token})

(* The parameter ends with the ">" of its own "<".  A space that then      *)
(* separates nothing goes too.                                             *)
removeParameter(s, toRemove) ==
  IF Found(s, toRemove) = {} THEN s
  ELSE LET i == Min(Found(s, toRemove))
           first == i + Len(toRemove)
           end == Min({j \in first..Len(s) :
                         Count(s, first, j, ">") = Count(s, first, j, "<") + 1})
           rest == Erase(s, i, end + 1 - i)
       IN removeParameter(IF rest[i] = " " /\ rest[i - 1] # ">" THEN Erase(rest, i, 1)
                          ELSE rest,
                          toRemove)

(* const goes to the start of the innermost argument it is in.  A search   *)
(* that finds none drops it.                                               *)
constBeforeIdentifier(s) ==
  IF Found(s, <<" ", "const">>) = {} THEN s
  ELSE LET i == Min(Found(s, <<" ", "const">>))
           rest == Erase(s, i, 2)
           starts == {j \in 1..(i - 1) :
                        /\ s[j] \in {"<", ","}
                        /\ Count(s, j + 1, i - 1, ">") = Count(s, j + 1, i - 1, "<")}
       IN constBeforeIdentifier(IF starts = {} THEN rest
                                ELSE InsertAt(rest, Max(starts) + 1, "const "))

Suffix == {"u", "l", "ul", "ull", "ll"}

(* No u or l qualifiers behind a number that is a template argument. *)
reformatter(s) ==
  LET qualified == {i \in 3..(Len(s) - 1) :
                      /\ s[i] \in Suffix
                      /\ s[i - 1] \in {"3", "5"} /\ s[i - 2] \in {"<", ","}
                      /\ s[i + 1] \in {",", ">"}}
  IN IF qualified = {} THEN s ELSE reformatter(Erase(s, Max(qualified), 1))

----------------------------------------------------------------------------
(* typeDemangle                                                            *)

(* Mutant of Pass: two consecutive ">" are separated before the          *)
(* parameters are removed, and integers are replaced shortest name first.  *)
PassReordered(n, s) ==
  CASE n = 1 -> replaceString(s, <<",", " ">>, <<",">>)
    [] n = 2 -> replaceString(s, <<" ", "[">>, <<"[">>)
    [] n = 3 -> replaceString(s, <<"std::", "__1::">>, <<"std::">>)
    [] n = 4 -> replaceString(s, <<"std::", "__cxx11::">>, <<"std::">>)
    [] n = 5 -> replaceString(s, <<">", ">">>, <<">", " ", ">">>)
    [] n = 6 -> removeParameter(s, <<",", "std::", "allocator", "<">>)
    [] n = 7 -> removeParameter(s, <<",", "std::", "less", "<">>)
    [] n = 8 -> constBeforeIdentifier(s)
    [] n = 9 -> reformatter(s)
    [] n = 10 -> replaceString(s, <<"long long">>, <<"Long64_t">>)
    [] n = 11 -> replaceString(s, <<"unsigned ", "long long">>, <<"ULong64_t">>)

(* What the n-th pass makes of s. *)
Pass(n, s) ==
  CASE n = 1 -> replaceString(s, <<",", " ">>, <<",">>)
    [] n = 2 -> replaceString(s, <<" ", "[">>, <<"[">>)
    [] n = 3 -> replaceString(s, <<"std::", "__1::">>, <<"std::">>)
    [] n = 4 -> replaceString(s, <<"std::", "__cxx11::">>, <<"std::">>)
    [] n = 5 -> removeParameter(s, <<",", "std::", "allocator", "<">>)
    [] n = 6 -> removeParameter(s, <<",", "std::", "less", "<">>)
    [] n = 7 -> constBeforeIdentifier(s)
    [] n = 8 -> replaceString(s, <<">", ">">>, <<">", " ", ">">>)
    [] n = 9 -> reformatter(s)
    [] n = 10 -> replaceString(s, <<"unsigned ", "long long">>, <<"ULong64_t">>)
    [] n = 11 -> replaceString(s, <<"long long">>, <<"Long64_t">>)

InitNames ==
  /\ type \in Types
  /\ \E spaced \in BOOLEAN : text = Printed(type, spaced)
  /\ pass = 0

typeDemangle ==
  /\ pass < 11
  /\ pass' = pass + 1
  /\ text' = Pass(pass', text)
  /\ UNCHANGED type

----------------------------------------------------------------------------
RECURSIVE Normal(_)
(* The conventions at the top of the file: const before the identifier, no *)
(* spaces but between two ">", and no allocators or comparators.           *)
Normal(t) ==
  LET dropped == {<<"std::", "allocator">>, <<"std::", "less">>}
      args == [i \in DOMAIN t.args |-> t.args[i]]
      kept == SelectSeq(args, LAMBDA a : a.plain \notin dropped)
      list == FoldLeft(LAMBDA all, a : IF all = <<>> THEN Normal(a)
                                       ELSE Append(all, ",") \o Normal(a),
                       <<>>, kept)
      close == IF list # <<>> /\ Last(list) = ">" THEN <<" ", ">">> ELSE <<">">>
  IN (IF t.const THEN <<"const ">> ELSE <<>>)
       \o t.plain \o (IF t.args = <<>> THEN <<>> ELSE <<"<">> \o list \o close)
       \o t.extent

(* Whatever of these a type is built from, and however the library spaces  *)
(* its brackets, the passes in their order end with the one name.          *)
NameIsNormal == pass = 11 => text = Normal(type)
=============================================================================
