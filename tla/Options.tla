------------------------------ MODULE Options ------------------------------
(***************************************************************************)
(* The three options that choose how JSON is simplified, on their way from *)
(* an argument of fparse() or fload() to the instance of                   *)
(* simplify_element() that is called.  fparse() and fload() each have code *)
(* of their own for the first half: fload() leaves it to match.arg() and   *)
(* names a number for each choice, fparse() counts positions and avoids    *)
(* match.arg() where it can.                                               *)
(***************************************************************************)
EXTENDS Integers, Sequences

Option == {"max_simplify_lvl", "type_policy", "int64_policy"}

choices ==
    [max_simplify_lvl |-> <<"data_frame", "matrix", "vector", "list">>,
     type_policy      |-> <<"anything_goes", "numbers", "strict">>,
     int64_policy     |-> <<"double", "string", "integer64", "always">>]

positions(option) == DOMAIN choices[option]

(* A string is a choice, the beginning of one (no two choices begin alike) *)
(* or neither, as "" and NA are.                                           *)
Neither == [is |-> "neither"]
Strings(option) ==
    [is : {"choice", "beginning"}, of : {choices[option][n] : n \in positions(option)}]
        \cup {Neither}

AllChoices(option) ==
    [n \in positions(option) |-> [is |-> "choice", of |-> choices[option][n]]]

Missing == [form |-> "missing"]
Other   == [form |-> "other"]
Argument(option) ==
    {Missing, Other} \cup [form : {"character"}, strings : Seq(Strings(option))]
                     \cup [form : {"numeric"}, number : Int]
Refused == -1

-----------------------------------------------------------------------------
(* R's pmatch() and match.arg(): the position of the choice. *)
pmatch(option, string) ==
    {n \in positions(option) : string # Neither /\ string.of = choices[option][n]}

match_arg(option, strings) ==
    IF strings = AllChoices(option) THEN 1
    ELSE IF Len(strings) = 1 /\ pmatch(option, strings[1]) # {}
    THEN CHOOSE n \in pmatch(option, strings[1]) : TRUE
    ELSE Refused

(* A seeded fault: a vector is taken for its first string. *)
match_choice_first(option, strings) ==
    IF strings = AllChoices(option) THEN 1
    ELSE IF strings # <<>> /\ pmatch(option, strings[1]) # {}
    THEN CHOOSE n \in pmatch(option, strings[1]) : TRUE
    ELSE match_arg(option, strings)

(* .match_choice() *)
match_choice(option, strings) ==
    IF strings = AllChoices(option) THEN 1
    ELSE IF Len(strings) = 1 /\ pmatch(option, strings[1]) # {}
    THEN CHOOSE n \in pmatch(option, strings[1]) : TRUE
    ELSE match_arg(option, strings)

(* A number has to be in range. *)
in_range(option, n) == IF n + 1 \in positions(option) THEN n ELSE Refused

needs_bit64(option, n) == option = "int64_policy" /\ n = 2

fparse_option(option, arg, bit64) ==
    LET chosen == IF arg.form = "character" THEN match_choice(option, arg.strings) ELSE 0
        n == CASE arg.form = "missing"   -> 0
               [] arg.form = "character" -> IF chosen = Refused THEN Refused ELSE chosen - 1
               [] arg.form = "numeric"   -> in_range(option, arg.number)
               [] arg.form = "other"     -> Refused
    IN IF needs_bit64(option, n) /\ ~bit64 THEN Refused ELSE n

(* fload()'s calls of switch() *)
switch ==
    [max_simplify_lvl |-> [data_frame |-> 0, matrix |-> 1, vector |-> 2, list |-> 3],
     type_policy      |-> [anything_goes |-> 0, numbers |-> 1, strict |-> 2],
     int64_policy     |-> [double |-> 0, string |-> 1, integer64 |-> 2, always |-> 3]]

fload_option(option, arg, bit64) ==
    LET strings == IF arg = Missing THEN AllChoices(option)
                   ELSE IF arg.form = "character" THEN arg.strings ELSE <<>>
        chosen == match_arg(option, strings)
        n == CASE arg.form \in {"missing", "character"} ->
                    IF chosen = Refused THEN Refused
                    ELSE switch[option][choices[option][chosen]]
               [] arg.form = "numeric" -> in_range(option, arg.number)
               [] arg.form = "other"   -> Refused
    IN IF needs_bit64(option, n) /\ ~bit64 THEN Refused ELSE n

-----------------------------------------------------------------------------
(* The enumerations of the C++ code; start() casts an int to one. *)
Simplify_To  == <<"data_frame", "matrix", "vector", "list">>
Type_Policy  == <<"anything_goes", "ints_as_dbls", "strict">>
Int64_R_Type == <<"Double", "String", "Integer64", "Always">>

(* The instance of simplify_element() that deserialize() calls. *)
instance(opts) ==
    [max_simplify_lvl |-> Simplify_To[opts["max_simplify_lvl"] + 1],
     type_policy      |-> Type_Policy[opts["type_policy"] + 1],
     int64_policy     |-> Int64_R_Type[opts["int64_policy"] + 1]]

(* What the documentation has each name and number choose                  *)
(* (R/fparse.R:51-76), by the name it has in the C++ code.                 *)
Documented ==
    [data_frame |-> "data_frame", matrix |-> "matrix", vector |-> "vector", list |-> "list",
     anything_goes |-> "anything_goes", numbers |-> "ints_as_dbls", strict |-> "strict",
     double |-> "Double", string |-> "String", integer64 |-> "Integer64",
     always |-> "Always"]

Meaning(option, arg) ==
    Documented[
      CASE arg.form = "missing" -> choices[option][1]
        [] arg.form = "numeric" -> choices[option][arg.number + 1]
        [] arg.form = "character" ->
             IF Len(arg.strings) = 1 THEN arg.strings[1].of ELSE choices[option][1]]
=============================================================================
