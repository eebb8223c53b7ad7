------------------------------ MODULE MCFload ------------------------------
(***************************************************************************)
(* Files of every kind: JSON, compressed JSON, one that only claims to be  *)
(* compressed, an empty one, one of no extension, and one that is not      *)
(* there.  Calls have any two of these, by path or URL, or three inputs of *)
(* the first two: enough for the extensions of URLs to move by one place   *)
(* and past the end, and for downloads to fail between two that succeed.   *)
(* Of the methods of download.file(), "auto" is any that stops if it       *)
(* fails, "wget" any that only warns.                                      *)
(***************************************************************************)
EXTENDS Fload

MCDoc  == {"json", "json.gz", "claim.gz", "empty.gz", "junk", "absent"}
MCJson == {"json", "json.gz", "claim.gz"}
MCext  == [d \in MCDoc |->
             CASE d = "json" -> <<"json">>
               [] d \in {"json.gz", "claim.gz", "empty.gz"} -> <<"gz">>
               [] OTHER -> <<>>]
MCgzips == [d \in MCDoc |-> IF d = "json.gz" THEN 1 ELSE 0]

InputsOf(docs, prefixes) ==
    [prefix : prefixes, doc : docs] \cup [prefix : {""}, doc : {NA_STRING}]

Prefixes == {"", "file://", "https://"}

Defaults == [o \in Option |-> Missing]

(* Arguments of every form: the default, vectors of up to two strings, the *)
(* vector of all choices, and one number, in range or not.                 *)
Arguments(option) ==
    {Missing, Other}
        \cup [form : {"character"},
              strings : UNION {[1 .. n -> Strings(option)] : n \in 0 .. 2}
                           \cup {AllChoices(option)}]
        \cup [form : {"numeric"}, number : -1 .. 4]

FileCalls ==
    [input : UNION {[1 .. n -> InputsOf(MCDoc, Prefixes)] : n \in 1 .. 2}
                \cup [1 .. 3 -> InputsOf({"json", "json.gz"}, Prefixes)],
     compressed_download : BOOLEAN, keep_temp_files : BOOLEAN,
     parse_error_ok : BOOLEAN, method : {"libcurl", "auto", "wget"},
     options : {Defaults}, bit64 : {TRUE}]

(* One option is given at a time; the file matters no more. *)
OptionCalls ==
    [input : [1 .. 1 -> InputsOf({"json"}, {""})],
     compressed_download : {FALSE}, keep_temp_files : {FALSE},
     parse_error_ok : {FALSE}, method : {"auto"},
     options : UNION {{[Defaults EXCEPT ![o] = a] : a \in Arguments(o)} : o \in Option},
     bit64 : BOOLEAN]

MCCalls == FileCalls \cup OptionCalls

(* A path before two file:// URLs, of files that hold what they say, and   *)
(* keep_temp_files as by default in the documentation.                     *)
MCDocumented ==
    [input : {<<[prefix |-> "", doc |-> "json"],
                [prefix |-> "file://", doc |-> "json.gz"],
                [prefix |-> "file://", doc |-> "json"]>>},
     compressed_download : {FALSE}, keep_temp_files : {TRUE},
     parse_error_ok : BOOLEAN, method : {"auto"},
     options : {Defaults}, bit64 : {TRUE}]
=============================================================================
