------------------------------- MODULE Fload -------------------------------
(***************************************************************************)
(* fload(): files named by paths and URLs are loaded in one call.  What    *)
(* URLs refer to is first downloaded to temporary files, whose extension   *)
(* decides whether they are decompressed; a file:// URL counts as one.     *)
(* The temporary files are removed when R runs the call's exit handlers,   *)
(* however the call ends, if it came to register them.                     *)
(***************************************************************************)
EXTENDS Options, FiniteSets

CONSTANTS
    Doc, Absent,    \* files, and those that do not exist
    Json, Empty,    \* those that hold JSON, and those that hold nothing
    Extension,      \* of names of files
    ext,            \* the extension of a file, or <<>> if it has none
    gzips,          \* how often it is compressed
    Calls           \* the arguments a call may have

NA_STRING == "NA"

(* What an input names: "" is a path, all but file:// is remote. *)
Input == [prefix : {"", "file://", "https://"}, doc : Doc]
            \cup [prefix : {""}, doc : {NA_STRING}]

last(e) == IF e = <<>> THEN "" ELSE e[Len(e)]

(* JSON that is compressed is so only once, and is named for it. *)
ASSUME DocumentsAssumption ==
    /\ Absent \subseteq Doc /\ Json \subseteq Doc /\ Empty \subseteq Doc \ Json
    /\ NA_STRING \notin Doc
    /\ "gz" \in Extension /\ ext \in [Doc -> Seq(Extension)] /\ gzips \in [Doc -> Nat]
    /\ \A d \in Json : gzips[d] # 0 => gzips[d] = 1 /\ last(ext[d]) = "gz"

ASSUME CallsAssumption ==
    \A c \in Calls :
      c.input \in Seq(Input) /\ \A o \in Option : c.options[o] \in Argument(o)

VARIABLES call,     \* the arguments, the method of download.file() that the
                    \* R session is set to, and whether bit64 is installed
          opts,     \* the options, as numbers
          pc,       \* what is to be done next, or how the call has ended
          k,        \* the input a loop is at
          temp,     \* the temporary file of each input
          disk,     \* what each file there is holds
          on_exit,  \* the files the exit handlers remove
          out       \* the answers so far
vars == <<call, opts, pc, k, temp, disk, on_exit, out>>

inputs == DOMAIN call.input
doc(i) == call.input[i].doc

UserFile(d) == [user |-> d]
None        == [user |-> NA_STRING]

-----------------------------------------------------------------------------
(* .diagnose_input() *)
is_from_url(i)        == call.input[i].prefix # ""
is_local_file_url(i)  == call.input[i].prefix = "file://"
is_remote_file_url(i) == call.input[i].prefix = "https://"

urls    == {i \in inputs : is_from_url(i)}
locals  == {i \in inputs : is_local_file_url(i)}
remotes == {i \in inputs : is_remote_file_url(i)}

(* The place of a URL among the URLs *)
place(i) == Cardinality({j \in urls : j <= i})

(* .fileext[is_from_url]: for each input, or for each URL and then indexed *)
(* as if for each input.  Past its end is NA, which is no extension.       *)
fileext(i) ==
    IF call.compressed_download
    THEN IF is_remote_file_url(i) THEN Append(ext[doc(i)], "gz") ELSE ext[doc(i)]
    ELSE IF \E j \in urls : place(j) = i
         THEN ext[doc(CHOOSE j \in urls : place(j) = i)]
         ELSE <<>>

Init ==
    /\ call \in Calls
    /\ opts = <<>>
    /\ pc = "options" /\ k = 1
    /\ temp = [i \in inputs |-> None]
    /\ disk = [p \in {UserFile(d) : d \in Doc \ Absent} |->
                  [doc |-> p.user, gzips |-> gzips[p.user]]]
    /\ on_exit = {} /\ out = <<>>

(* fload() prepares its options before all else. *)
PrepOptions ==
    /\ pc = "options"
    /\ LET n == [o \in Option |-> fload_option(o, call.options[o], call.bit64)] IN
       IF \E o \in Option : n[o] = Refused
       THEN pc' = "refused" /\ UNCHANGED opts
       ELSE pc' = "prepare" /\ opts' = n
    /\ UNCHANGED <<call, k, temp, disk, on_exit, out>>

(* download.file() writes new files; files[i] is what came for URL i. *)
Download(files) ==
    LET some == DOMAIN files IN
    disk' = [p \in DOMAIN disk \cup {temp[i] : i \in some} |->
               IF \E i \in some : p = temp[i]
               THEN files[CHOOSE i \in some : p = temp[i]]
               ELSE disk[p]]

(* An error before the exit handlers are registered. *)
Abort == pc' = "aborted" /\ UNCHANGED <<call, opts, k, temp, disk, on_exit, out>>

-----------------------------------------------------------------------------
(* .prep_input() *)

missing_file(i) ==
    ~is_from_url(i) /\ doc(i) # NA_STRING /\ UserFile(doc(i)) \notin DOMAIN disk

FilesMissing ==
    /\ pc = "prepare" /\ \E i \in inputs : missing_file(i)
    /\ Abort

NameTempFiles ==
    /\ pc = "prepare" /\ \A i \in inputs : ~missing_file(i)
    /\ temp' = [i \in inputs |->
                  IF is_from_url(i) THEN [temp |-> i, ext |-> fileext(i)] ELSE None]
    /\ pc' = "local"
    /\ UNCHANGED <<call, opts, k, disk, on_exit, out>>

(* The internal method of download.file() takes only the first URL. *)
DownloadLocal ==
    /\ pc = "local"
    /\ \/ locals = {} /\ UNCHANGED disk
       \/ \E first \in locals :
            /\ \A i \in locals : first <= i
            /\ UserFile(doc(first)) \in DOMAIN disk
            /\ Download([i \in {first} |-> disk[UserFile(doc(i))]])
    /\ pc' = "remote"
    /\ UNCHANGED <<call, opts, k, temp, on_exit, out>>

(* What a server may send: it need not compress because it is asked to. *)
Served(i, zipped) == [doc |-> doc(i), gzips |-> gzips[doc(i)] + zipped]
Zipped == IF call.compressed_download THEN {0, 1} ELSE {0}

(* libcurl downloads all, and fails only if all downloads do. *)
DownloadTogether ==
    /\ pc = "remote" /\ call.method = "libcurl" /\ remotes # {}
    /\ \E some \in (SUBSET remotes) \ {{}}, zipped \in Zipped :
          Download([i \in some |-> Served(i, zipped)])
    /\ pc' = "register"
    /\ UNCHANGED <<call, opts, k, temp, on_exit, out>>

DownloadNext ==
    /\ pc = "remote" /\ call.method # "libcurl" /\ k \in inputs
    /\ IF is_remote_file_url(k)
       THEN \E zipped \in Zipped : Download([i \in {k} |-> Served(i, zipped)])
       ELSE UNCHANGED disk
    /\ k' = k + 1
    /\ UNCHANGED <<call, opts, pc, temp, on_exit, out>>

(* A download that failed may leave a file, empty or with another page. *)
Scraps == [doc : Doc \ (Json \cup Absent), gzips : {0}]

(* If wget or curl fails there is a warning and a status, which is not     *)
(* looked at: the loop goes on to the next URL.                            *)
DownloadNextWarns ==
    /\ pc = "remote" /\ call.method = "wget" /\ k \in remotes
    /\ \/ UNCHANGED disk
       \/ \E file \in Scraps : Download([i \in {k} |-> file])
    /\ k' = k + 1
    /\ UNCHANGED <<call, opts, pc, temp, on_exit, out>>

Downloaded ==
    /\ pc = "remote"
    /\ IF call.method = "libcurl" THEN remotes = {} ELSE k \notin inputs
    /\ pc' = "register"
    /\ UNCHANGED <<call, opts, k, temp, disk, on_exit, out>>

DownloadFails ==
    /\ \/ pc = "local" /\ locals # {}
       \/ pc = "remote" /\ call.method = "libcurl" /\ remotes # {}
       \/ pc = "remote" /\ call.method # "libcurl" /\ k \in remotes
    /\ Abort

-----------------------------------------------------------------------------
(* fload() *)

(* diagnosis$input, in which temporary files have replaced the URLs. *)
input(i) == IF is_from_url(i) THEN temp[i] ELSE UserFile(doc(i))

(* A seeded fault: files are removed whatever the caller asks for. *)
RegisterAlways ==
    /\ pc = "register"
    /\ on_exit' = {input(i) : i \in urls}
    /\ pc' = "load" /\ k' = 1
    /\ UNCHANGED <<call, opts, temp, disk, out>>

(* A seeded fault: all files that were loaded are removed. *)
RegisterAll ==
    /\ pc = "register"
    /\ on_exit' = IF call.keep_temp_files THEN {} ELSE {input(i) : i \in inputs}
    /\ pc' = "load" /\ k' = 1
    /\ UNCHANGED <<call, opts, temp, disk, out>>

Register ==
    /\ pc = "register"
    /\ on_exit' = IF call.keep_temp_files THEN {} ELSE {input(i) : i \in urls}
    /\ pc' = "load" /\ k' = 1
    /\ UNCHANGED <<call, opts, temp, disk, out>>

NA           == [is |-> "NA"]
OnParseError == [is |-> "on_parse_error"]
Value(d)     == [is |-> "value", doc |-> d]
Answer       == {NA, OnParseError} \cup {Value(d) : d \in Doc}

(* get_memDecompress_type() *)
is_compressed(i) ==
    "gz" = last(IF is_from_url(i) THEN temp[i].ext ELSE ext[doc(i)])

Give(a) == out' = Append(out, a) /\ k' = k + 1 /\ UNCHANGED pc
Stop    == pc' = "error" /\ UNCHANGED <<out, k>>

(* simdjson, of bytes that are compressed n times, or of no file at all *)
Parse(d, n) ==
    IF d \in Json /\ n = 0 THEN Give(Value(d))
    ELSE IF call.parse_error_ok THEN Give(OnParseError) ELSE Stop

(* decompress(): what is left of an empty file is a byte that is no JSON; *)
(* it is an error, not one of the parser's, if memDecompress() fails.      *)
Decompress(file) ==
    IF file.gzips > 0 \/ file.doc \in Empty THEN Parse(file.doc, file.gzips - 1)
    ELSE Stop

(* A seeded fault: temporary files are loaded as they are. *)
LoadNextTempAsIs ==
    /\ pc = "load" /\ k \in inputs
    /\ IF doc(k) = NA_STRING THEN Give(NA)
       ELSE IF input(k) \notin DOMAIN disk THEN
            IF is_compressed(k) THEN Stop ELSE Parse(NA_STRING, 0)
       ELSE LET file == disk[input(k)] IN
            IF is_compressed(k) /\ ~is_from_url(k) THEN Decompress(file)
            ELSE Parse(file.doc, file.gzips)
    /\ UNCHANGED <<call, opts, temp, disk, on_exit>>

(* A seeded fault: missing inputs are left out of the result. *)
LoadNextDroppingNA ==
    /\ pc = "load" /\ k \in inputs
    /\ IF doc(k) = NA_STRING THEN k' = k + 1 /\ UNCHANGED <<out, pc>>
       ELSE IF input(k) \notin DOMAIN disk THEN
            IF is_compressed(k) THEN Stop ELSE Parse(NA_STRING, 0)
       ELSE LET file == disk[input(k)] IN
            IF is_compressed(k) THEN Decompress(file)
            ELSE Parse(file.doc, file.gzips)
    /\ UNCHANGED <<call, opts, temp, disk, on_exit>>

(* .load_json(): a file that is not there is a parse error, unless its     *)
(* name says that it is compressed.                                        *)
LoadNext ==
    /\ pc = "load" /\ k \in inputs
    /\ IF doc(k) = NA_STRING THEN Give(NA)
       ELSE IF input(k) \notin DOMAIN disk THEN
            IF is_compressed(k) THEN Stop ELSE Parse(NA_STRING, 0)
       ELSE LET file == disk[input(k)] IN
            IF is_compressed(k) THEN Decompress(file)
            ELSE Parse(file.doc, file.gzips)
    /\ UNCHANGED <<call, opts, temp, disk, on_exit>>

(* An R error or an exception in the middle of .load_json() *)
LoadFails == pc = "load" /\ Stop /\ UNCHANGED <<call, opts, temp, disk, on_exit>>

LoadEnds ==
    /\ pc = "load" /\ k \notin inputs
    /\ pc' = "return"
    /\ UNCHANGED <<call, opts, k, temp, disk, on_exit, out>>

(* A seeded fault: the files are removed where the function returns. *)
OnExitIfReturned ==
    /\ pc \in {"return", "error"}
    /\ disk' = [p \in DOMAIN disk \ (IF pc = "return" THEN on_exit ELSE {}) |-> disk[p]]
    /\ pc' = IF pc = "return" THEN "returned" ELSE "stopped"
    /\ UNCHANGED <<call, opts, k, temp, on_exit, out>>

OnExit ==
    /\ pc \in {"return", "error"}
    /\ disk' = [p \in DOMAIN disk \ on_exit |-> disk[p]]
    /\ pc' = IF pc = "return" THEN "returned" ELSE "stopped"
    /\ UNCHANGED <<call, opts, k, temp, on_exit, out>>

Ended == pc \in {"refused", "aborted", "returned", "stopped"} /\ UNCHANGED vars

Next ==
    \/ PrepOptions \/ FilesMissing \/ NameTempFiles
    \/ DownloadLocal \/ DownloadTogether \/ DownloadNext
    \/ DownloadNextWarns \/ Downloaded \/ DownloadFails
    \/ Register \/ LoadNext \/ LoadFails \/ LoadEnds
    \/ OnExit \/ Ended

Spec == Init /\ [][Next]_vars

-----------------------------------------------------------------------------
(* Properties *)

Temp == [temp : inputs, ext : Seq(Extension)]

(* Every variable holds values of its type, and there is an answer to each *)
(* input before the one that is loaded next.                               *)
TypeOK ==
    /\ call \in Calls
    /\ opts \in [Option -> 0 .. 3] \cup {<<>>}
    /\ pc \in {"options", "prepare", "local", "remote", "register", "load",
              "return", "error", "refused", "aborted", "returned", "stopped"}
    /\ k \in Nat \ {0}
    /\ temp \in [inputs -> Temp \cup {None}]
    /\ disk \in [DOMAIN disk -> [doc : Doc, gzips : Nat]]
    /\ on_exit \subseteq Temp
    /\ out \in Seq(Answer)
    /\ pc = "load" => Len(out) = k - 1

(* Three ways the program has of not getting at a URL's file and going on. *)
(* Only the first of several file:// URLs is downloaded, libcurl may       *)
(* return without some of several remote ones, and a download by wget or   *)
(* curl may fail and leave no file, or another one (R/utils.R:71, 84, 95). *)
NotDownloaded(i) ==
    \/ /\ is_local_file_url(i) /\ \E j \in locals : j < i
       /\ input(i) \notin DOMAIN disk
    \/ /\ is_remote_file_url(i) /\ call.method = "libcurl" /\ Cardinality(remotes) > 1
       /\ input(i) \notin DOMAIN disk
    \/ /\ is_remote_file_url(i) /\ call.method = "wget"
       /\ input(i) \in DOMAIN disk => disk[input(i)].doc # doc(i)

(* Where not all inputs are URLs, a URL's temporary file may have another  *)
(* one's extension, or none (R/utils.R:56, 64).                            *)
Misnamed(i) ==
    /\ is_from_url(i) /\ ~call.compressed_download
    /\ temp[i].ext # ext[doc(i)]

(* An answer to an input is that to the file the input names, compressed   *)
(* or not, by path or by URL.  A file of JSON is taken for a parse error,  *)
(* if the caller allows for those, only in the cases above and if a server *)
(* compresses what is compressed.  For several file:// URLs, and for paths *)
(* and URLs in one call, this is at odds with the documentation, which     *)
(* LoadsAsDocumented holds the code to.                                    *)
OwnAnswer(i, a) ==
    \/ doc(i) = NA_STRING /\ a = NA
    \/ doc(i) \in Json /\ a = Value(doc(i))
    \/ /\ doc(i) # NA_STRING /\ a = OnParseError
       /\ call.parse_error_ok
       /\ \/ doc(i) \notin Json
          \/ NotDownloaded(i) \/ Misnamed(i)
          \/ disk[input(i)].gzips > 1

(* A call that returns has an answer for each input, in its order. *)
AnswersAreTheirOwn ==
    pc = "return" =>
      Len(out) = Len(call.input) /\ \A i \in inputs : OwnAnswer(i, out[i])

(* The files of the user are never touched, whatever is removed at the end *)
(* (issue 33, inst/tinytest/test_issues.R:6-16).                           *)
UserFilesStay ==
    \A d \in Doc \ Absent :
      UserFile(d) \in DOMAIN disk /\ disk[UserFile(d)] = [doc |-> d, gzips |-> gzips[d]]

TempFiles == DOMAIN disk \ {UserFile(d) : d \in Doc}

(* Unless the caller keeps temporary files, nothing a call has downloaded  *)
(* is left at its end, also where loading fails.  It is left where a       *)
(* download fails: the files downloaded before it stay (R/fload.R:128-135).*)
(* This is what the name keep_temp_files says, and the opposite of what is *)
(* documented: see LoadsAsDocumented.                                      *)
TempFilesRemoved ==
    pc \in {"returned", "stopped"} /\ ~call.keep_temp_files => TempFiles = {}

(* If the caller keeps temporary files, all that were downloaded are left. *)
TempFilesKept ==
    pc \in {"returned", "stopped"} /\ call.keep_temp_files =>
      \A i \in urls : temp[i] \in TempFiles \/ NotDownloaded(i)

EveryFileIsRead ==
    \A i \in inputs : doc(i) \in Json => out[i] = Value(doc(i))

RemovedIfAsked == urls # {} => (call.keep_temp_files <=> TempFiles = {})

(* What the documentation says of a call that returns.  Its files, "one or *)
(* more paths to files (local or remote) containing JSON", are all read    *)
(* (R/fparse.R:19-20), and keep_temp_files is "whether to remove any       *)
(* temporary files created by fload()" (R/fload.R:12-13).                  *)
LoadsAsDocumented == pc = "returned" => EveryFileIsRead /\ RemovedIfAsked

(* fparse() would take the same options or refuse as well, though its code *)
(* for that is another; and what is made of the default, a name, the       *)
(* beginning of one or a number is the instance of simplify_element() that *)
(* is documented for it.                                                   *)
OptionsMeanTheSame ==
    LET fparse(o) == fparse_option(o, call.options[o], call.bit64) IN
    /\ pc = "refused" => \E o \in Option : fparse(o) = Refused
    /\ opts # <<>> => \A o \in Option :
          opts[o] = fparse(o) /\ instance(opts)[o] = Meaning(o, call.options[o])
=============================================================================
