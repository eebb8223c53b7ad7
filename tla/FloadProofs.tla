---------------------------- MODULE FloadProofs ----------------------------
(***************************************************************************)
(* Proofs about Fload, for any files, inputs, options and downloads.       *)
(*                                                                         *)
(* The inductive invariant says of each file on disk that it is one of the *)
(* user's, as it was, or the temporary file of a URL, with what a server   *)
(* may send for it; and of each URL how far its download has come.         *)
(***************************************************************************)
EXTENDS Fload, FiniteSetTheorems, TLAPS

Named  == pc \in {"local", "remote", "register", "load", "return", "error",
                  "returned", "stopped"}
Loaded == pc \in {"load", "return", "error"}

UserFiles == {UserFile(d) : d \in Doc \ Absent}

(* What is on disk, and what is to be removed from it. *)
Files ==
    /\ call \in Calls
    /\ UserFilesStay
    /\ \A p \in DOMAIN disk : p \in UserFiles \/ \E i \in urls : p = temp[i]
    /\ pc \in {"options", "prepare"} => DOMAIN disk \subseteq UserFiles /\ on_exit = {}
    /\ Named => \A i \in urls : temp[i] = [temp |-> i, ext |-> fileext(i)]
    /\ on_exit \subseteq {temp[i] : i \in urls}
    /\ Loaded => on_exit = IF call.keep_temp_files THEN {} ELSE {temp[i] : i \in urls}

(* What a URL's temporary file may hold: what a server sends for it, a     *)
(* copy of a local file, or what a failed download has left.               *)
Zips(i)     == IF is_remote_file_url(i) THEN Zipped ELSE {0}
Fails(i)    == is_remote_file_url(i) /\ call.method = "wget"
Received(i) == {Served(i, zipped) : zipped \in Zips(i)}
                  \cup {file \in Scraps : Fails(i)}
There(i)    == temp[i] \in DOMAIN disk
Sent(i)     == disk[temp[i]] \in Received(i)

Downloads ==
    /\ k \in Nat \ {0}
    /\ pc \in {"options", "prepare", "local"} => k = 1
    /\ pc \in {"local", "remote", "register", "load"} => \A i \in inputs : ~missing_file(i)
    /\ Named => \A i \in urls : There(i) => Sent(i)
    /\ pc = "remote" => \A i \in locals : There(i) \/ \E j \in locals : j < i
    /\ pc = "remote" /\ call.method # "libcurl" /\ call.method # "wget" =>
         \A i \in remotes : i < k => There(i)
    /\ pc \in {"register", "load", "return", "error"} =>
         \A i \in urls : There(i) \/ NotDownloaded(i)

GivenAnswers ==
    /\ out \in Seq(Answer)
    /\ pc \in {"options", "prepare", "local", "remote", "register"} => out = <<>>
    /\ pc \in {"load", "return"} =>
         Len(out) = k - 1 /\ \A i \in 1 .. k - 1 : OwnAnswer(i, out[i])
    /\ pc = "load" => k <= Len(call.input) + 1
    /\ pc = "return" => k = Len(call.input) + 1

IInv == Files /\ Downloads /\ GivenAnswers

-----------------------------------------------------------------------------
(* The call does not change, nor what is derived from it. *)
LEMMA SameCall ==
    ASSUME call' = call
    PROVE  /\ inputs' = inputs /\ urls' = urls
           /\ locals' = locals /\ remotes' = remotes /\ Zipped' = Zipped
           /\ \A i : /\ doc(i)' = doc(i) /\ fileext(i)' = fileext(i)
                     /\ Zips(i)' = Zips(i) /\ Received(i)' = Received(i)
                     /\ is_from_url(i)' = is_from_url(i)
BY DEF inputs, urls, locals, remotes, Zipped, doc, fileext, place, Zips,
       Received, Served, Fails, is_from_url, is_local_file_url, is_remote_file_url

(* A call's inputs are a sequence, and only paths can be NA. *)
LEMMA InputsType ==
    ASSUME call \in Calls
    PROVE  /\ inputs = 1 .. Len(call.input) /\ Len(call.input) \in Nat
           /\ urls \subseteq inputs /\ locals \subseteq urls /\ remotes \subseteq urls
           /\ urls = locals \cup remotes /\ locals \cap remotes = {}
           /\ \A i \in inputs : doc(i) \in Doc \cup {NA_STRING}
           /\ \A i \in urls : doc(i) \in Doc
<1>1. call.input \in Seq(Input) BY CallsAssumption
<1>2. inputs = 1 .. Len(call.input) /\ Len(call.input) \in Nat BY <1>1 DEF inputs
<1>3. \A i \in inputs : call.input[i] \in Input BY <1>1, <1>2
<1>4. ASSUME NEW i \in inputs
      PROVE  /\ doc(i) \in Doc \cup {NA_STRING}
             /\ is_from_url(i) <=> is_local_file_url(i) \/ is_remote_file_url(i)
             /\ ~(is_local_file_url(i) /\ is_remote_file_url(i))
             /\ is_from_url(i) => doc(i) \in Doc
  BY <1>3 DEF Input, doc, is_from_url, is_local_file_url, is_remote_file_url
<1> QED BY <1>2, <1>4, Zenon DEF urls, locals, remotes

(* Temporary files are none of the user's, and no two URLs share one. *)
LEMMA NamesDiffer ==
    /\ \A d, i, e : UserFile(d) # [temp |-> i, ext |-> e]
    /\ \A i, e : [temp |-> i, ext |-> e] \notin UserFiles
    /\ \A i, e, j, f : [temp |-> i, ext |-> e] = [temp |-> j, ext |-> f] => i = j
<1>1. ASSUME NEW d, NEW i, NEW e PROVE UserFile(d) # [temp |-> i, ext |-> e]
  <2>1. DOMAIN UserFile(d) = {"user"} BY DEF UserFile
  <2>2. DOMAIN [temp |-> i, ext |-> e] = {"temp", "ext"} OBVIOUS
  <2> QED BY <2>1, <2>2
<1>2. ASSUME NEW i, NEW e PROVE [temp |-> i, ext |-> e] \notin UserFiles
  BY <1>1, Zenon DEF UserFiles
<1>3. ASSUME NEW i, NEW e, NEW j, NEW f, [temp |-> i, ext |-> e] = [temp |-> j, ext |-> f]
      PROVE i = j
  <2>1. [temp |-> i, ext |-> e].temp = i /\ [temp |-> j, ext |-> f].temp = j OBVIOUS
  <2> QED BY <1>3, <2>1
<1> QED BY <1>1, <1>2, <1>3, Zenon

LEMMA TempNames ==
    ASSUME Files, Named
    PROVE  /\ \A i \in urls : temp[i] \notin UserFiles
           /\ \A i, j \in urls : temp[i] = temp[j] => i = j
<1>1. \A i \in urls : temp[i] = [temp |-> i, ext |-> fileext(i)] BY DEF Files
<1>2. ASSUME NEW i \in urls, NEW j \in urls, temp[i] = temp[j] PROVE i = j
  <2> DEFINE e == fileext(i)
             f == fileext(j)
  <2>1. [temp |-> i, ext |-> e] = [temp |-> j, ext |-> f] BY <1>1, <1>2
  <2> HIDE DEF e, f
  <2> QED BY <2>1, NamesDiffer
<1>3. ASSUME NEW i \in urls PROVE temp[i] \notin UserFiles
  <2> DEFINE e == fileext(i)
  <2>1. temp[i] = [temp |-> i, ext |-> e] BY <1>1
  <2> HIDE DEF e
  <2> QED BY <2>1, NamesDiffer
<1> QED BY <1>2, <1>3

(* The files of the user stay as long as none of them is written or removed. *)
LEMMA UserFilesSame ==
    ASSUME UserFilesStay,
           \A p \in UserFiles : p \in DOMAIN disk => p \in DOMAIN disk' /\ disk'[p] = disk[p]
    PROVE  UserFilesStay'
BY Zenon DEF UserFilesStay, UserFiles

-----------------------------------------------------------------------------
(* Downloads *)

(* The files for some URLs are written, and no others. *)
Fetched(some) ==
    /\ some \subseteq urls
    /\ DOMAIN disk' = DOMAIN disk \cup {temp[i] : i \in some}
    /\ \A p \in DOMAIN disk \ {temp[i] : i \in some} : disk'[p] = disk[p]
    /\ \A i \in some : disk'[temp[i]] \in Received(i)

LEMMA TogetherFetched ==
    ASSUME IInv, DownloadTogether
    PROVE  \E some \in SUBSET remotes : some # {} /\ Fetched(some)
<1>1. PICK some \in SUBSET remotes, zipped \in Zipped :
         some # {} /\ Download([i \in some |-> Served(i, zipped)])
  BY DEF DownloadTogether
<1>2. some \subseteq urls /\ \A i \in some : is_remote_file_url(i)
  BY InputsType DEF IInv, Files, remotes
<1>3. /\ DOMAIN disk' = DOMAIN disk \cup {temp[i] : i \in some}
      /\ \A p \in DOMAIN disk \ {temp[i] : i \in some} : disk'[p] = disk[p]
  BY <1>1 DEF Download
<1>4. ASSUME NEW i \in some PROVE disk'[temp[i]] = Served(i, zipped)
  <2>1. disk'[temp[i]] = Served(CHOOSE j \in some : temp[i] = temp[j], zipped)
    BY <1>1 DEF Download
  <2>2. (CHOOSE j \in some : temp[i] = temp[j]) = i
    BY <1>2, TempNames, Zenon DEF IInv, Named, DownloadTogether
  <2> QED BY <2>1, <2>2
<1> QED BY <1>1, <1>2, <1>3, <1>4 DEF Fetched, Zips, Received

LEMMA NextFetched ==
    ASSUME IInv, DownloadNext
    PROVE  Fetched({k} \cap remotes)
<1>1. CASE ~is_remote_file_url(k)
  BY <1>1 DEF DownloadNext, remotes, Fetched
<1>2. CASE is_remote_file_url(k)
  <2>1. k \in remotes /\ k \in urls /\ {k} \cap remotes = {k}
    BY <1>2, InputsType DEF IInv, Files, DownloadNext, remotes
  <2>2. PICK zipped \in Zipped : Download([i \in {k} |-> Served(i, zipped)])
    BY <1>2 DEF DownloadNext
  <2>3. /\ DOMAIN disk' = DOMAIN disk \cup {temp[i] : i \in {k}}
        /\ \A p \in DOMAIN disk \ {temp[i] : i \in {k}} : disk'[p] = disk[p]
        /\ disk'[temp[k]] = Served(k, zipped)
    BY <2>2 DEF Download
  <2> QED BY <1>2, <2>1, <2>3 DEF Fetched, Zips, Received
<1> QED BY <1>1, <1>2

LEMMA FailedFetched ==
    ASSUME IInv, DownloadNextWarns
    PROVE  Fetched({}) \/ Fetched({k})
<1>1. CASE UNCHANGED disk
  <2>1. {temp[i] : i \in {}} = {} OBVIOUS
  <2> QED BY <1>1, <2>1 DEF Fetched
<1>2. ASSUME NEW file \in Scraps, Download([i \in {k} |-> file])
      PROVE  Fetched({k})
  <2>1. k \in urls /\ Fails(k)
    BY InputsType DEF IInv, Files, DownloadNextWarns, remotes, Fails
  <2>2. /\ DOMAIN disk' = DOMAIN disk \cup {temp[i] : i \in {k}}
        /\ \A p \in DOMAIN disk \ {temp[i] : i \in {k}} : disk'[p] = disk[p]
        /\ disk'[temp[k]] = file
    BY <1>2 DEF Download
  <2>3. file \in Received(k) BY <2>1 DEF Received
  <2> QED BY <2>1, <2>2, <2>3 DEF Fetched
<1> QED BY <1>1, <1>2 DEF DownloadNextWarns

LEMMA LocalFetched ==
    ASSUME IInv, DownloadLocal
    PROVE  \E some \in SUBSET locals :
             /\ Fetched(some)
             /\ \A i \in locals : i \in some \/ \E j \in locals : j < i
<1>1. CASE locals = {} /\ UNCHANGED disk
  <2>1. Fetched({})
    <3>1. {temp[i] : i \in {}} = {} OBVIOUS
    <3> QED BY <1>1, <3>1 DEF Fetched
  <2> QED BY <1>1, <2>1
<1>2. ASSUME NEW first \in locals,
             \A i \in locals : first <= i,
             UserFile(doc(first)) \in DOMAIN disk,
             Download([i \in {first} |-> disk[UserFile(doc(i))]])
      PROVE  /\ Fetched({first})
             /\ \A i \in locals : i \in {first} \/ \E j \in locals : j < i
  <2>1. first \in urls /\ doc(first) \in Doc /\ locals \subseteq Nat
    BY InputsType DEF IInv, Files
  <2>2. /\ DOMAIN disk' = DOMAIN disk \cup {temp[i] : i \in {first}}
        /\ \A p \in DOMAIN disk \ {temp[i] : i \in {first}} : disk'[p] = disk[p]
        /\ disk'[temp[first]] = disk[UserFile(doc(first))]
    BY <1>2 DEF Download
  <2>3. disk[UserFile(doc(first))] = Served(first, 0)
    <3>1. UserFile(doc(first)) \in UserFiles
      <4>1. Named /\ \A i \in urls : temp[i] = [temp |-> i, ext |-> fileext(i)]
        BY DEF IInv, Files, Named, DownloadLocal
      <4>2. \A i \in urls : UserFile(doc(first)) # temp[i]
        <5> SUFFICES ASSUME NEW i \in urls PROVE UserFile(doc(first)) # temp[i] OBVIOUS
        <5> DEFINE e == fileext(i)
        <5>1. temp[i] = [temp |-> i, ext |-> e] BY <4>1
        <5> HIDE DEF e
        <5> QED BY <5>1, NamesDiffer
      <4> QED BY <1>2, <4>2 DEF IInv, Files
    <3>2. doc(first) \in Doc \ Absent
      BY <3>1 DEF UserFiles, UserFile
    <3>3. disk[UserFile(doc(first))] = [doc |-> doc(first), gzips |-> gzips[doc(first)]]
      BY <3>2 DEF IInv, Files, UserFilesStay
    <3>4. gzips[doc(first)] + 0 = gzips[doc(first)] BY <2>1, DocumentsAssumption
    <3> QED BY <3>3, <3>4 DEF Served
  <2>4. \A i \in locals : i \in {first} \/ first < i BY <1>2, <2>1
  <2>5. 0 \in Zips(first) BY DEF Zips, Zipped
  <2>6. Served(first, 0) \in Received(first) BY <2>5 DEF Received
  <2> QED BY <2>1, <2>2, <2>3, <2>4, <2>6 DEF Fetched
<1> QED
  <2>1. {i \in locals : FALSE} = {} OBVIOUS
  <2> QED BY <1>1, <1>2 DEF DownloadLocal

(* New temporary files leave the files of the user alone. *)
LEMMA FetchedFiles ==
    ASSUME Files, Named, NEW some, Fetched(some), UNCHANGED <<call, temp, on_exit>>,
           Named', ~Loaded'
    PROVE  Files'
<1>1. \A i \in urls : temp[i] \notin UserFiles BY TempNames
<1>2. UserFilesStay'
  <2>1. \A p \in UserFiles : p \in DOMAIN disk => p \in DOMAIN disk' /\ disk'[p] = disk[p]
    BY <1>1 DEF Fetched
  <2> QED BY <2>1, UserFilesSame DEF Files
<1>3. \A p \in DOMAIN disk' : p \in UserFiles \/ \E i \in urls : p = temp[i]
  BY DEF Fetched, Files
<1>4. pc' \notin {"options", "prepare"} BY DEF Named
<1> QED BY <1>2, <1>3, <1>4, SameCall DEF Files

(* What was fetched is what a server sent, and what was there still is. *)
LEMMA FetchedSent ==
    ASSUME IInv, Named, NEW some, Fetched(some), UNCHANGED <<call, temp>>
    PROVE  /\ \A i \in urls : There(i)' => Sent(i)'
           /\ \A i \in urls : There(i) \/ i \in some => There(i)'
<1>1. \A i, j \in urls : temp[i] = temp[j] => i = j BY TempNames DEF IInv
<1>2. \A i \in urls : There(i) => Sent(i) BY DEF IInv, Downloads
<1>3. ASSUME NEW i \in urls, There(i)' PROVE Sent(i)'
  <2>1. CASE i \in some
    <3>1. disk'[temp[i]] \in Received(i) BY <2>1 DEF Fetched
    <3> QED BY <3>1, SameCall DEF Sent
  <2>2. CASE i \notin some
    <3>1. temp[i] \notin {temp[j] : j \in some} BY <1>1, <2>2 DEF Fetched
    <3>2. There(i) /\ disk'[temp[i]] = disk[temp[i]] BY <1>3, <3>1 DEF There, Fetched
    <3>3. disk[temp[i]] \in Received(i) BY <1>2, <3>2 DEF Sent
    <3> QED BY <3>2, <3>3, SameCall DEF Sent
  <2> QED BY <2>1, <2>2
<1>4. ASSUME NEW i \in urls, There(i) \/ i \in some PROVE There(i)'
  BY <1>4 DEF There, Fetched
<1> QED BY <1>3, <1>4

-----------------------------------------------------------------------------
(* What is on disk *)

LEMMA FilesAside ==
    ASSUME Files, UNCHANGED <<call, temp, disk, on_exit>>,
           pc' \in {"options", "prepare"} => pc \in {"options", "prepare"},
           Named' => Named, Loaded' => Loaded
    PROVE  Files'
<1>1. UserFilesStay' BY DEF UserFilesStay, Files
<1> QED BY <1>1, SameCall DEF Files

LEMMA FilesKept == IInv /\ [Next]_vars => Files'
<1> SUFFICES ASSUME IInv, [Next]_vars PROVE Files' OBVIOUS
<1> USE DEF IInv
<1>1. CASE PrepOptions BY <1>1, FilesAside DEF PrepOptions, Named, Loaded
<1>2. CASE FilesMissing BY <1>2, FilesAside DEF FilesMissing, Abort, Named, Loaded
<1>3. CASE NameTempFiles
  <2>1. UNCHANGED <<call, disk, on_exit>> /\ on_exit = {} /\ DOMAIN disk \subseteq UserFiles
    BY <1>3 DEF NameTempFiles, Files
  <2>2. \A i \in urls : temp'[i] = [temp |-> i, ext |-> fileext(i)]
    BY <1>3 DEF NameTempFiles, urls
  <2>3. UserFilesStay' BY <2>1 DEF UserFilesStay, Files
  <2>4. pc' = "local" BY <1>3 DEF NameTempFiles
  <2> QED BY <2>1, <2>2, <2>3, <2>4, SameCall DEF Files, Loaded
<1>4. CASE DownloadLocal
  <2>1. Named /\ Named' /\ ~Loaded' /\ UNCHANGED <<call, temp, on_exit>>
    BY <1>4 DEF DownloadLocal, Named, Loaded
  <2> QED BY <1>4, <2>1, LocalFetched, FetchedFiles
<1>5. CASE DownloadTogether
  <2>1. Named /\ Named' /\ ~Loaded' /\ UNCHANGED <<call, temp, on_exit>>
    BY <1>5 DEF DownloadTogether, Named, Loaded
  <2> QED BY <1>5, <2>1, TogetherFetched, FetchedFiles
<1>6. CASE DownloadNext \/ DownloadNextWarns
  <2>1. Named /\ Named' /\ ~Loaded' /\ UNCHANGED <<call, temp, on_exit>>
    BY <1>6 DEF DownloadNext, DownloadNextWarns, Named, Loaded
  <2> QED BY <1>6, <2>1, NextFetched, FailedFetched, FetchedFiles
<1>7. CASE Downloaded BY <1>7, FilesAside DEF Downloaded, Named, Loaded
<1>8. CASE DownloadFails BY <1>8, FilesAside DEF DownloadFails, Abort, Named, Loaded
<1>9. CASE Register
  <2>1. UNCHANGED <<call, temp, disk>> /\ Named /\ Named' /\ pc' = "load"
    BY <1>9 DEF Register, Named
  <2>2. on_exit' = IF call.keep_temp_files THEN {} ELSE {temp[i] : i \in urls}
    BY <1>9 DEF Register, input, urls
  <2>3. UserFilesStay' BY <2>1 DEF UserFilesStay, Files
  <2> QED BY <2>1, <2>2, <2>3, SameCall DEF Files
<1>10. CASE LoadNext
  <2>1. UNCHANGED <<call, temp, disk, on_exit>> /\ pc = "load" BY <1>10 DEF LoadNext
  <2>2. pc' \in {"load", "error"}
    BY <1>10 DEF LoadNext, Give, Stop, Parse, Decompress
  <2> QED BY <2>1, <2>2, FilesAside DEF Named, Loaded
<1>11. CASE LoadFails BY <1>11, FilesAside DEF LoadFails, Stop, Named, Loaded
<1>12. CASE LoadEnds BY <1>12, FilesAside DEF LoadEnds, Named, Loaded
<1>13. CASE OnExit
  <2>1. Named /\ Named' /\ ~Loaded' /\ pc' \notin {"options", "prepare"}
        /\ UNCHANGED <<call, temp, on_exit>>
    BY <1>13 DEF OnExit, Named, Loaded
  <2>2. \A p \in UserFiles : p \notin on_exit BY <2>1, TempNames DEF Files
  <2>3. DOMAIN disk' = DOMAIN disk \ on_exit /\ \A p \in DOMAIN disk' : disk'[p] = disk[p]
    BY <1>13 DEF OnExit
  <2>4. UserFilesStay' BY <2>2, <2>3, UserFilesSame DEF Files
  <2> QED BY <2>1, <2>3, <2>4, SameCall DEF Files
<1>14. CASE Ended \/ UNCHANGED vars
  BY <1>14, FilesAside DEF Ended, vars, Named, Loaded
<1> QED
  BY <1>1, <1>2, <1>3, <1>4, <1>5, <1>6, <1>7, <1>8, <1>9, <1>10, <1>11, <1>12,
     <1>13, <1>14 DEF Next

-----------------------------------------------------------------------------
(* How far the downloads have come *)

LEMMA SameDisk ==
    ASSUME UNCHANGED <<call, temp, disk>>
    PROVE  \A i : /\ There(i)' <=> There(i)
                  /\ Sent(i)' <=> Sent(i)
                  /\ NotDownloaded(i)' <=> NotDownloaded(i)
                  /\ missing_file(i)' <=> missing_file(i)
                  /\ \A a : OwnAnswer(i, a)' <=> OwnAnswer(i, a)
<1>1. inputs' = inputs /\ locals' = locals /\ remotes' = remotes BY SameCall
<1>2. ASSUME NEW i
      PROVE  /\ doc(i)' = doc(i) /\ input(i)' = input(i) /\ Received(i)' = Received(i)
             /\ There(i)' <=> There(i)
             /\ NotDownloaded(i)' <=> NotDownloaded(i)
             /\ missing_file(i)' <=> missing_file(i)
             /\ Misnamed(i)' <=> Misnamed(i)
  BY <1>1, SameCall, SMT DEF doc, input, There, NotDownloaded, missing_file, Misnamed,
         is_from_url, is_local_file_url, is_remote_file_url
<1>3. ASSUME NEW i PROVE Sent(i)' <=> Sent(i)
  BY <1>2, Zenon DEF Sent
<1>4. ASSUME NEW i, NEW a PROVE OwnAnswer(i, a)' <=> OwnAnswer(i, a)
  BY <1>2, Zenon DEF OwnAnswer
<1> QED BY <1>2, <1>3, <1>4

LEMMA MoreThanOne ==
    ASSUME NEW S, IsFiniteSet(S), NEW i \in S, NEW j \in S, i # j
    PROVE  Cardinality(S) > 1
<1>1. IsFiniteSet({i}) /\ Cardinality({i}) = 1 BY FS_Singleton
<1>2. {i} \in SUBSET S /\ {i} # S OBVIOUS
<1>3. Cardinality({i}) <= Cardinality(S) /\ Cardinality(S) # Cardinality({i})
  BY <1>2, FS_Subset
<1>4. Cardinality(S) \in Nat BY FS_CardinalityType
<1> QED BY <1>1, <1>3, <1>4

(* A file that was there before downloads is there after them. *)
LEMMA NothingGoesMissing ==
    ASSUME UNCHANGED call, DOMAIN disk \subseteq DOMAIN disk',
           \A i \in inputs : ~missing_file(i)
    PROVE  \A i \in inputs : ~missing_file(i)'
BY SameCall DEF missing_file

LEMMA DownloadsAside ==
    ASSUME Downloads, UNCHANGED <<call, temp, disk>>, k' \in Nat \ {0},
           pc' \in {"options", "prepare", "local"} => pc \in {"options", "prepare"} /\ k' = k,
           pc' \in {"local", "remote", "register", "load"} => \A i \in inputs : ~missing_file(i),
           Named' => Named, pc' # "remote",
           pc' \in {"register", "load", "return", "error"} =>
             \A i \in urls : There(i) \/ NotDownloaded(i)
    PROVE  Downloads'
BY SameCall, SameDisk DEF Downloads

LEMMA DownloadsKept == IInv /\ [Next]_vars => Downloads'
<1> SUFFICES ASSUME IInv, [Next]_vars PROVE Downloads' OBVIOUS
<1> USE DEF IInv
<1>k. k \in Nat \ {0} BY DEF Downloads
<1>i. /\ urls = locals \cup remotes /\ locals \cap remotes = {}
      /\ inputs \subseteq Nat /\ urls \subseteq inputs
  BY InputsType DEF Files
<1>1. CASE PrepOptions
  BY <1>1, <1>k, DownloadsAside DEF PrepOptions, Named
<1>2. CASE FilesMissing
  BY <1>2, <1>k, DownloadsAside DEF FilesMissing, Abort, Named
<1>3. CASE NameTempFiles
  <2>1. /\ UNCHANGED <<call, k, disk>> /\ pc' = "local" /\ k = 1
        /\ \A i \in inputs : ~missing_file(i)
    BY <1>3 DEF NameTempFiles, Downloads
  <2>2. \A i \in inputs : ~missing_file(i)' BY <2>1, NothingGoesMissing
  <2>3. ASSUME NEW i \in urls PROVE ~There(i)'
    <3> DEFINE e == fileext(i)
    <3>1. temp'[i] = [temp |-> i, ext |-> e] BY <1>3 DEF NameTempFiles, urls
    <3> HIDE DEF e
    <3>2. temp'[i] \notin UserFiles BY <3>1, NamesDiffer
    <3>3. DOMAIN disk \subseteq UserFiles BY <1>3 DEF NameTempFiles, Files
    <3> QED BY <2>1, <3>2, <3>3 DEF There
  <2> QED BY <2>1, <2>2, <2>3, SameCall DEF Downloads
<1>4. CASE DownloadLocal
  <2>1. /\ UNCHANGED <<call, temp, k>> /\ pc' = "remote" /\ k = 1 /\ Named
        /\ \A i \in inputs : ~missing_file(i)
    BY <1>4 DEF DownloadLocal, Downloads, Named
  <2>2. PICK some \in SUBSET locals :
           /\ Fetched(some)
           /\ \A i \in locals : i \in some \/ \E j \in locals : j < i
    BY <1>4, LocalFetched
  <2>3. \A i \in inputs : ~missing_file(i)'
    BY <2>1, <2>2, NothingGoesMissing DEF Fetched
  <2>4. /\ \A i \in urls : There(i)' => Sent(i)'
        /\ \A i \in urls : There(i) \/ i \in some => There(i)'
    BY <2>1, <2>2, FetchedSent
  <2>5. \A i \in locals : There(i)' \/ \E j \in locals : j < i BY <1>i, <2>2, <2>4
  <2>6. \A i \in remotes : ~(i < k') BY <1>i, <2>1, InputsType DEF Files
  <2> QED BY <2>1, <2>3, <2>4, <2>5, <2>6, SameCall DEF Downloads
<1>5. CASE DownloadTogether
  <2>1. /\ UNCHANGED <<call, temp, k>> /\ pc' = "register" /\ Named
        /\ call.method = "libcurl"
        /\ \A i \in inputs : ~missing_file(i)
        /\ \A i \in locals : There(i) \/ \E j \in locals : j < i
    BY <1>5 DEF DownloadTogether, Downloads, Named
  <2>2. PICK some \in SUBSET remotes : some # {} /\ Fetched(some)
    BY <1>5, TogetherFetched
  <2>3. \A i \in inputs : ~missing_file(i)'
    BY <2>1, <2>2, NothingGoesMissing DEF Fetched
  <2>4. /\ \A i \in urls : There(i)' => Sent(i)'
        /\ \A i \in urls : There(i) \/ i \in some => There(i)'
    BY <2>1, <2>2, FetchedSent
  <2>5. ASSUME NEW i \in urls, ~There(i)' PROVE NotDownloaded(i)'
    <3>1. input(i)' \notin DOMAIN disk' 
      BY <2>1, <2>5, SameCall DEF There, input, urls
    <3>2. CASE i \in locals
      <4>1. \E j \in locals : j < i BY <2>1, <2>4, <2>5, <3>2
      <4> QED BY <2>1, <3>1, <3>2, <4>1, SameCall
              DEF NotDownloaded, locals, is_local_file_url
    <3>3. CASE i \in remotes
      <4>1. PICK j \in some : TRUE BY <2>2
      <4>2. i # j /\ j \in remotes BY <2>2, <2>4, <2>5, <4>1
      <4>3. IsFiniteSet(remotes)
        <5>1. IsFiniteSet(1 .. Len(call.input)) BY InputsType, FS_Interval DEF Files
        <5>2. remotes \subseteq 1 .. Len(call.input) BY InputsType DEF Files
        <5> QED BY <5>1, <5>2, FS_Subset
      <4>4. Cardinality(remotes) > 1 BY <3>3, <4>2, <4>3, MoreThanOne
      <4> QED BY <2>1, <3>1, <3>3, <4>4, SameCall
              DEF NotDownloaded, remotes, is_remote_file_url
    <3> QED BY <1>i, <3>2, <3>3
  <2> QED BY <1>k, <2>1, <2>3, <2>4, <2>5, SameCall DEF Downloads
<1>6. CASE DownloadNext \/ DownloadNextWarns
  <2>1. /\ UNCHANGED <<call, temp, pc>> /\ pc = "remote" /\ k' = k + 1 /\ Named
        /\ \A i \in inputs : ~missing_file(i)
        /\ \A i \in locals : There(i) \/ \E j \in locals : j < i
        /\ call.method # "libcurl" /\ call.method # "wget" =>
             \A i \in remotes : i < k => There(i)
    BY <1>6 DEF DownloadNext, DownloadNextWarns, Downloads, Named
  <2>2. PICK some : /\ Fetched(some)
                    /\ call.method # "wget" => some = {k} \cap remotes
    BY <1>6, NextFetched, FailedFetched DEF DownloadNextWarns
  <2>3. \A i \in inputs : ~missing_file(i)'
    BY <2>1, <2>2, NothingGoesMissing DEF Fetched
  <2>4. /\ \A i \in urls : There(i)' => Sent(i)'
        /\ \A i \in urls : There(i) \/ i \in some => There(i)'
    BY <2>1, <2>2, FetchedSent
  <2>5. ASSUME call.method # "libcurl", call.method # "wget", NEW i \in remotes, i < k'
        PROVE  There(i)'
    <3>i. i \in urls /\ i \in Nat BY <1>i, <2>5
    <3>1. i \in urls /\ (i < k \/ i = k) BY <1>k, <2>1, <2>5, <3>i
    <3>2. There(i) \/ i \in some BY <2>1, <2>2, <2>5, <3>1
    <3> QED BY <2>4, <3>1, <3>2
  <2>6. \A i \in locals : There(i)' \/ \E j \in locals : j < i BY <1>i, <2>1, <2>4
  <2> QED BY <1>k, <2>1, <2>3, <2>4, <2>5, <2>6, SameCall DEF Downloads
<1>7. CASE Downloaded
  <2>1. /\ UNCHANGED <<call, k, temp, disk>> /\ pc' = "register" /\ Named
        /\ IF call.method = "libcurl" THEN remotes = {} ELSE k \notin inputs
        /\ \A i \in inputs : ~missing_file(i)
        /\ \A i \in locals : There(i) \/ \E j \in locals : j < i
        /\ call.method # "libcurl" /\ call.method # "wget" =>
             \A i \in remotes : i < k => There(i)
    BY <1>7 DEF Downloaded, Downloads, Named
  <2>2. ASSUME NEW i \in urls, ~There(i) PROVE NotDownloaded(i)
    <3>1. i \in locals \/ (i \in remotes /\ call.method = "wget")
      <4>1. inputs = 1 .. Len(call.input) /\ Len(call.input) \in Nat
        BY InputsType DEF Files
      <4> QED BY <1>i, <1>k, <2>1, <2>2, <4>1
    <3>2. input(i) \notin DOMAIN disk BY <2>2 DEF There, input, urls
    <3> QED BY <2>1, <2>2, <3>1, <3>2 DEF NotDownloaded, locals, remotes
  <2> QED BY <1>k, <2>1, <2>2, DownloadsAside DEF Named
<1>8. CASE DownloadFails
  BY <1>8, <1>k, DownloadsAside DEF DownloadFails, Abort, Named
<1>9. CASE Register
  BY <1>9, DownloadsAside DEF Register, Named, Downloads
<1>10. CASE LoadNext
  <2>1. UNCHANGED <<call, temp, disk>> /\ pc = "load" BY <1>10 DEF LoadNext
  <2>2. pc' \in {"load", "error"} /\ k' \in {k, k + 1}
    BY <1>10 DEF LoadNext, Give, Stop, Parse, Decompress
  <2>3. k' \in Nat \ {0} BY <1>k, <2>2
  <2> QED BY <2>1, <2>2, <2>3, DownloadsAside DEF Named, Downloads
<1>11. CASE LoadFails
  BY <1>11, <1>k, DownloadsAside DEF LoadFails, Stop, Named, Downloads
<1>12. CASE LoadEnds
  BY <1>12, <1>k, DownloadsAside DEF LoadEnds, Named, Downloads
<1>13. CASE OnExit
  <2>1. /\ UNCHANGED <<call, temp, k>> /\ Named
        /\ pc' \in {"returned", "stopped"}
    BY <1>13 DEF OnExit, Named
  <2>2. DOMAIN disk' \subseteq DOMAIN disk /\ \A p \in DOMAIN disk' : disk'[p] = disk[p]
    BY <1>13 DEF OnExit
  <2>3. ASSUME NEW i \in urls, There(i)' PROVE Sent(i)'
    <3>1. There(i) /\ disk'[temp[i]] = disk[temp[i]] BY <2>1, <2>2, <2>3 DEF There
    <3>2. disk[temp[i]] \in Received(i) BY <2>1, <3>1 DEF Downloads, Sent
    <3> QED BY <2>1, <3>1, <3>2, SameCall DEF Sent
  <2> QED BY <1>k, <2>1, <2>3, SameCall DEF Downloads
<1>14. CASE Ended
  BY <1>14, <1>k, DownloadsAside DEF Ended, vars, Named, Downloads
<1>15. CASE UNCHANGED vars
  <2>1. UNCHANGED <<call, temp, disk, pc, k>> BY <1>15 DEF vars
  <2> QED BY <2>1, SameCall, SameDisk DEF Downloads, Named
<1> QED
  BY <1>1, <1>2, <1>3, <1>4, <1>5, <1>6, <1>7, <1>8, <1>9, <1>10, <1>11, <1>12,
     <1>13, <1>14, <1>15 DEF Next

-----------------------------------------------------------------------------
(* The answers *)

LEMMA Parsed ==
    ASSUME NEW d, NEW n, Parse(d, n), pc = "load", pc' = "load"
    PROVE  /\ k' = k + 1
           /\ \/ d \in Json /\ n = 0 /\ out' = Append(out, Value(d))
              \/ /\ ~(d \in Json /\ n = 0) /\ call.parse_error_ok
                 /\ out' = Append(out, OnParseError)
BY DEF Parse, Give, Stop

(* The temporary file of a URL has what the URL names, if its download has *)
(* not failed.                                                             *)
Failed(i) == Fails(i) /\ disk[temp[i]] \in Scraps

LEMMA FileOfURL ==
    ASSUME IInv, pc = "load", NEW i \in urls, There(i), ~Failed(i)
    PROVE  /\ disk[temp[i]].doc = doc(i) /\ disk[temp[i]].gzips \in Nat
           /\ \/ disk[temp[i]].gzips = gzips[doc(i)]
              \/ /\ disk[temp[i]].gzips = gzips[doc(i)] + 1
                 /\ call.compressed_download /\ is_remote_file_url(i)
           /\ ~Misnamed(i) =>
                \/ temp[i].ext = ext[doc(i)]
                \/ last(temp[i].ext) = "gz" /\ is_remote_file_url(i)
<1>1. Sent(i) /\ temp[i] = [temp |-> i, ext |-> fileext(i)] /\ doc(i) \in Doc /\ is_from_url(i)
  BY InputsType DEF IInv, Files, Downloads, Named, urls
<1>2. gzips[doc(i)] \in Nat /\ ext[doc(i)] \in Seq(Extension) BY <1>1, DocumentsAssumption
<1>3. PICK zipped \in Zips(i) : disk[temp[i]] = Served(i, zipped)
  BY <1>1 DEF Sent, Received, Failed
<1>4. \/ zipped = 0
      \/ zipped = 1 /\ call.compressed_download /\ is_remote_file_url(i)
  BY <1>3 DEF Zips, Zipped
<1>5. ASSUME ~Misnamed(i)
      PROVE  \/ temp[i].ext = ext[doc(i)]
             \/ last(temp[i].ext) = "gz" /\ is_remote_file_url(i)
  <2>1. CASE ~call.compressed_download BY <1>1, <1>5, <2>1 DEF Misnamed
  <2>2. CASE call.compressed_download
    <3>1. fileext(i) = IF is_remote_file_url(i) THEN Append(ext[doc(i)], "gz") ELSE ext[doc(i)]
      BY <2>2 DEF fileext
    <3>2. last(Append(ext[doc(i)], "gz")) = "gz" BY <1>2 DEF last
    <3>3. temp[i].ext = fileext(i) BY <1>1
    <3> QED BY <3>1, <3>2, <3>3
  <2> QED BY <2>1, <2>2
<1>6. disk[temp[i]].doc = doc(i) /\ disk[temp[i]].gzips = gzips[doc(i)] + zipped
  BY <1>3 DEF Served
<1> QED BY <1>2, <1>4, <1>5, <1>6

LEMMA AnswersIn ==
    /\ NA \in Answer /\ OnParseError \in Answer
    /\ \A d \in Json : Value(d) \in Answer
BY DocumentsAssumption DEF Answer

(* Each answer is that to the input it is given for. *)
LEMMA AnswerGiven ==
    ASSUME IInv, LoadNext, pc' = "load"
    PROVE  k' = k + 1 /\ \E a \in Answer : out' = Append(out, a) /\ OwnAnswer(k, a)
<1>1. pc = "load" /\ k \in inputs /\ doc(k) \in Doc \cup {NA_STRING}
  BY InputsType DEF LoadNext, IInv, Files
<1>2. CASE doc(k) = NA_STRING
  BY <1>1, <1>2, AnswersIn DEF LoadNext, Give, OwnAnswer
<1>3. CASE doc(k) # NA_STRING /\ input(k) \notin DOMAIN disk
  <2>1. Parse(NA_STRING, 0) BY <1>1, <1>3 DEF LoadNext, Stop
  <2>2. NA_STRING \notin Json BY DocumentsAssumption
  <2>3. k' = k + 1 /\ call.parse_error_ok /\ out' = Append(out, OnParseError)
    BY <1>1, <2>1, <2>2, Parsed
  <2>4. NotDownloaded(k)
    <3>1. ~missing_file(k) BY <1>1 DEF IInv, Downloads
    <3>2. is_from_url(k) BY <1>3, <3>1 DEF missing_file, input
    <3>3. k \in urls /\ ~There(k) BY <1>1, <1>3, <3>2 DEF urls, There, input
    <3> QED BY <1>1, <3>3 DEF IInv, Downloads
  <2> QED BY <1>3, <2>3, <2>4, AnswersIn DEF OwnAnswer
<1>4. CASE /\ doc(k) # NA_STRING /\ input(k) \in DOMAIN disk
           /\ ~(is_from_url(k) /\ Failed(k))
  <2> DEFINE file == disk[input(k)]
  <2>d. doc(k) \in Doc /\ gzips[doc(k)] \in Nat BY <1>1, <1>4, DocumentsAssumption
  <2>j. ASSUME doc(k) \in Json
        PROVE  /\ doc(k) \notin Empty
               /\ gzips[doc(k)] # 0 => gzips[doc(k)] = 1 /\ last(ext[doc(k)]) = "gz"
    BY <2>j, DocumentsAssumption
  <2>1. /\ file.doc = doc(k) /\ file.gzips \in Nat
        /\ doc(k) \in Json /\ ~Misnamed(k) /\ ~is_compressed(k) => file.gzips = 0
    <3>1. CASE is_from_url(k)
      <4>1. input(k) = temp[k] /\ k \in urls /\ There(k) /\ ~Failed(k)
        BY <1>1, <1>4, <3>1 DEF input, urls, There
      <4>2. is_compressed(k) <=> last(temp[k].ext) = "gz" BY <3>1 DEF is_compressed
      <4>3. /\ file.doc = doc(k) /\ file.gzips \in Nat
            /\ \/ file.gzips = gzips[doc(k)]
               \/ /\ file.gzips = gzips[doc(k)] + 1
                  /\ call.compressed_download /\ is_remote_file_url(k)
            /\ ~Misnamed(k) =>
                 \/ temp[k].ext = ext[doc(k)]
                 \/ last(temp[k].ext) = "gz" /\ is_remote_file_url(k)
        BY <1>1, <4>1, FileOfURL
      <4>4. ASSUME doc(k) \in Json, ~Misnamed(k), ~is_compressed(k) PROVE file.gzips = 0
        <5>1. temp[k].ext = ext[doc(k)] BY <4>2, <4>3, <4>4
        <5>2. gzips[doc(k)] = 0 BY <2>j, <4>2, <4>4, <5>1
        <5>3. ~(call.compressed_download /\ is_remote_file_url(k))
          <6> SUFFICES ASSUME call.compressed_download, is_remote_file_url(k) PROVE FALSE
            OBVIOUS
          <6>1. fileext(k) = Append(ext[doc(k)], "gz") BY DEF fileext
          <6>2. ext[doc(k)] \in Seq(Extension) BY <2>d, DocumentsAssumption
          <6>3. temp[k] = [temp |-> k, ext |-> fileext(k)]
            BY <1>1, <4>1 DEF IInv, Files, Named
          <6>4. temp[k].ext = fileext(k) BY <6>3
          <6>5. last(Append(ext[doc(k)], "gz")) = "gz" BY <6>2 DEF last
          <6> QED BY <4>2, <4>4, <6>1, <6>4, <6>5
        <5> QED BY <4>3, <5>2, <5>3
      <4> HIDE DEF file
      <4> QED BY <4>3, <4>4
    <3>2. CASE ~is_from_url(k)
      <4>1. input(k) = UserFile(doc(k)) BY <3>2 DEF input
      <4>2. is_compressed(k) <=> last(ext[doc(k)]) = "gz" BY <3>2 DEF is_compressed
      <4>3. doc(k) \in Doc \ Absent
        <5>1. \A i \in urls : UserFile(doc(k)) # temp[i]
          <6> SUFFICES ASSUME NEW i \in urls PROVE UserFile(doc(k)) # temp[i] OBVIOUS
          <6> DEFINE e == fileext(i)
          <6>1. temp[i] = [temp |-> i, ext |-> e] BY <1>1 DEF IInv, Files, Named
          <6> HIDE DEF e
          <6> QED BY <6>1, NamesDiffer
        <5>2. UserFile(doc(k)) \in UserFiles BY <1>4, <4>1, <5>1 DEF IInv, Files
        <5> QED BY <5>2 DEF UserFiles, UserFile
      <4>4. file = [doc |-> doc(k), gzips |-> gzips[doc(k)]]
        BY <4>1, <4>3 DEF IInv, Files, UserFilesStay
      <4>5. file.doc = doc(k) /\ file.gzips = gzips[doc(k)] BY <4>4
      <4> HIDE DEF file
      <4> QED BY <2>d, <2>j, <4>2, <4>5
    <3> QED BY <3>1, <3>2
  <2>2. \/ /\ is_compressed(k) /\ Parse(doc(k), file.gzips - 1)
           /\ file.gzips > 0 \/ doc(k) \in Empty
        \/ ~is_compressed(k) /\ Parse(doc(k), file.gzips)
    BY <1>1, <1>4, <2>1 DEF LoadNext, Decompress, Stop
  <2> HIDE DEF file
  <2>3. CASE /\ is_compressed(k) /\ Parse(doc(k), file.gzips - 1)
             /\ file.gzips > 0 \/ doc(k) \in Empty
    <3>1. /\ k' = k + 1
          /\ \/ doc(k) \in Json /\ out' = Append(out, Value(doc(k)))
             \/ /\ ~(doc(k) \in Json /\ file.gzips - 1 = 0) /\ call.parse_error_ok
                /\ out' = Append(out, OnParseError)
      BY <1>1, <2>3, Parsed
    <3>2. ~(doc(k) \in Json /\ file.gzips - 1 = 0) =>
            doc(k) \notin Json \/ disk[input(k)].gzips > 1
      BY <2>1, <2>3, <2>j DEF file
    <3> QED BY <1>4, <3>1, <3>2, AnswersIn DEF OwnAnswer
  <2>4. CASE ~is_compressed(k) /\ Parse(doc(k), file.gzips)
    <3>1. /\ k' = k + 1
          /\ \/ doc(k) \in Json /\ out' = Append(out, Value(doc(k)))
             \/ /\ ~(doc(k) \in Json /\ file.gzips = 0) /\ call.parse_error_ok
                /\ out' = Append(out, OnParseError)
      BY <1>1, <2>4, Parsed
    <3>2. ~(doc(k) \in Json /\ file.gzips = 0) => doc(k) \notin Json \/ Misnamed(k)
      BY <2>1, <2>4
    <3> QED BY <1>4, <3>1, <3>2, AnswersIn DEF OwnAnswer
  <2> QED BY <2>2, <2>3, <2>4
<1>5. CASE /\ doc(k) # NA_STRING /\ input(k) \in DOMAIN disk
           /\ is_from_url(k) /\ Failed(k)
  <2>1. input(k) = temp[k] BY <1>5 DEF input
  <2>2. /\ disk[input(k)].doc \notin Json /\ Fails(k)
    BY <1>5, <2>1 DEF Failed, Scraps
  <2>3. \E n : Parse(disk[input(k)].doc, n)
    BY <1>1, <1>5 DEF LoadNext, Decompress, Stop
  <2>4. k' = k + 1 /\ call.parse_error_ok /\ out' = Append(out, OnParseError)
    BY <1>1, <2>2, <2>3, Parsed
  <2>5. doc(k) \notin Json \/ NotDownloaded(k)
    BY <2>2 DEF NotDownloaded, Fails
  <2> QED BY <1>5, <2>4, <2>5, AnswersIn DEF OwnAnswer
<1> QED BY <1>2, <1>3, <1>4, <1>5

LEMMA AnswersKept == IInv /\ [Next]_vars => GivenAnswers'
<1> SUFFICES ASSUME IInv, [Next]_vars PROVE GivenAnswers' OBVIOUS
<1>t. /\ out \in Seq(Answer) /\ k \in Nat \ {0}
      /\ inputs = 1 .. Len(call.input) /\ Len(call.input) \in Nat
  BY InputsType DEF IInv, Files, Downloads, GivenAnswers
<1>1. CASE LoadNext
  <2>1. pc = "load" /\ k \in inputs /\ UNCHANGED <<call, temp, disk>> BY <1>1 DEF LoadNext
  <2>2. CASE pc' = "load"
    <3>1. PICK a \in Answer : k' = k + 1 /\ out' = Append(out, a) /\ OwnAnswer(k, a)
      BY <1>1, <2>2, AnswerGiven
    <3>2. Len(out) = k - 1 /\ \A i \in 1 .. k - 1 : OwnAnswer(i, out[i])
      BY <2>1 DEF IInv, GivenAnswers
    <3>3. /\ out' \in Seq(Answer) /\ Len(out') = k /\ out'[k] = a
          /\ \A i \in 1 .. k - 1 : out'[i] = out[i]
      BY <1>t, <3>1, <3>2
    <3>4. \A i \in 1 .. k : OwnAnswer(i, out'[i])
      <4> SUFFICES ASSUME NEW i \in 1 .. k PROVE OwnAnswer(i, out'[i]) OBVIOUS
      <4>1. i \in 1 .. k - 1 \/ i = k BY <1>t
      <4> QED BY <3>1, <3>2, <3>3, <4>1
    <3>5. \A i \in 1 .. k : OwnAnswer(i, out[i])' BY <2>1, <3>4, SameDisk
    <3>6. k' - 1 = k /\ k' <= Len(call'.input) + 1 BY <1>t, <2>1, <3>1
    <3> QED BY <2>2, <3>3, <3>5, <3>6 DEF GivenAnswers
  <2>3. CASE pc' # "load"
    <3>1. pc' = "error" /\ out' = out
      BY <1>1, <2>1, <2>3 DEF LoadNext, Give, Stop, Parse, Decompress
    <3> QED BY <3>1 DEF IInv, GivenAnswers
  <2> QED BY <2>2, <2>3
<1>2. CASE Register
  <2>1. pc' = "load" /\ k' = 1 /\ UNCHANGED <<call, out>> /\ out = <<>>
    BY <1>2 DEF Register, IInv, GivenAnswers
  <2> QED BY <1>t, <2>1 DEF GivenAnswers
<1>3. CASE LoadEnds
  <2>1. pc = "load" /\ pc' = "return" /\ k \notin inputs /\ UNCHANGED <<call, k, temp, disk, out>>
    BY <1>3 DEF LoadEnds
  <2>2. k = Len(call.input) + 1 BY <1>t, <2>1 DEF IInv, GivenAnswers
  <2>3. \A i \in 1 .. k - 1 : OwnAnswer(i, out[i])' BY <2>1, SameDisk DEF IInv, GivenAnswers
  <2> QED BY <2>1, <2>2, <2>3 DEF IInv, GivenAnswers
<1>4. ASSUME UNCHANGED out,
             \/ /\ pc' \in {"prepare", "local", "remote", "register"}
                /\ pc \in {"options", "prepare", "local", "remote", "register"}
             \/ pc' \in {"refused", "aborted", "error", "returned", "stopped"}
      PROVE  GivenAnswers'
  BY <1>4 DEF IInv, GivenAnswers
<1>5. CASE PrepOptions \/ FilesMissing \/ NameTempFiles
  BY <1>4, <1>5 DEF PrepOptions, FilesMissing, NameTempFiles, Abort
<1>6. CASE DownloadLocal \/ DownloadTogether \/ DownloadNext
           \/ DownloadNextWarns \/ Downloaded \/ DownloadFails
  BY <1>4, <1>6 DEF DownloadLocal, DownloadTogether, DownloadNext,
                    DownloadNextWarns, Downloaded, DownloadFails, Abort
<1>7. CASE LoadFails \/ OnExit
  BY <1>4, <1>7 DEF LoadFails, Stop, OnExit
<1>8. CASE Ended \/ UNCHANGED vars
  <2>1. UNCHANGED <<call, temp, disk, pc, k, out>> BY <1>8 DEF Ended, vars
  <2>2. \A i \in 1 .. k - 1 : OwnAnswer(i, out[i])' <=> OwnAnswer(i, out[i])
    BY <2>1, SameDisk
  <2> QED BY <2>1, <2>2 DEF IInv, GivenAnswers
<1> QED BY <1>1, <1>2, <1>3, <1>5, <1>6, <1>7, <1>8 DEF Next

-----------------------------------------------------------------------------
(* Theorems *)

LEMMA InitIInv == Init => IInv
<1> SUFFICES ASSUME Init PROVE IInv OBVIOUS
<1>1. call \in Calls /\ pc = "options" /\ k = 1 /\ on_exit = {} /\ out = <<>>
  BY DEF Init
<1>2. DOMAIN disk = UserFiles BY DEF Init, UserFiles
<1>3. UserFilesStay
  <2> SUFFICES ASSUME NEW d \in Doc \ Absent
               PROVE  /\ UserFile(d) \in DOMAIN disk
                      /\ disk[UserFile(d)] = [doc |-> d, gzips |-> gzips[d]]
    BY DEF UserFilesStay
  <2>1. UserFile(d) \in UserFiles /\ UserFile(d).user = d BY DEF UserFiles, UserFile
  <2>2. disk[UserFile(d)] = [doc |-> UserFile(d).user, gzips |-> gzips[UserFile(d).user]]
    BY <2>1 DEF Init, UserFiles
  <2> QED BY <1>2, <2>1, <2>2
<1>4. Files BY <1>1, <1>2, <1>3 DEF Files, Named, Loaded
<1>5. Downloads BY <1>1 DEF Downloads, Named
<1>6. GivenAnswers BY <1>1 DEF GivenAnswers
<1> QED BY <1>4, <1>5, <1>6 DEF IInv

LEMMA IInvInductive == IInv /\ [Next]_vars => IInv'
BY FilesKept, DownloadsKept, AnswersKept DEF IInv

LEMMA Invariant == Spec => []IInv
BY InitIInv, IInvInductive, PTL DEF Spec

(* The files the user names are neither written nor removed, however a     *)
(* call of fload() ends.                                                   *)
THEOREM UserFilesAreSafe == Spec => []UserFilesStay
<1>1. IInv => UserFilesStay BY DEF IInv, Files
<1> QED BY <1>1, Invariant, PTL

(* Each answer of a call that returns is that to the file its input names, *)
(* but for the cases OwnAnswer states.                                     *)
THEOREM EachItsOwnAnswer == Spec => []AnswersAreTheirOwn
<1>1. IInv => AnswersAreTheirOwn
  <2> SUFFICES ASSUME IInv, pc = "return"
               PROVE  Len(out) = Len(call.input) /\ \A i \in inputs : OwnAnswer(i, out[i])
    BY DEF AnswersAreTheirOwn
  <2>1. inputs = 1 .. Len(call.input) /\ Len(call.input) \in Nat
    BY InputsType DEF IInv, Files
  <2>2. k = Len(call.input) + 1 /\ Len(out) = k - 1 /\ \A i \in 1 .. k - 1 : OwnAnswer(i, out[i])
    BY DEF IInv, GivenAnswers
  <2>3. k - 1 = Len(call.input) BY <2>1, <2>2
  <2> QED BY <2>1, <2>2, <2>3
<1> QED BY <1>1, Invariant, PTL

(* What the exit handlers leave behind. *)
LEMMA AfterExit ==
    ASSUME IInv, TempFilesRemoved, TempFilesKept, [Next]_vars
    PROVE  TempFilesRemoved' /\ TempFilesKept'
<1>1. CASE OnExit
  <2>1. UNCHANGED <<call, temp>> /\ DOMAIN disk' = DOMAIN disk \ on_exit /\ Loaded /\ Named
    BY <1>1 DEF OnExit, Loaded, Named
  <2>2. on_exit = IF call.keep_temp_files THEN {} ELSE {temp[i] : i \in urls}
    BY <2>1 DEF IInv, Files
  <2>3. ASSUME ~call.keep_temp_files PROVE TempFiles' = {}
    <3>1. DOMAIN disk' \subseteq UserFiles BY <2>1, <2>2, <2>3 DEF IInv, Files
    <3> QED BY <3>1 DEF TempFiles, UserFiles
  <2>4. ASSUME call.keep_temp_files, NEW i \in urls
        PROVE  temp[i] \in TempFiles' \/ NotDownloaded(i)'
    <3>1. DOMAIN disk' = DOMAIN disk BY <2>1, <2>2, <2>4
    <3>2. CASE There(i)
      <4> DEFINE e == fileext(i)
      <4>1. temp[i] = [temp |-> i, ext |-> e] BY <2>1 DEF IInv, Files
      <4> HIDE DEF e
      <4>2. temp[i] \notin {UserFile(d) : d \in Doc} BY <4>1, NamesDiffer
      <4> QED BY <3>1, <3>2, <4>2 DEF There, TempFiles
    <3>3. CASE ~There(i)
      <4>1. NotDownloaded(i) BY <1>1, <3>3 DEF OnExit, IInv, Downloads
      <4>2. /\ input(i)' = input(i) /\ locals' = locals /\ remotes' = remotes
            /\ input(i) = temp[i]
        BY <2>1, SameCall DEF input, UserFile, urls
      <4>3. input(i)' \notin DOMAIN disk' BY <3>1, <3>3, <4>2 DEF There
      <4> QED BY <2>1, <4>1, <4>2, <4>3
              DEF NotDownloaded, is_local_file_url, is_remote_file_url
    <3> QED BY <3>2, <3>3
  <2> QED BY <2>1, <2>3, <2>4, SameCall DEF TempFilesRemoved, TempFilesKept
<1>2. CASE Ended \/ UNCHANGED vars
  <2>1. UNCHANGED <<call, temp, disk, pc>> BY <1>2 DEF Ended, vars
  <2> QED BY <2>1, SameCall, SameDisk DEF TempFilesRemoved, TempFilesKept, TempFiles
<1>3. ASSUME pc' \notin {"returned", "stopped"} PROVE TempFilesRemoved' /\ TempFilesKept'
  BY <1>3 DEF TempFilesRemoved, TempFilesKept
<1>4. CASE PrepOptions \/ FilesMissing \/ NameTempFiles
  BY <1>3, <1>4 DEF PrepOptions, FilesMissing, NameTempFiles, Abort
<1>5. CASE DownloadLocal \/ DownloadTogether \/ DownloadNext
           \/ DownloadNextWarns \/ Downloaded \/ DownloadFails
  BY <1>3, <1>5 DEF DownloadLocal, DownloadTogether, DownloadNext,
                    DownloadNextWarns, Downloaded, DownloadFails, Abort
<1>6. CASE Register \/ LoadNext \/ LoadFails \/ LoadEnds
  BY <1>3, <1>6 DEF Register, LoadNext, LoadFails, LoadEnds, Give, Stop, Parse, Decompress
<1> QED BY <1>1, <1>2, <1>4, <1>5, <1>6 DEF Next

(* When a call has come to load its files, its end leaves no temporary     *)
(* file on disk, unless the caller keeps them.                             *)
THEOREM NoTempFileIsLeft == Spec => []TempFilesRemoved
<1>1. Init => TempFilesRemoved /\ TempFilesKept
  BY DEF Init, TempFilesRemoved, TempFilesKept
<1> QED BY <1>1, AfterExit, Invariant, PTL DEF Spec

(* If the caller keeps temporary files, the end of the call leaves all     *)
(* that were downloaded.                                                   *)
THEOREM KeptTempFilesAreLeft == Spec => []TempFilesKept
<1>1. Init => TempFilesRemoved /\ TempFilesKept
  BY DEF Init, TempFilesRemoved, TempFilesKept
<1> QED BY <1>1, AfterExit, Invariant, PTL DEF Spec

-----------------------------------------------------------------------------
(* The options *)

LEMMA FiniteChoices ==
    /\ positions("max_simplify_lvl") = 1 .. 4
    /\ positions("type_policy") = 1 .. 3
    /\ positions("int64_policy") = 1 .. 4
BY DEF positions, choices

LEMMA MatchedAlike ==
    ASSUME NEW o \in Option, NEW strings \in Seq(Strings(o))
    PROVE  /\ match_choice(o, strings) = match_arg(o, strings)
           /\ match_arg(o, strings) \in positions(o) \cup {Refused}
           /\ match_arg(o, strings) # Refused =>
                LET n == match_arg(o, strings) IN
                \/ strings = AllChoices(o) /\ n = 1
                \/ Len(strings) = 1 /\ strings[1].of = choices[o][n]
<1>1. match_choice(o, strings) = match_arg(o, strings) BY DEF match_choice, match_arg
<1>2. 1 \in positions(o) BY FiniteChoices DEF Option
<1>3. CASE strings = AllChoices(o) BY <1>1, <1>2, <1>3 DEF match_arg
<1>4. CASE strings # AllChoices(o)
  <2> DEFINE S == pmatch(o, strings[1])
  <2>1. CASE Len(strings) = 1 /\ S # {}
    <3>1. match_arg(o, strings) = CHOOSE n \in S : TRUE BY <1>4, <2>1 DEF match_arg
    <3>2. match_arg(o, strings) \in S BY <2>1, <3>1
    <3> QED BY <1>1, <2>1, <3>2 DEF pmatch
  <2>2. CASE ~(Len(strings) = 1 /\ S # {})
    <3>1. match_arg(o, strings) = Refused BY <1>4, <2>2 DEF match_arg
    <3> QED BY <1>1, <3>1
  <2> QED BY <2>1, <2>2
<1> QED BY <1>3, <1>4

LEMMA SwitchCounts ==
    ASSUME NEW o \in Option, NEW n \in positions(o)
    PROVE  switch[o][choices[o][n]] = n - 1
<1>1. CASE o = "max_simplify_lvl"
  <2>1. n \in 1 .. 4 BY <1>1, FiniteChoices
  <2> QED BY <1>1, <2>1 DEF switch, choices
<1>2. CASE o = "type_policy"
  <2>1. n \in 1 .. 3 BY <1>2, FiniteChoices
  <2> QED BY <1>2, <2>1 DEF switch, choices
<1>3. CASE o = "int64_policy"
  <2>1. n \in 1 .. 4 BY <1>3, FiniteChoices
  <2> QED BY <1>3, <2>1 DEF switch, choices
<1> QED BY <1>1, <1>2, <1>3 DEF Option

(* Both ways of reading an argument take the same, and mean a choice by it. *)
LEMMA ReadAlike ==
    ASSUME NEW o \in Option, NEW arg \in Argument(o), NEW bit64
    PROVE  /\ fload_option(o, arg, bit64) = fparse_option(o, arg, bit64)
           /\ fload_option(o, arg, bit64) # Refused =>
                \E p \in positions(o) : /\ fload_option(o, arg, bit64) = p - 1
                                       /\ Meaning(o, arg) = Documented[choices[o][p]]
<1> DEFINE f == fload_option(o, arg, bit64)
           Agree(p) == /\ fparse_option(o, arg, bit64) = f
                       /\ f = p - 1 \/ f = Refused
                       /\ p \in positions(o) /\ Meaning(o, arg) = Documented[choices[o][p]]
<1>p. 1 \in positions(o) /\ \A p \in positions(o) : p \in Nat /\ p - 1 # Refused
  BY FiniteChoices DEF Option, Refused
<1>1. CASE arg = Missing
  <2>1. arg.form = "missing" BY <1>1 DEF Missing
  <2>2. match_arg(o, AllChoices(o)) = 1 BY DEF match_arg
  <2>3. switch[o][choices[o][1]] = 0 BY <1>p, SwitchCounts
  <2>4. 1 # Refused BY DEF Refused
  <2>5. f = IF needs_bit64(o, 0) /\ ~bit64 THEN Refused ELSE 0
    BY <1>1, <2>1, <2>2, <2>3, <2>4 DEF fload_option
  <2>6. fparse_option(o, arg, bit64) = IF needs_bit64(o, 0) /\ ~bit64 THEN Refused ELSE 0
    BY <2>1 DEF fparse_option
  <2>7. Meaning(o, arg) = Documented[choices[o][1]] BY <2>1 DEF Meaning
  <2>8. Agree(1) BY <1>p, <2>5, <2>6, <2>7
  <2> QED BY <2>8
<1>2. CASE arg = Other
  <2>1. arg.form = "other" /\ arg # Missing BY <1>2 DEF Other, Missing
  <2>2. f = Refused BY <2>1 DEF fload_option, needs_bit64, Refused
  <2>3. fparse_option(o, arg, bit64) = Refused BY <2>1 DEF fparse_option, needs_bit64, Refused
  <2> QED BY <2>2, <2>3
<1>3. ASSUME NEW strings \in Seq(Strings(o)), arg.form = "character", arg.strings = strings
      PROVE  /\ f = fparse_option(o, arg, bit64)
             /\ f # Refused => \E p \in positions(o) :
                    f = p - 1 /\ Meaning(o, arg) = Documented[choices[o][p]]
  <2> DEFINE chosen == match_arg(o, strings)
             n == IF chosen = Refused THEN Refused ELSE chosen - 1
  <2>1. /\ match_choice(o, strings) = chosen
        /\ chosen \in positions(o) \cup {Refused}
        /\ chosen # Refused => \/ strings = AllChoices(o) /\ chosen = 1
                               \/ Len(strings) = 1 /\ strings[1].of = choices[o][chosen]
    BY MatchedAlike
  <2>2. arg # Missing BY <1>3 DEF Missing
  <2>3. chosen # Refused => switch[o][choices[o][chosen]] = chosen - 1
    BY <2>1, SwitchCounts
  <2>4. strings = AllChoices(o) => Len(strings) # 1
    <3>1. 2 \in positions(o) /\ DOMAIN AllChoices(o) = positions(o)
      BY FiniteChoices DEF Option, AllChoices
    <3>2. DOMAIN strings = 1 .. Len(strings) BY <1>3
    <3> QED BY <3>1, <3>2
  <2>5. chosen # Refused => Meaning(o, arg) = Documented[choices[o][chosen]]
    BY <1>3, <2>1, <2>4 DEF Meaning
  <2> HIDE DEF chosen
  <2>6. f = IF needs_bit64(o, n) /\ ~bit64 THEN Refused ELSE n
    BY <1>3, <2>2, <2>3 DEF fload_option, chosen
  <2>7. fparse_option(o, arg, bit64) = IF needs_bit64(o, n) /\ ~bit64 THEN Refused ELSE n
    BY <1>3, <2>1 DEF fparse_option, chosen
  <2>8. f = Refused \/ (chosen # Refused /\ f = chosen - 1) BY <2>6
  <2>9. f = fparse_option(o, arg, bit64) BY <2>6, <2>7
  <2> HIDE DEF f
  <2> QED BY <2>1, <2>5, <2>8, <2>9
<1>4. ASSUME NEW m \in Int, arg.form = "numeric", arg.number = m
      PROVE  /\ f = fparse_option(o, arg, bit64)
             /\ f # Refused => \E p \in positions(o) :
                    f = p - 1 /\ Meaning(o, arg) = Documented[choices[o][p]]
  <2>1. arg # Missing BY <1>4 DEF Missing
  <2>2. f = IF needs_bit64(o, in_range(o, m)) /\ ~bit64 THEN Refused ELSE in_range(o, m)
    BY <1>4, <2>1 DEF fload_option
  <2>3. fparse_option(o, arg, bit64) =
          IF needs_bit64(o, in_range(o, m)) /\ ~bit64 THEN Refused ELSE in_range(o, m)
    BY <1>4 DEF fparse_option
  <2>4. Meaning(o, arg) = Documented[choices[o][m + 1]] BY <1>4 DEF Meaning
  <2>5. f # Refused => m + 1 \in positions(o) /\ f = m BY <2>2 DEF in_range
  <2>6. m = (m + 1) - 1 OBVIOUS
  <2> QED BY <2>2, <2>3, <2>4, <2>5, <2>6
<1> QED
  <2>1. \/ arg = Missing \/ arg = Other
        \/ arg.form = "character" /\ arg.strings \in Seq(Strings(o))
        \/ arg.form = "numeric" /\ arg.number \in Int
    BY DEF Argument
  <2> QED BY <1>1, <1>2, <1>3, <1>4, <2>1

(* The enumerations name the choices in their order. *)
LEMMA InstanceOf ==
    ASSUME NEW n, NEW o \in Option, NEW p \in positions(o), n[o] = p - 1
    PROVE  instance(n)[o] = Documented[choices[o][p]]
<1>1. CASE o = "max_simplify_lvl"
  <2>1. p \in 1 .. 4 BY <1>1, FiniteChoices
  <2>2. instance(n)[o] = Simplify_To[p] BY <1>1, <2>1 DEF instance
  <2> QED BY <1>1, <2>1, <2>2 DEF Documented, choices, Simplify_To
<1>2. CASE o = "type_policy"
  <2>1. p \in 1 .. 3 BY <1>2, FiniteChoices
  <2>2. instance(n)[o] = Type_Policy[p] BY <1>2, <2>1 DEF instance
  <2> QED BY <1>2, <2>1, <2>2 DEF Documented, choices, Type_Policy
<1>3. CASE o = "int64_policy"
  <2>1. p \in 1 .. 4 BY <1>3, FiniteChoices
  <2>2. instance(n)[o] = Int64_R_Type[p] BY <1>3, <2>1 DEF instance
  <2> QED BY <1>3, <2>1, <2>2 DEF Documented, choices, Int64_R_Type
<1> QED BY <1>1, <1>2, <1>3 DEF Option

(* fload() takes the options fparse() would take, and calls the instance   *)
(* of simplify_element() that is documented for them, whatever strings and *)
(* numbers they are given as.                                              *)
THEOREM OptionsAgree == Spec => []OptionsMeanTheSame
<1>1. Init => OptionsMeanTheSame BY DEF Init, OptionsMeanTheSame
<1>2. ASSUME IInv, OptionsMeanTheSame, [Next]_vars PROVE OptionsMeanTheSame'
  <2>1. CASE PrepOptions
    <3> DEFINE n == [o \in Option |-> fload_option(o, call.options[o], call.bit64)]
    <3>1. call' = call BY <2>1 DEF PrepOptions
    <3>2. ASSUME NEW o \in Option
          PROVE  /\ n[o] = fparse_option(o, call.options[o], call.bit64)
                 /\ n[o] # Refused => instance(n)[o] = Meaning(o, call.options[o])
      <4>1. call.options[o] \in Argument(o) BY <1>2, CallsAssumption DEF IInv, Files
      <4>2. n[o] = fload_option(o, call.options[o], call.bit64) OBVIOUS
      <4> HIDE DEF n
      <4> QED BY <4>1, <4>2, ReadAlike, InstanceOf
    <3>3. \/ pc' = "refused" /\ opts' = opts /\ \E o \in Option : n[o] = Refused
          \/ pc' = "prepare" /\ opts' = n /\ \A o \in Option : n[o] # Refused
      BY <2>1 DEF PrepOptions
    <3> HIDE DEF n
    <3>4. CASE pc' = "refused" /\ opts' = opts /\ \E o \in Option : n[o] = Refused
      BY <1>2, <3>1, <3>2, <3>4 DEF OptionsMeanTheSame
    <3>5. CASE pc' = "prepare" /\ opts' = n /\ \A o \in Option : n[o] # Refused
      BY <3>1, <3>2, <3>5 DEF OptionsMeanTheSame
    <3> QED BY <3>3, <3>4, <3>5
  <2>2. ASSUME UNCHANGED <<call, opts>>, pc' = "refused" => pc = "refused"
        PROVE  OptionsMeanTheSame'
    BY <1>2, <2>2 DEF OptionsMeanTheSame
  <2>3. CASE FilesMissing \/ NameTempFiles
    BY <2>2, <2>3 DEF FilesMissing, NameTempFiles, Abort
  <2>4. CASE DownloadLocal \/ DownloadTogether \/ DownloadNext
             \/ DownloadNextWarns \/ Downloaded \/ DownloadFails
    BY <2>2, <2>4 DEF DownloadLocal, DownloadTogether, DownloadNext,
                      DownloadNextWarns, Downloaded, DownloadFails, Abort
  <2>5. CASE Register \/ LoadNext \/ LoadFails \/ LoadEnds
    BY <2>2, <2>5 DEF Register, LoadNext, LoadFails, LoadEnds, Give, Stop, Parse, Decompress
  <2>6. CASE OnExit \/ Ended \/ UNCHANGED vars
    BY <2>2, <2>6 DEF OnExit, Ended, vars
  <2> QED BY <1>2, <2>1, <2>3, <2>4, <2>5, <2>6 DEF Next
<1> QED BY <1>1, <1>2, Invariant, PTL DEF Spec

-----------------------------------------------------------------------------
(* Types *)

LEMMA FileExtType ==
    ASSUME call \in Calls, NEW i \in urls
    PROVE  fileext(i) \in Seq(Extension)
<1>1. \A j \in urls : ext[doc(j)] \in Seq(Extension)
  BY InputsType, DocumentsAssumption
<1>2. CASE call.compressed_download
  <2> DEFINE e == ext[doc(i)]
  <2>1. e \in Seq(Extension) BY <1>1
  <2>2. fileext(i) = Append(e, "gz") \/ fileext(i) = e BY <1>2 DEF fileext
  <2> HIDE DEF e
  <2>3. "gz" \in Extension BY DocumentsAssumption
  <2> QED BY <2>1, <2>2, <2>3
<1>3. CASE ~call.compressed_download
  <2>1. CASE \E j \in urls : place(j) = i
    <3>1. PICK j \in urls : j = CHOOSE x \in urls : place(x) = i BY <2>1
    <3> QED BY <1>1, <1>3, <2>1, <3>1 DEF fileext
  <2>2. CASE ~\E j \in urls : place(j) = i
    BY <1>3, <2>2 DEF fileext
  <2> QED BY <2>1, <2>2
<1> QED BY <1>2, <1>3

LEMMA TempsType ==
    ASSUME Files, Named
    PROVE  \A i \in urls : temp[i] \in Temp
<1> SUFFICES ASSUME NEW i \in urls PROVE temp[i] \in Temp OBVIOUS
<1>1. temp[i] = [temp |-> i, ext |-> fileext(i)] BY DEF Files
<1>2. fileext(i) \in Seq(Extension) /\ i \in inputs BY FileExtType, InputsType DEF Files
<1> QED BY <1>1, <1>2 DEF Temp

(* What a file may hold *)
Held == [doc : Doc, gzips : Nat]

LEMMA DiskHolds ==
    ASSUME IInv, Named \/ pc = "prepare"
    PROVE  \A p \in DOMAIN disk : disk[p] \in Held
<1> SUFFICES ASSUME NEW p \in DOMAIN disk PROVE disk[p] \in Held OBVIOUS
<1>1. CASE p \in UserFiles
  <2>1. PICK d \in Doc \ Absent : p = UserFile(d) BY <1>1 DEF UserFiles
  <2>2. disk[p] = [doc |-> d, gzips |-> gzips[d]]
    BY <2>1 DEF IInv, Files, UserFilesStay
  <2> QED BY <2>2, DocumentsAssumption DEF Held
<1>2. ASSUME NEW i \in urls, p = temp[i], Named PROVE disk[p] \in Held
  <2>1. disk[p] \in Received(i) BY <1>2 DEF IInv, Downloads, There, Sent
  <2>2. CASE disk[p] \in Scraps BY <2>2, DocumentsAssumption DEF Scraps, Held
  <2>3. ASSUME NEW zipped \in Zips(i), disk[p] = Served(i, zipped) PROVE disk[p] \in Held
    <3>1. zipped \in Nat /\ doc(i) \in Doc
      BY InputsType DEF Zips, Zipped, IInv, Files
    <3>2. gzips[doc(i)] + zipped \in Nat BY <3>1, DocumentsAssumption
    <3> QED BY <2>3, <3>1, <3>2 DEF Served, Held
  <2> QED BY <2>1, <2>2, <2>3 DEF Received
<1> QED BY <1>1, <1>2 DEF IInv, Files

LEMMA OptionsType ==
    ASSUME NEW o \in Option, NEW arg \in Argument(o), NEW bit64,
           fload_option(o, arg, bit64) # Refused
    PROVE  fload_option(o, arg, bit64) \in 0 .. 3
<1>1. PICK p \in positions(o) : fload_option(o, arg, bit64) = p - 1 BY ReadAlike
<1>2. p \in 1 .. 4 BY FiniteChoices DEF Option
<1> QED BY <1>1, <1>2

(* TypeOK but for the answers, which IInv speaks of. *)
TypeInv ==
    /\ opts \in [Option -> 0 .. 3] \cup {<<>>}
    /\ pc \in {"options", "prepare", "local", "remote", "register", "load",
              "return", "error", "refused", "aborted", "returned", "stopped"}
    /\ temp \in [inputs -> Temp \cup {None}]
    /\ disk \in [DOMAIN disk -> Held]
    /\ on_exit \subseteq Temp

(* What follows from IInv of the values in temp and disk. *)
Follows ==
    /\ Named => \A i \in urls : temp[i] \in Temp
    /\ Named \/ pc = "prepare" => \A p \in DOMAIN disk : disk[p] \in Held

LEMMA IInvFollows == IInv => Follows
BY TempsType, DiskHolds DEF IInv, Follows

LEMMA TypeAside ==
    ASSUME TypeInv, UNCHANGED <<call, opts, temp, disk, on_exit>>,
           pc' = pc \/ pc' \in {"local", "remote", "register", "load", "return", "error",
                                "refused", "aborted", "returned", "stopped"}
    PROVE  TypeInv'
BY SameCall DEF TypeInv, Temp

LEMMA TypeFetched ==
    ASSUME Follows', TypeInv, NEW files, Download(files),
           UNCHANGED <<call, opts, temp, on_exit>>, pc' \in {"remote", "register"}
    PROVE  TypeInv'
<1>1. Named' BY DEF Named
<1>2. \A p \in DOMAIN disk' : disk'[p] \in Held' BY <1>1 DEF Follows
<1>3. disk' = [p \in DOMAIN disk' |-> disk'[p]] BY DEF Download
<1>4. Held' = Held BY DEF Held
<1>5. disk' \in [DOMAIN disk' -> Held] BY <1>2, <1>3, <1>4
<1>6. inputs' = inputs /\ Temp' = Temp BY SameCall DEF Temp
<1> QED BY <1>4, <1>5, <1>6 DEF TypeInv

LEMMA TypeKept ==
    ASSUME IInv, IInv', Follows', TypeInv, [Next]_vars
    PROVE  TypeInv'
<1>1. CASE PrepOptions
  <2> DEFINE n == [o \in Option |-> fload_option(o, call.options[o], call.bit64)]
  <2>1. UNCHANGED <<call, temp, disk, on_exit>>
        /\ \/ pc' = "refused" /\ opts' = opts
           \/ pc' = "prepare" /\ opts' = n /\ \A o \in Option : n[o] # Refused
    BY <1>1 DEF PrepOptions
  <2>2. ASSUME \A o \in Option : n[o] # Refused PROVE n \in [Option -> 0 .. 3]
    <3> SUFFICES ASSUME NEW o \in Option
                 PROVE fload_option(o, call.options[o], call.bit64) \in 0 .. 3
      OBVIOUS
    <3>1. call.options[o] \in Argument(o) BY CallsAssumption DEF IInv, Files
    <3>2. fload_option(o, call.options[o], call.bit64) # Refused BY <2>2
    <3> QED BY <3>1, <3>2, OptionsType
  <2> HIDE DEF n
  <2> QED BY <2>1, <2>2, SameCall DEF TypeInv, Temp
<1>2. CASE FilesMissing \/ DownloadFails
  BY <1>2, TypeAside DEF FilesMissing, DownloadFails, Abort
<1>3. CASE NameTempFiles
  <2>1. UNCHANGED <<call, opts, disk, on_exit>> /\ pc' = "local" /\ Named'
    BY <1>3 DEF NameTempFiles, Named
  <2>2. temp' = [i \in inputs |-> temp'[i]] /\ \A i \in inputs \ urls : temp'[i] = None
    BY <1>3 DEF NameTempFiles, urls
  <2>3. Temp' = Temp /\ inputs' = inputs /\ urls' = urls BY <2>1, SameCall DEF Temp
  <2>4. \A i \in urls : temp'[i] \in Temp BY <2>1, <2>3 DEF Follows
  <2>5. temp' \in [inputs -> Temp \cup {None}] BY <2>2, <2>4
  <2> QED BY <2>1, <2>3, <2>5 DEF TypeInv, None
<1>4. CASE DownloadLocal
  <2>1. UNCHANGED <<call, opts, temp, on_exit>> /\ pc' = "remote"
        /\ (UNCHANGED disk \/ \E files : Download(files))
    BY <1>4 DEF DownloadLocal
  <2> QED BY <2>1, TypeAside, TypeFetched
<1>5. CASE DownloadTogether
  <2>1. UNCHANGED <<call, opts, temp, on_exit>> /\ pc' = "register"
        /\ \E files : Download(files)
    BY <1>5 DEF DownloadTogether
  <2> QED BY <2>1, TypeFetched
<1>6. CASE DownloadNext \/ DownloadNextWarns
  <2>1. UNCHANGED <<call, opts, temp, on_exit, pc>> /\ pc = "remote"
        /\ (UNCHANGED disk \/ \E files : Download(files))
    BY <1>6 DEF DownloadNext, DownloadNextWarns
  <2> QED BY <2>1, TypeAside, TypeFetched
<1>7. CASE Downloaded BY <1>7, TypeAside DEF Downloaded
<1>8. CASE Register
  <2>1. UNCHANGED <<call, opts, temp, disk>> /\ pc' = "load" /\ Named'
    BY <1>8 DEF Register, Named
  <2>2. on_exit' \subseteq {temp'[i] : i \in urls'} BY DEF IInv, Files
  <2>3. \A i \in urls' : temp'[i] \in Temp' BY <2>1 DEF Follows
  <2>4. Temp' = Temp /\ inputs' = inputs BY <2>1, SameCall DEF Temp
  <2> QED BY <2>1, <2>2, <2>3, <2>4 DEF TypeInv
<1>9. CASE LoadNext
  <2>1. UNCHANGED <<call, opts, temp, disk, on_exit>> /\ (pc' = pc \/ pc' = "error")
    BY <1>9 DEF LoadNext, Give, Stop, Parse, Decompress
  <2> QED BY <2>1, TypeAside
<1>10. CASE LoadFails \/ LoadEnds
  BY <1>10, TypeAside DEF LoadFails, LoadEnds, Stop
<1>11. CASE OnExit
  <2>1. UNCHANGED <<call, opts, temp, on_exit>> /\ pc' \in {"returned", "stopped"}
        /\ disk' = [p \in DOMAIN disk \ on_exit |-> disk[p]]
    BY <1>11 DEF OnExit
  <2>2. disk' \in [DOMAIN disk' -> Held] BY <2>1 DEF TypeInv
  <2> QED BY <2>1, <2>2, SameCall DEF TypeInv, Temp, Held
<1>12. CASE Ended \/ UNCHANGED vars
  BY <1>12, TypeAside DEF Ended, vars
<1> QED
  BY <1>1, <1>2, <1>3, <1>4, <1>5, <1>6, <1>7, <1>8, <1>9, <1>10, <1>11, <1>12 DEF Next

(* Every variable of a call keeps its type; and before an input is loaded  *)
(* each input before it has its answer, whatever was downloaded for it.    *)
THEOREM TypeCorrect == Spec => []TypeOK
<1>1. Init => TypeInv
  <2> SUFFICES ASSUME Init PROVE TypeInv OBVIOUS
  <2>1. temp \in [inputs -> Temp \cup {None}] BY DEF Init
  <2>2. IInv /\ pc = "options" BY InitIInv DEF Init
  <2>3. disk \in [DOMAIN disk -> Held]
    <3>1. disk = [p \in UserFiles |-> [doc |-> p.user, gzips |-> gzips[p.user]]]
      BY DEF Init, UserFiles
    <3>2. \A p \in UserFiles : p.user \in Doc BY DEF UserFiles, UserFile
    <3> QED BY <3>1, <3>2, DocumentsAssumption DEF Held
  <2> QED BY <2>1, <2>3 DEF Init, TypeInv
<1>2. IInv /\ TypeInv => TypeOK
  BY DEF IInv, Files, Downloads, GivenAnswers, TypeInv, TypeOK, Held
<1> QED BY <1>1, <1>2, TypeKept, IInvFollows, Invariant, PTL DEF Spec
=============================================================================
