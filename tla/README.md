# RcppSimdJson in TLA+

This directory holds a TLA+ specification of RcppSimdJson: its C++ core
(`src/inst/include/RcppSimdJson/`) and the R code of `fload()` and `fparse()`. It covers how a call
reads its options and fetches its files, how it runs parses and queries, how nested JSON arrays become
R vectors, matrices, data frames and lists, and the two things that outlive a call, the input
buffer and the cache of CHARSXPs.
TLC checks the modules on small instances; TLAPS proves all the invariants they check, the action
properties and the three refinements, for every instance. No liveness is claimed (see *Fairness*).
`PROJECT.json` lists the runs, the seeded faults that show each property can fail, the source lines
behind each definition, the hazards, the findings and the theorems.

## Inventory

| Component | Source | State | Operations | Talks to |
|---|---|---|---|---|
| R entry points | `R/fparse.R`, `R/fload.R`, `R/utils.R` | temporary files, exit handlers | argument checks, options; `.prep_input()` names temporary files and downloads; `on.exit()` removes them | C++ entry points, `download.file()` |
| C++ entry points | `src/deserialize.cpp`, `deserialize.hpp` `start()` | none | choose template arguments | query dispatch |
| Parse and query dispatch | `deserialize.hpp` 486-814 | a `dom::parser` and its last document, the lists under construction | `no_query`, `flat_query`, `nested_query` | input buffer, simplification |
| Input buffer | `deserialize.hpp` 424-483 | one padded array and its capacity, for the life of the process | `parse`, `Scope`, `release` | parser; R, while it decompresses |
| Simplification dispatch | `simplify.hpp` | the R objects under construction and what protects them | `simplify_data_frame` to `_matrix` to `_vector` to `_list`, recursion over elements | everything below; R's collector |
| Type diagnosis | `Type_Doctor.hpp` | 16 flags | `add_element`, `update`, `common_R_type`, `is_vectorizable` | vector, matrix, data frame |
| Scalar conversion | `scalar.hpp` | none | `get_scalar`, `get_scalar_dispatch` | cache, for strings |
| Vectors | `vector.hpp` | the vector under construction | typed, mixed and list loops | Type_Doctor, scalars |
| Matrices | `matrix.hpp` | the matrix, offsets into it | `diagnose`, typed and mixed loops | Type_Doctor, scalars |
| Data frames | `dataframe.hpp` | `Column_Schema` (keys, index, doctors, `is_regular`), columns, `last_row` | `find`, `add`, `diagnose_data_frame`, `fill_data_frame` | Type_Doctor, scalars |
| CHARSXP cache | `common.hpp` 183-270 | 1024 slots of bytes, 1024 pointers, a preserved list | `get`, `clear` | R's allocator and collector |
| Release of memory | `exported-utils.cpp` | none of its own | `release_json_memory()` | input buffer and cache |
| Utilities | `utils.hpp`, `internal-utils.cpp` | none | integer tests, file extensions, URL prefixes | R entry points |
| Validation, minification | `exported-utils.cpp` | none | one library call per element | simdjson |
| simdjson, Rcpp glue | vendored, generated | | | |

What is hard in this code, and hard to test:

* **Two passes over the same data that must agree.** Vectors, matrices and data frames are first
  diagnosed, then built by loops that trust the diagnosis: a typed loop casts without looking, the
  fill loop of a data frame takes a position for a column without looking at the key.
* **State that is cached across rows.** `Column_Schema` is a list scanned below 16 columns and a hash
  index from then on; `is_regular` summarises all rows; `last_row` marks what the current row has
  written. All three depend on the history of rows.
* **State that is cached across calls**, against an actor nobody schedules: R's collector reclaims
  CHARSXPs and reuses their addresses; R's allocations fail with a `longjmp()` in the middle of a step.
* **Calls in calls.** Decompressing a file evaluates R code in the middle of a call, and R may then
  run a finalizer that parses with the same buffer, or releases it.
* **One parser for many documents**, some of which fail, each with its own queries; six loops that are
  meant to answer alike but check for missing documents and errors at different places.

* **A recursion that builds objects the collector may take.** A nested value is returned unprotected and
  stored in a parent that is protected by a Shield, by Rcpp, or by being in a data frame that is. R errors
  jump over all the destructors in between, C++ exceptions run them.
* **Files that are renamed, fetched and removed.** `fload()` replaces URLs by temporary files in a vector
  shared by paths and URLs, with masks for both. Downloads fail, wholly or in part; what they
  fetched is to be removed, and what is the user's is not.
* **The same options read by two pieces of code**, one for `fparse()` and one for `fload()`.

There is one thread. There are no locks and no messages, and the package persists nothing, so there are no
properties of those kinds. The only thing a call waits for is a download.

## Modules

| Module | Models | Kind |
|---|---|---|
| `TypeDoctor` | element kinds, flags, `common_R_type()`, `is_vectorizable()` | operators |
| `Scalar` | what each conversion stores, and whether the value survives it | operators |
| `Columns` | `Col_Kind`, `col_kind()`, the value of a cell | operators |
| `Vector` | `simplify_vector()`: diagnosis, decision, three loops | state machine |
| `Matrix` | `matrix::diagnose()`, `simplify_matrix()`, the loops over column-major storage | state machine |
| `Simplification` | the highest simplification whose conditions each array of a document meets | abstract specification, operators |
| `Simplify` | `simplify_element()`: the recursion, the fallback from level to level, R's heap and its protection | state machine |
| `DataFrame` | `diagnose_data_frame()`, `build_data_frame()`, `fill_data_frame()` | state machine |
| `AtKeyTable` | the table a data frame is: each key looked up in each row | abstract specification |
| `CharsxpCache` | `Charsxp_Cache::get()`, step by step, and `clear()`; R's heap and collector | state machine |
| `MakeCharsxp` | what callers would see without a cache | abstract specification |
| `InputBuffer` | `Input_Buffer`, the stack of calls that use it, `release_json_memory()` | state machine |
| `Requests` | the arguments of a call, as the R checks let them through, and answers | operators |
| `QueryDispatch` | `no_query()`, `flat_query()`, `nested_query()` with the parser's memory | state machine |
| `Answers` | each document and query answered alone; an error of one is the error of all | abstract specification |
| `Options` | the three options, from the R argument to the C++ instance, in both functions | operators |
| `Fload` | `fload()`: options, `.prep_input()`, downloads, exit handlers, loading | state machine |
| `MC*` | the instances TLC checks | model checking |
| `*Proofs` | theorems and their proofs | proofs |

`Vector`, `Matrix` and `DataFrame` extend `Scalar` (through `Columns` for data frames) and `TypeDoctor`;
`QueryDispatch` instantiates `Answers`, `CharsxpCache` instantiates `MakeCharsxp` and `DataFrame`
instantiates `AtKeyTable` as the specification it implements. `Simplify` extends `Simplification`, which
extends `Columns`, and composes the builders: what the loops of vectors and matrices store is taken from
`Vector` and `Matrix` by `INSTANCE`, and data frames are filled by `cell` of `Columns`, as in `DataFrame`.
`Fload` extends `Options`.

### How state and actions correspond to the code

**Data.** A JSON value is a *kind* and an identity. The kinds are simdjson's element types, except that
INT64 is split where the code tells integers apart: those that fit an R integer (`is_castable_int64()`),
those that do not, and `LLONG_MIN`, whose bits are `NA_INTEGER64`. A stored cell says in which storage
the value is (`STRSXP`, `REALSXP`, ..., `VECSXP` for a list element), whether it is NA, and of which
value. Three storages stand for conversions that need not keep the number: "wrapped" is a wide integer cast to
`int`, "rounded" one made a double (`scalar.hpp:71-76`; from 2^53 on the nearest double), "decimals" a double made
text by `std::to_string()` (`scalar.hpp:90-113`; six decimals, `1e-7` is `"0.0"`). `Survives(v, cell)` says that the
value can be read off the R vector, which it cannot from any of these or from NA. What a caller gives up by
asking for it is named one by one in `LostByPolicy`: the smallest 64-bit integer under `integer64`, wide integers as
doubles, where integers are to be doubles or are mixed with one, and the decimals of a double that becomes text beside a
string or an unsigned number under `anything_goes`. `Kept` is one or the other, and all else is a loss that the
properties would report. Formatting, wording and attributes are left out.

**TypeDoctor.** A doctor is the two groups of flags as sets, `types` for the upper-case flags and
`flags` for the lower-case ones. `common_R_type` and `is_vectorizable` keep the order of the code's
early returns. The BIGINT branch is left out: the parser never yields one.

**Vector, Matrix.** `phase` is where the function is, `i`, `row`, `col`, and the code's offsets `i`
and `j` are its cursors, one action is one iteration. `Decide` is the choice of loop and
its type arguments. A matrix that is given up is `"nullopt"`, where `simplify_matrix()` falls back to
`simplify_vector()`.

**DataFrame.** `DiagnoseField` is one iteration of the inner loop of the first pass, with `find()`,
`add()`, the update of `is_regular` and of the column's doctor; `DiagnoseRowEnd` the end of an outer
iteration; `BuildColumns` the columns allocated full of NA; `FillField` one iteration of the second pass
with its routing, its skip of repeated keys and the write of the cell. Rows, positions and columns
count from 1, and 0 stands for the code's -1. `MIN_HASHED_COLUMNS` is a constant so that small
instances cross it.

**CharsxpCache.** `get()` is split at each point where R may allocate, since there the collector may run
or the allocation fail: `AllocList`, `Preserve`, `MakeCharsxp`, each of which may be
`AllocationFails` instead, the R error that jumps out. `heap` maps addresses to contents, so that a
stale pointer is an address whose content has changed. `Collect` reclaims any part of what is not
reachable from preserved lists, from the argument of the running allocation, and from what R objects
hold (`held`). R runs no finalizers inside an allocation, so `get()` and `clear()` do not nest.

**InputBuffer.** `data` is the length of the array, `capacity` the capacity, `calls` the stack
of running calls. `Begin` and `ReleaseJsonMemory` are possible whenever R code runs: outside of all
calls, or while the call on top decompresses. `CopyAndParse` is `Input_Buffer::parse()` and
`BadAlloc` its `make_unique()` throwing. A call ends with `EndCall` (it returns, or a C++ exception
unwinds it; `~Scope()` runs) or `RError` (a `longjmp()` out of an allocation of R's; it does not). `ended` is
a history variable, no part of the code: how the call that ended last did.

**QueryDispatch.** `i` and `j` are the loops' cursors, `tape` is the document in the parser's memory,
`out` and `res` the lists being filled. `ParseQueryAndDeserialize` is the function of that name, used by
the loops that parse a document anew for each query; `Parse` and `QueryAndDeserialize` are the loops
that parse it once. A missing document which those do not notice is parsed as the text `NA`
(or the file of that name, which is taken not to exist), and does not parse. `Broken` are the files that
`memDecompress()` fails on: that is an R error, which `parse_error_ok` does not cover (`Pardoned`).

**Simplify.** A document is the table of its nodes in the order of simdjson's tape. `stack` has one frame
per running call of `simplify_element()`, with its node, its template arguments, where it is and
its loops' cursors; `ret` is the SEXP the last call returned, which nothing protects. `heap` maps addresses to
R objects, `protects` is R's protection stack (what `Rcpp::Shield` pushes on), and `precious` the list
that Rcpp's vector classes enter their objects into. An action ends at each point where R may
allocate, and each allocation collects all that is reachable from none of these. `TryLevel` is the step
from one level to the next. An error leaves the recursion in two ways: `AllocationFails` is R's,
which jumps, and `EmbeddedNul` is a C++ exception, after which `Unwind` runs the destructors of one frame
at a time. `ReturnsItsSimplification` compares the object that is returned, down to its leaves, with
`Simplification`, which knows no heap, no early return and no typed loop.

**Fload.** `call` holds the arguments and the method `download.file()` is set to; `temp` is the name of
each URL's temporary file, `disk` what is in which file, `on_exit` what the exit handler removes, and `out` the
answers so far. A file is a document and the number of times it is compressed, an input a prefix and a
document. The actions follow the code from `PrepOptions` over `NameTempFiles`, `DownloadLocal` (`file://`)
and `DownloadTogether` (libcurl) or `DownloadNext` (all other methods) to `Register`, `LoadNext` and `OnExit`.
`Abort` is an error before there is an exit handler. `download.file()` and servers are external: as R documents
and the code relies on, the internal method takes only the first URL it is given, libcurl fails only if all of
its downloads do, and a server compresses or does not when asked to. Of the other methods "auto" stands for those
that stop if they fail, and "wget" for `wget` and `curl`, which only warn and return a status that the loop ignores
(`R/utils.R:92-102`): `DownloadNextWarns` then goes on with no file, or with what is left of the download (`Scraps`).

**Options.** `fparse_option` and `fload_option` follow the two functions' code for the argument of an option in
each of its forms: absent, strings, one number, anything else. `instance` is the choice of one of the 48
instances of `simplify_element()`, `Documented` what the documentation says of names and numbers.

## Runs

| Run | Instance | Shows | States |
|---|---|---|---|
| `data_frame` | up to 3 rows, 3 keys in all orders, lengths and repetitions, index from 2 columns; 3 rows of a column, or a repeated key, of all kinds of values; each policy and treatment of 64-bit integers | keys, index, routing, repeated keys, column types from all values, nothing lost under `anything_goes` but by the treatment of integers and text, refinement of `AtKeyTable` | 975 k |
| `data_frame_strict` | one column, all kinds of values | **violation**: `strict` columns do not keep types | |
| `vector` | all arrays of up to 3 elements of all kinds, all policies and options | nothing lost but what the policies give up, policies as documented | 117 k |
| `vector_numbers` | the same | **violation**: numbers do not always become vectors | |
| `matrix` | up to 3 rows, rows of different lengths, rows of nulls, rows that are none | every element in its place and kept, but for what the policies give up; early return sound | 206 k |
| `simplify` | documents nested up to four deep, all levels of simplification | result is the highest simplification, nothing in use is collected, nothing stays protected, returned objects are complete | 260 k |
| `charsxp_cache` | 5 strings in 2 slots, 3 addresses, 2 lists | no stale entry, nothing leaked, cache invisible | 216 k |
| `charsxp_cache_preserve` | the same, `R_PreserveObject()` may fail | **violation**: stale entries | |
| `input_buffer` | documents of length 0 to 6, padding 2, limit 3, 3 nested calls | capacity is that of the array, documents fit, large buffers released unless an R error jumped out of the last call | 40 k |
| `query_dispatch` | up to 2 documents and 2 queries each, missing, junk, not to be decompressed or finding nothing, all shapes of arguments | the element in use is current, refinement of `Answers` | 138 k |
| `fload` | 2 inputs of 6 kinds of file, or 3 of 2 kinds, by path or URL; three kinds of download method; options in all their forms | each answer is of its own file but for named exceptions, temporary files removed, or kept, user's files untouched, options as documented | 552 k |
| `fload_documented` | one call: a path, the `file://` URLs of a compressed and of another file, `keep_temp_files = TRUE` | **violation**: neither URL's file is read, and the temporary file is left (findings 4, 5, 6) | |

**Why the bounds are enough.** *Shapes*: routing depends on a position, a key and the columns so far; a
third row is needed for a mark left by the first row to meet a row that comes after one
without the key, three keys for two of them to be swapped behind one in place, and an index from 2
columns to have keys before, at and after the threshold. *Kinds*: each rule asks for one
raised flag and the absence of others, which two elements decide; the third is for a null, or one more
type. *Cache*: two strings that compete for a slot, a third address
to be reused while both are held, and a second list to be allocated after a release. *Buffer*: lengths
below, at and above limit and padding; depth 3 gives a call interrupted by one that is interrupted.
*Dispatch*: a document after one that failed and after one that did not, with a query of each outcome.
*Simplification*: one or two elements make each level accept or refuse an array, and values nested
in a list, an object, a list column and a column within a list column are there, each with an
allocation before and after it. *Files*: two
inputs give every pair of kinds of file and of ways to name them; the third is for the extensions to move by
one place and past the end, and for a download to fail between two that succeed; the methods are one that downloads together, one that stops and
one that warns, and they are all the code tells apart. *Options*: no argument, up to
two strings, all choices, and numbers on both sides of the range.
TLC explores all interleavings in each; the theorems below remove the bounds for most of them.

**Fairness.** There is none, and no liveness property. The loops are C++ `for` loops over finite arrays and
R's `for (i in seq_along(...))`, which end by construction; nothing waits for anything but a download, which R ends
after its timeout; and `CharsxpCache` and `InputBuffer` are driven by a user who need not call. That a call which has not ended
can take a step is what TLC's deadlock check shows, which is on in all runs (`Returned` and `Ended` are the end of a call).

## Findings

1. *Columns under `strict`* (`dataframe.hpp:251`). `build_data_frame()` takes the column type from
   `common_R_type()` without first asking `is_vectorizable()`, unlike vectors and matrices. For mixed
   flags that function returns the next type whose own test passes: with `type_policy = "strict"`
   `[{"a":"x"},{"a":1.5}]` gives a double column with NA for `"x"`, and a 64-bit integer beside
   a 32-bit one is narrowed. The documentation says that strict promotes nothing.
2. *Numbers under `numbers`* (`Type_Doctor.hpp:230`). An array with a number above the range of int64 beside any other number
   becomes a list, though arrays of only numbers "always become atomic vectors".
3. *CHARSXP cache* (`common.hpp:233`). `keep_alive` is assigned before it is preserved. If
   `R_PreserveObject()` fails to allocate, the list is collected later while `values[]` still points
   to its strings. With `PreserveMayFail = FALSE` the cache is right, and proved so.
4. *Paths beside URLs* (`R/utils.R:64`). `.fileext` holds one extension per URL, and is then indexed by a
   mask over all inputs. With a path before a URL, the temporary file gets the extension of a later
   URL, or none; a compressed file is then not decompressed, and is a parse error.
5. *Several `file://` URLs* (`R/utils.R:71`). They are passed to one `download.file(method = "internal")`,
   which takes only the first. The temporary files of the others are never written, and to load them is a parse error,
   though `fload()` is documented to take "one or more paths to files (local or remote)" (`R/fparse.R:19-20`).
6. *`keep_temp_files`* (`R/fload.R:133`). The code keeps the files if it is `TRUE`, as its name says, and
   removes them by default. The documentation (`R/fload.R:12-14`) says "whether to remove any temporary files",
   default `TRUE`: the opposite in meaning and in default.

The run `fload_documented` shows 4, 5 and 6 at the end of one behaviour of one call. `TempFilesRemoved` and
`TempFilesKept` are stated for the name of the argument, not for its documentation.

Not a contradiction of any text but worth knowing, and stated as the exceptions in the properties:

* the smallest 64-bit integer becomes NA under `integer64`;
* integers above 2^53 are rounded under the default `int64_policy`, and beside a double under any policy that
  promotes;
* a double beside a string or an unsigned 64-bit number becomes text with six decimals under `anything_goes`, and
  `1e-7` becomes `"0.0"`;
* an R error in the middle of a nested value jumps over the destructors of Rcpp's vectors, whose objects stay on
  Rcpp's list of precious objects for good;
* a matrix whose first row is all nulls is refused under `numbers` and `strict` whatever follows, though the
  same rows in another order may be accepted;
* the release of a large input buffer is a destructor (`deserialize.hpp:455`), which R errors jump over; the
  buffer then stays until a later call ends, or `release_json_memory()`;
* libcurl may come back with some of several files (`R/utils.R:84`), and `wget` and `curl` only warn if they fail
  (`R/utils.R:92-102`); what is missing, or an error page in its place, is a parse error, or for a compressed file
  an error of `decompress()` that `parse_error_ok` does not cover;
* if a download fails, the files downloaded before it stay: the exit handler is registered later
  (`R/fload.R:128-135`);
* a server that compresses what is compressed already is not undone twice.

## Proofs

TLAPS checks the theorems below for every value of the constants: any documents, policies, hash function,
threshold, lengths, depth, inputs and files. They rest on the `ASSUME`s of the modules, which only say what the constants
are (documents and strings are none of the markers for "missing" and "free", no address is the one for "no
object", the hash maps strings to slots, arrays are not empty, `MIN_HASHED_COLUMNS` and the padding are
positive; a file of JSON is compressed at most once and then has the extension for it, and calls are of the
types that R's checks let through), and on the two hypotheses named below.

| Module | Theorem | Property |
|---|---|---|
| `CharsxpCacheProofs` | `TypeCorrect`, `NeverStale`, `KeptAlive`, `NeverLeaks` | `TypeOK`, `EntriesNotStale`, `EntriesKeptAlive`, `NothingLeaked` |
| | `CacheIsInvisible` | `ImplementsMakeCharsxp` |
| `DataFrameProofs` | `TypeCorrect`, `Routing` | `TypeOK`, `RoutedToItsColumn` |
| | `FirstSeenOrder`, `RegularIsSameKeys` | `ColumnsInFirstSeenOrder`, `RegularMeansSameKeys` |
| | `DoctorsSawAll`, `NothingIsLost` | `DoctorsSawTheirColumn`, `NothingLostAnythingGoes` |
| | `FirstOneWins` | `FirstOccurrenceWins` |
| | `IsAtKeyTable` | `ImplementsAtKeyTable` |
| `VectorProofs` | `TypeCorrect`, `NothingIsLost` | `TypeOK`, `NothingLost` |
| | `PoliciesHold` | `PoliciesAsDocumented` |
| `MatrixProofs` | `TypeCorrect`, `HoldsItsElements` | `TypeOK`, `MatrixHoldsItsElements` |
| | `SameVerdict` | `SameVerdictAsVector` |
| `SimplifyProofs` | `TypeCorrect`, `ProtectionIsUndone` | `TypeOK`, `NothingStaysProtected` |
| | `NothingIsCollectedEarly` | `NothingInUseIsCollected` |
| | `NothingChangesAfterwards` | `HandedOverComplete` |
| | `ReturnsWhatIsPromised` | `ReturnsItsSimplification` |
| `InputBufferProofs` | `TypeCorrect`, `CapacityIsRight`, `NeverOverrun` | `TypeOK`, `CapacityIsAllocated`, `DocumentFits` |
| | `OnlyJumpsKeepALargeBuffer` | `ReleasedUnlessJumped` |
| | `NothingLargeIsKept` (`RErrorsJump = FALSE`) | `LargeBufferReleased`, which no run checks |
| `QueryDispatchProofs` | `TypeCorrect`, `AlwaysCurrent` | `TypeOK`, `ElementIsCurrent` |
| | `LoopsImplementAnswers` | `ImplementsAnswers` |
| `FloadProofs` | `TypeCorrect`, `UserFilesAreSafe` | `TypeOK`, `UserFilesStay` |
| | `EachItsOwnAnswer` | `AnswersAreTheirOwn` |
| | `NoTempFileIsLeft`, `KeptTempFilesAreLeft` | `TempFilesRemoved`, `TempFilesKept` |
| | `OptionsAgree` | `OptionsMeanTheSame` |

*The cache* (under `PreserveMayFail = FALSE`, see finding 3). That no entry is stale is not inductive:
it must be known why the collector leaves the string alone. `IInv` adds that the list in use is
preserved and live and holds exactly the pointers of the slots, what each program counter means for it
(`ListProtocol`), that R's table of strings has one CHARSXP per content (`HeapIsUnique`), and that what
callers hold is intact. One lemma per action; `CachedIsReachable` is what makes `Collect` harmless. The
refinement follows step by step: a hit returns the string that `make_charsxp()` would have found.

*Data frames.* The fill loop may only trust positions because of all the rows before. `SchemaInv` has the
keys distinct, the index agreeing with them from the threshold on, every key that
the first pass has been through among the columns, and, while `is_regular` holds, the rows
so far equal to the keys and the current one a prefix of them (`RegularSoFar`). `FindIsRight` and
`AddIsRight` are about the operators, for any mix of scan and index. `FillInv`, on top, says
which cells the current row has written, what `last_row` says of it, and that all cells of the rows to
come are NA.

`ColumnsInv` adds the history of the columns: each column's key was first read after those of the columns before
it, its doctor has seen exactly the values read under it so far, and a lowered `is_regular` has a reason, a
field out of its place or a row of another length. That nothing is lost under `anything_goes` then needs only
`FirstOneWins` and the table of conversions: the type of a column, from all its values, keeps each of them, or
loses it as `LostByPolicy` says for the kinds of values that the column has. For the
refinement of `AtKeyTable` the first pass stutters, `BuildColumns` makes the abstract table, and the iterations
of the second pass fill its cells one by one, or stutter at a repeated key; `ColumnsAreKeys` and `AtFirst`
are what relates columns and positions to keys.

*Vectors.* `RTypeDominates` relates the flags to the type chosen, `TypedKeeps` and `MixedKeeps` the
type chosen to what survives each conversion or is lost by policy; `IInv` carries the diagnosis over to the
loops: the doctor has seen every element of the array. For the policies `PolicyInv` has
the flags raised by elements seen and by nothing else, and the vector atomic or a list as the decision was.

*Matrices.* The offsets `i` and `j` are accumulated, not computed: `StorageInv` says what they are at each
row and column, and that exactly the cells of the rows and columns gone through are written.
`Places` is the arithmetic, that offsets are one for each row and column and fill the storage. `DiagnosisInv`
says that all rows so far fit the first and that the doctor is that of all their elements; for the
verdict, what is refused early would be refused at the end, as flags only rise.

*Simplification.* Four invariants are inductive together (`IInv`). `CallsInv`: the calls on the stack are for nodes one
below another, so none is for the same node as another; all but the top are at an element they wait for. `ProtectionInv`: R's
protection stack has the objects of the calls in the order of the calls, so that the number of Shields a
destructor pops are those of its own call, and everything precious belongs to a call. Both together make
`NothingStaysProtected`: no call, nothing protected. `HeapInv`: no object refers to one that is gone, each address has an
object of its class. `InUse`: each call's objects are protected, or columns of a frame that is, and what was returned is
there. The collector is a fixed point (`Reachable`): `HasFixpoint` shows that there is one, `FixpointIsClosed` that it
is closed and contains the roots, by well-founded induction on what is not reached yet; from these,
whatever a protected object refers to stays. Destructors run and the collector
does not between a return and the store into the parent, which is why the unprotected
result is safe. The fill of a data frame relies on each key having a column, `FirstPlace` and the
rank of a key's first place.

*What is returned.* `ReturnsWhatIsPromised` compares two recursions, one over the document (`Simplified`) and one over
the heap (`Read`), neither of which `Simplify` performs. The proof has four parts.

1. *The promise is well defined.* `Object` says what a node becomes when those below it are known; since the
   children of a node come after it, the recursive function `Simplified` satisfies its equation (`SimplifiedIs`).
2. *The steps that decide agree with the promise.* `DiagnoseIs`: stopping at the first row that rules a matrix out gives
   the verdict of all rows, the all-null first row included. `StoredAsCells`: the typed and the mixed loops of vectors
   and matrices, whose code is in other modules, store what a data frame's column of the same values would;
   `ScalarIs` the same of a value alone.
3. *The invariant.* It is not enough to say what finished objects are: a nested call returns into a parent
   that is half built. `Contents` says of every object on the heap what it is: `Done` if its call has returned, and
   otherwise `Content`, which gives each place in a call its state (which items are stored, which names, which columns are
   there, and in the fill loop that exactly the cells gone past are written, counting the first of repeated keys only).
   `LevelOK` is what has been established about the node when a place is reached, the levels refused before it in
   particular, and `Nesting` that each call is for the value the call below it waits for, and what was returned is that
   value's object. There is one lemma per action. That a step leaves the objects of other calls alone is
   `NothingChangesAfterwards` again, in the form the heap lemmas already have (`Changes`).
4. *Reading.* At the end no call is running, so all objects are `Done`. Each refers to objects of nodes
   below its own, or is a frame and refers to its columns (`ElementsOf`); so a greatest node read wrongly cannot exist, and `Read`,
   which is a fixed point over the heap, is what was promised at every address (`ReadIs`).

*The buffer.* `CapacityIsAllocated` and `DocumentFits` are inductive with the typing of the stack: all
calls below the top are decompressing. `ReleasedUnlessJumped` says that whenever
no call runs the buffer is small, unless the call that ended last jumped. It is preserved because only the end of the last call makes
`calls` empty, and an orderly end leaves a small buffer whatever the calls above it had left. `NothingLargeIsKept`
says what that comes to under `RErrorsJump = FALSE`: no large buffer is kept between calls.

*Dispatch.* `RowsRight` and `CellsRight` say that what has been collected is right and has no error in
it, `LoopRight` which loop is running and that the parser holds the document the loop is at, `EndRight`
what the end of the call means for `Answers`. The refinement maps each final step to the abstract one.

*Files.* Three parts are inductive together. `Files`: every file there is one of the user's, as it
was, or the temporary file of a URL with what may have been sent for it, scraps included, and what is to be removed on exit are the
temporary files and no others. Temporary files have names of their own (`TempNames`), so a download writes into
nobody else's. `Downloads`: when files are loaded, those of all URLs are there but for the named exceptions.
`GivenAnswers`: each answer so far is right for the file its input had when it was loaded, which no later step
before `OnExit` changes. `OptionsAgree` needs no history: it compares the two readings argument by argument.

*Only model-checked*: the properties of the violation runs, which do not hold. *Out of the prover's reach* are
liveness under fairness and `ENABLED`, which the project does not use, `RECURSIVE` operators, and the induction theorems
that take an operator as a parameter. Induction is used in the form that a non-empty set of bad cases has a minimal element (`WFMin`), which needs no such parameter; `Smallest` and `Greatest` say it of
numbers. `:>`, `@@` and
`SelectSeq` are not expanded by the provers either: where a proof needs them the modules say the same with a
function constructor.

## Not modelled

* simdjson, except as a parse that succeeds or fails and a pointer that finds or does not. It is
  vendored, and nearly all the code there is by lines. Its sizes saturate at 0xFFFFFF elements while the builders'
  loops do not stop there (`vector.hpp:28`); that hazard is listed and not covered.
* `is_valid_json()`, `is_valid_utf8()`, `fminify()`, `validateJSON()`: one stateless library call each. The glue
  in `RcppExports` is generated.
* `resolve_int64()` of whole vectors, which only the test suite calls.
* Options given as vectors of several numbers, which R refuses or warns of by version; argument checks
  whose only outcome is an error, beyond `IsChecked` in `Requests`.
* `http://` and `ftp://` URLs are taken as `https://` ones: the code treats them alike.
* `names`, `always_list`, classes and row names of results; error messages.

## Plan

1. Data frames: `TypeDoctor`, `Scalar`, `Columns`, `DataFrame`, `AtKeyTable` — done and proved.
2. Vectors and matrices: `Vector`, `Matrix` — done and proved.
3. Cache: `CharsxpCache`, `MakeCharsxp` — done and proved.
4. Calls: `InputBuffer`, `QueryDispatch`, `Answers` — done and proved.
5. Nesting: `Simplification`, `Simplify` — done and proved.
6. `fload()`: `Options`, `Fload` — done and proved.
7. `Builders`: allocation by a size that saturates against loops that do not.
