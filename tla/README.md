# Verification of go-magic

TLA+ models of go-magic: the Go package `magic`, the bundled rules in
`magic_files`, and the parts of libmagic (C, under `magic/`) that the package
compiles in. TLC checks the models on small instances and TLAPS proves some of
their properties for every instance. `PROJECT.json` lists the runs, the
theorems, the hazards each property is for, and the source lines behind every
definition.

## 1. The system

A program opens a handle (`magic.NewMagicHandle`), loads rules into it, and
asks it what files or byte slices are. The Go side is a thin layer of cgo calls
under one mutex per handle; the logic is in C.

| part | state | operations | works with |
|---|---|---|---|
| Go handle (`magic/magic.go`) | a mutex, a `magic_set` | NewMagicHandle, Load, LoadBuffer, Check, Compile, File, Buffer, SetFlags, GetError, Errno, Close | calls everything below, one call of a handle at a time |
| bundled rules (`magic_files/`) | one in-memory file system for the process | Init, ReadFile, LoadDefaultMagic | hands a text to LoadBuffer |
| database of a handle (`file_apprentice`, `apprentice_1`, `add_mlist`, `mlist_free*`) | two lists of entries, the maps they point into, the error state, the number of warnings, MAGIC_CHECK | load, load from a buffer, check, compile | is walked by the interpreter |
| rule loader (`load_1`, `load_from_buffer`, `parse`, `check_cond`, `addentry`, `apprentice_load`) | the pending group, two sets of groups, the level table, a static level | one line after the other, then sort by strength and store | builds a map |
| compiled database (`apprentice_compile`, `apprentice_map`, `check_buffer`) | the `.mgc` file | compile, load | other processes use the same file |
| classification (`magic_file`, `magic_buffer` in `magic.c`, `fsmagic.c`) | the descriptor and what stat said | look at the name, open, read, hand on | other processes replace the file |
| detector pipeline (`file_buffer` and the output buffer in `magic/funcs.c`, `ascmagic.c`) | the output, the error flag | tar, JSON, CSV, SIMH, CDF, rules, text, in that order | prints what GetError or File return |
| rule interpreter (`magic/softmagic.c`) | the activations of `match()`, the level table, two counters, the output and four print flags | one rule after the other, `use`, `indirect` | reads the database |
| recognisers (`is_tar.c`, `is_json.c`, `is_csv.c`, `is_simh.c`, `der.c`, `cdf.c`, `readcdf.c`, `encoding.c`) | none: functions of the input | | called by the pipeline and the interpreter |
| default path (`get_default_magic`) | a static pointer | | called by load without a path |
| command-line tool (`bin/`) | the command line, a handle | open, load, ask for each target, close | uses the Go handle and the bundled rules |
| build (`magefile.go`, `b0x.yaml`) | `magic_rules.mgc`, `ab0x.go` | PrepareMagicFile, Builder.Run | makes the bundled rules from a source tree of file(1) |

Not part of this build: decompression (`compress.c`, needs HAVE_FORK), ELF notes
(`readelf.c`, needs BUILTIN_ELF), the sandbox (`seccomp.c`), memory-mapped
databases (QUICK), locales.

What is hard here:

- **Shared state inside one call.** Activations of `match()` share the level
  table, the end of the input, the counters and the print flags; conditions,
  defaults and clear rules read flags that older rules left.
- **Shared state between handles.** The mutex is per handle, but `parse()` keeps
  the level of the last line in a static variable, `get_default_magic` keeps its
  path in one that the next call frees, and all goroutines unpack the bundled
  rules into one file.
- **Answers that are pointers.** libmagic returns pointers into the handle, which
  the next call of another goroutine frees or overwrites; the Go methods copy
  them under the mutex, in up to three calls of libmagic.
- **Failure half-way.** Every allocation in the loading of a list of paths may
  fail after the old database is gone; an error is recorded once and fetched
  later, separately from its flag.
- **Crashes and other processes.** The compiled file is written in place, in
  three writes, with no lock, and read with the size taken first. The preparation
  of the bundled rules overwrites two files step by step and may stop anywhere.
- **Results that nobody looks at.** `LoadDefaultMagic` drops what LoadBuffer
  returned and the tool drops the result of Load; the failure has to reach the
  user through a later call.
- **Names looked up again.** A file is looked at by `lstat`, `readlink`, `open`
  and `stat`; it may be another one each time.
- **One buffer, many writers.** The checks of the file system, each detector, the
  separators and the encoding print into one buffer that an error empties.
- **Termination.** Rules call rules; a text line may be parsed again; a reader
  follows a file that others truncate.
- **Edges.** Levels of eight bits, counts of 32 bits, a limit on warnings that
  also limits the reading, buffers whose last line is special.

## 2. The modules

Each module has constants with a named assumption, an action per step of the
code, and its properties at the end. A definition whose name is another's with
a suffix (`HiddenOffByOne`, `AddEntryNot`) is a wrong variant of it: no
specification uses it, it shows that the property can fail.

### SoftMagic (magic/softmagic.c)

`file_softmagic` and `match()`. The stack of activations is explicit: `stack`
has a frame per call of `match()`, with its position, level, `found_match` and
`returnval` and, for the properties, what became of every rule it passed. `li`
is `ms->c.li`, `print` the output and the flags `printed_something`,
`firstline`, `count` the two counters. `NextGroup` is the `for` loop,
`NextContinuation` the `while` loop, `EndGroup` and `EndList` the ends of
both; `ReturnFromUse` and `ReturnFromIndirect` are the rest of `mget` after the
inner call. What the bytes of the input say is a free choice of a verdict: out
of the input, no match, match, or failure; the offset a rule leaves is the pair
of activation and rule that wrote it. A failure comes with an error (`Fail`) or
without one (`GiveUp`: no memory for another output buffer, a regular expression
that cannot be compiled or run); an indirect rule whose list failed gives its
caller its buffer back. The setups are any that the rest of the
library can hand over: `GroupsAssumption` is what the parser lets through (the
first rule of a list has level 0 and opens the first group, apprentice.c:2192-2200,
"no current entry for continuation"; `set_test_type` gives the mode flags to
the first rule of a group only, :1546-1574; a `name` rule begins a list, :2439),
and MAGIC_NODESC, which switches descriptions off, contains all flags that ask for
annotations.

### RuleLoader and RuleOrder (apprentice.c: load_1, load_from_buffer, parse, check_cond, parse_strength, addentry, apprentice_load)

Several handles, each with its level table (`len`, `last_cond`) and the load it
is in; `last_cont_level` is the static variable. `ReadLine` is the loop, up to
and including the look at the static variable; `Parse` is the rest of `parse()`
and `addentry`; between the two, another handle may run. `Finish` ends the
text and, when nothing was wrong, does the rest of `apprentice_load` (`Arrange`):
both sets are sorted and each is stored as one array. RuleOrder has what that
needs: the strength of a group, computed from its first rule (`test`) and the
annotation `!:strength` (`factor`), and the orders that `qsort` may produce. The
bytes that decide between groups of one strength are left out, so any order of
these is allowed. What else parsing may reject is one Boolean, `valid`, before or
after the condition is checked, and `warns` says whether it warns. `Spec` lets handles interleave, as Go does; `SerialSpec`
runs one load at a time.

### MagicHandle (apprentice.c, magic.c, funcs.c, print.c, magic.go)

One handle over several calls. `Start` is `file_apprentice` up to its loop,
`LoadCompiled`, `LoadText` and `CompilePath` are `apprentice_1` on the next path
of the list, `Finish` the rest. `mlist` has the two lists, `live` the maps
allocated; `had` and `buf` are the error flag and text. `Identify` is a call of
File or Buffer. `LoadCompiled` is the attempt at `apprentice_map` that every load
and check begins with, of a buffer too, whose text is taken for a path;
`MapErrors` are the errors it may leave, and `Written` what a compilation leaves
(too few entries to be loaded when it read no rules). `Faults` says whether
allocations and writes may fail at any of these points. Directories and the naming of the compiled file (`mkdbname`) are
left out: a path has a text and a compiled file or not. A call whose second
list could not be extended frees both and goes on, and dereferences a null list
if it then loads another path: the model ends there (`Crashed`).

### CompiledDb (apprentice.c: apprentice_compile, apprentice_map, check_buffer)

The file as a sequence of cells of the size of a rule, with torn cells and a
piece at the end. `Open`, `Write` and `WriteShort` are a compiler (a write
that stops early stands for a full disk and for the death of the process),
`Stat` and `Read` a loader. One read or write of the file is atomic, as POSIX
asks of regular files; between them anything may happen. `Spec` has any number
of compilers at once, `SerialSpec` one at a time.

### DefaultRules (magic_files/ab0x.go, defaults.go)

Goroutines that call `LoadDefaultMagic` again and again. The file system is
external code: a file with atomic reads and writes whose `O_TRUNC` empties it
for all. One `Write` is a round of `io.Copy`, one `Read` a block read. GoHandle
uses its actions for the first half of `LoadDefaultMagic`; by itself it is run
only for the claim of the README that it refutes.

### GoHandle, SerialHandle, HandleAnswers (magic/magic.go)

Extends DefaultRules by the Go package: goroutines that share handles. A method
is several steps, `at[g]` says which: `Lock` (with `C.CString`), the call or the
calls of libmagic (`FileOrBuffer`, `FileError`, `GetError`, `Clear`, `Load`, ...),
`Copy` (`C.GoString` of the pointer `out[g]`), and `Unlock` with the deferred
calls. `mutex` is `Magic.mu`. `ms` is what there is of `struct magic_set` for the
methods: whether it is open, the database, the error event and its text, and the
buffers that results point into; `Identified`, `Apprentice`, `Magic_error` are
the functions of libmagic as MagicHandle, Classify and MagicFile establish them.
A text names the goroutine it is about, so that the answer of another's call can
be told from one's own. A call that waits for the mutex while `Close` frees the
handle goes on with freed memory (`UseAfterClose`): `dead` is set and the
process is gone. `AskPath` and `LoadDefaultPath` are `Load("")`: the static
pointer `defaultMagic` and the path `fn[g]` that a load is about to copy, which
another handle's call may free (magic.c:174). No property is about that: with one
handle the mutex keeps the calls apart, and with two the model has the race and
nothing that is promised about it.

SerialHandle is what the methods promise: a call is `Ask`ed, takes effect in one
step that also determines its answer (`Respond`), and `Back` returns. GoHandle
implements it: `Serial == INSTANCE SerialHandle WITH set <- SetsOf, req <-
Requests`, where an answer counts as soon as what the pointer points to
determines it. HandleAnswers has the vocabulary of both.

### MagicTool (bin/file.go, bin/main.go)

The one goroutine of the tool: `doing` is where `doFile` stands, and each of its
actions is an action of GoHandle together with what the tool does before or
after it. The result of the load is dropped (`Loaded`), the first error of a
target ends the tool (`GiveUp`), and `Fatalf` runs no deferred call.

### Bundle (magefile.go, magic_files/b0x.yaml)

`PrepareMagicFile`: the output is opened with `O_TRUNC` before the tree is
looked at (`Prepare`), each rule file is scanned line by line (`ScanLine`), with
a line that is too long ending its file in silence (`EndOfFile`), then fileb0x
(external code) turns the result into `ab0x.go` and `replace_string_in_file`
truncates and rewrites it (`Truncate`, `Rename`). `Fail` is an error or a kill at
any step; the next pass may be given another tree. The comment of
`magefile.go:123` speaks of empty lines too: the code keeps them, and so does the
model. `Builder.Run` is the action `Build` of GoMagic; the environment and the
names of its targets, and two runs of mage at the same time, are left out.

### GoMagic

Composes the four: passes of Bundle until a package that compiles is linked
(`Build`), then the program runs, either goroutines of GoHandle or the tool. What
`Build` links is the text that DefaultRules unpacks.

### Classify (funcs.c: file_buffer and the output buffer; ascmagic.c; magic_buffer)

The pipeline of one call. `stage` is the next detector; `Try(d)` is one block of
`file_buffer` with `checkdone`, `Skip(d)` the block of a detector that the flags
turn off, `Default` the label `simple`, `Finish` the label `done` and the end of
`magic_buffer` or `magic_file`. `out` is the output buffer, one token for each
description or separator, and the error event; `Printed` is `file_vprintf`, which
does nothing after an error and loses everything if the text does not fit. What
a detector finds is a free choice among what its code can answer; for the rules
that is what SoftMagic establishes (`SoftAnswers`: nothing is printed if the value
is 0), with what it does not exclude: under MAGIC_CONTINUE their text may
begin or end with a separator (`RaggedTexts`), they may match without a text, and
they may fail without an error (`SoftLapses`). The history variable `lapse`, which
no step reads, remembers that, so that the properties can name it. `file_ascmagic` is modelled down to what it prints behind the rules
for text; the wording of line ends is not.

### MagicFile (magic.c: file_or_fd, unreadable_info; fsmagic.c)

Extends Classify by `magic_file`. `disk` is what the name stands for, `Change`
another process that replaces it, up to `MaxChanges` times in a call. `Stat` and
`ReadLink` are `file_fsmagic`, `Open`, `Restat` and `Read` the rest of
`file_or_fd`; whatever opens is then read in one step. MAGIC_APPLE and
MAGIC_EXTENSION are one option, `silent`. Once the file is read its name is not
looked up again, so `disk` and `fd` are forgotten. The branch of `file_fsmagic` for a
symbolic link under MAGIC_SYMLINK is not modelled: `stat` does not return links.

## 3. What the runs check

| run | instance | what it shows |
|---|---|---|
| softmagic | every group of four continuations of two levels from tests, defaults, clears, and from tests, if, elif, else, defaults (1,250 databases); nine databases with cyclic named lists, indirect rules, offsets from the end, under five settings of flags and three kinds of input | the flags of a level realise the tree of rules: a continuation is examined exactly when its parent matched, a default is the last resort, one branch applies; recursion is bounded by the counters, offsets are relative to the right parent, output and value agree, separators separate, the call ends |
| softmagic_first (violation) | rules that leave through `flush` | the comment of `match()` does not hold: later groups print too |
| loader | 17,500 texts of up to five lines, among them strong, weak and default groups with annotations, one failing allocation after the other | what the interpreter takes for a group of the sorted array is one group of the text, conditions pair as the tree says, no rule and no strength is lost without an error, a default that does not sort last was warned of, the level table is large enough, the load ends |
| loader_concurrent (violation) | two handles at once | the static level makes one handle skip the enlargement of its table |
| loader_buffer (violation) | texts from a buffer | the last line is never parsed |
| handle | two calls over five paths and eight lists of paths, faults anywhere | a load depends on its arguments and files only; lists and maps agree after every failure; failures explain themselves |
| handle_warned (violation) | three loads, at most two warnings | the limit on warnings silently stops the reading of rules |
| defaults | the whole of the Go code: up to two passes over three source trees, one of them with a file that cannot be read to its end, any failure; then two goroutines that share one handle, in three programs, or the tool with 16 command lines | what compiles bundles the rules of one tree; each goroutine is given a prefix of them; methods of a shared handle look atomic, with answers about their own call; the exit status of the tool tells the truth although it drops the result of the load; every method returns |
| defaults_all (violation) | two goroutines, two blocks | not all of the rules, although nil is returned |
| compiled | two compilers in turn, one loader, four texts, over every file of three-bit counts that may be found | both sets of an accepted file are inside of it, only whole compilations are accepted, and a successful one can be loaded |
| magic_file | every kind of file, replaced up to twice, 35 settings of the flags, a buffer that may be full | one description, or a list with one separator between two unless the rules lapsed; type and encoding both and in order; the checks of the file system and the detectors do not speak together, even of a file that is replaced; a call without an answer says why, with the exceptions below |
| magic_file_builtin (violation) | the Go package's MAGIC_NO_CHECK_BUILTIN | JSON and SIMH are still recognised without the rules (CSV is not: its check, is_csv.c:141, needs the encoding that this mask switches off) |

Bounds. Two levels of continuations and four of them give every shape of
parent, sibling, and return to a lower level that `match()` tells apart; the
limits of recursion are 2 and 3 so that both are reached from both kinds of
call. Two handles, goroutines, or compilers are enough for every race on one
variable or file: a race has a step of another actor between two steps of one.
The three programs of `defaults` are: both goroutines load the bundled rules;
both use every other method; one loads and closes while the other asks. All
methods in one program would only multiply these, since what a goroutine does
before its call of `LoadDefaultMagic` is over when it locks. Two passes let one
fail where it likes and the next meet what it left. Counts are taken modulo 8, with files of up to 5 cells, so
that sums wrap. Two calls of a handle cover what one leaves to the next; the
theorems hold for any number. `MaxLoads` is only a bound on how long a handle
is followed. Two changes of a file let each of the three looks at its name see
a file of its own. Tar files, JSON and SIMH are answered alike, so the settings with
MAGIC_CONTINUE, where every detector speaks, leave out two of them.

Fairness. SoftMagic: weak fairness of the next step, as it is a loop of one
thread. RuleLoader: weak fairness of each load, and strong fairness of filing
the pending group, which says that memory is not short for ever; without it the
loop around `addentry` does not end. GoMagic: weak fairness of every goroutine
inside of a method (that it calls again is its own choice: `Begin` is not fair);
strong fairness of `Lock`, because a goroutine that waits for a `sync.Mutex` for
more than a millisecond puts it into starvation mode, in which it is handed over
in the order of arrival; with weak fairness another goroutine could take the
mutex again each time, and `MethodsReturn` would fail. Nothing is assumed of the
build.

Deadlock is checked in every run; models that come to an end have an explicit
`Done` or `Gone` step.

What the models show of the code beyond the properties:

- The enlargement of the level table is taken to succeed in RuleLoader and
  SoftMagic. If it does not, `file_check_mem` reports an error but leaves the
  handle with a greater length and no table (funcs.c:629-636), which the next
  rule of a lower level indexes: the process ends there, and the models would
  have nothing to say about what follows.
- The description of an `indirect` or `name` rule is printed by `mget`, before
  `match()` asks for the separator: under MAGIC_CONTINUE it stands next to the
  text of the group before, although the comment at softmagic.c:301-305 has the
  separator in front of every match. `MatchesSeparated` therefore speaks of
  databases in which no such rule has a description (`QuietCalls`); the
  bundled rules have some, most of them behind a rule that has printed already.
- A `use` or `indirect` rule whose test is inverted matches when its list found
  nothing. With a description it makes `match()` return 1 although nothing was
  printed, as `mprint` leaves the printing to the list: the value and the output
  disagree, and an `indirect` rule outside of it appends the text `(null)`.
  `ValueReflectsOutput` and `NoNullText` exclude that (`SpeakingCalls`); none of
  the bundled rules is of this kind.
- With flags that ask for annotations it happens with ordinary rules: behind a
  rule that has printed its MIME type, one in the list of an `indirect` rule matches
  without printing another (`handle_annotation`, softmagic.c:2566-2567), so the
  buffer put aside for it is empty, and `mget` appends `(null)` to the type (:1980).
  Nothing in the repository says what should happen; `NoNullText` speaks
  of the other flags.
- A default rule does not have a strength of its own. The comments at
  apprentice.c:941 and 1115 say that 0 is kept for it, so that it sorts last, but
  the test there raises its 0 to 1 as well, and a `!:strength` can raise it
  further. It ties with rules that match anything, and without a description it
  comes before those that have one. Nor does apprentice_load make sure of it, as
  apprentice.c:1742-1745 says: it warns. `DefaultLastOrWarned` is what is left.
- With MAGIC_CONTINUE the answer of a later detector replaces that of an earlier
  one, so that "data" follows a match when the last detector found nothing, and
  a text gets `, ASCII text` after a separator. This is why `OneDescription`
  speaks of calls without it.
- With MAGIC_MIME_ENCODING and MAGIC_CONTINUE, the only separator stays in front
  of the encoding: `trim_separator` wants one byte more than the separator has.
- Under MAGIC_CONTINUE with flags that ask for annotations, a group that has a
  description but no annotation matches in silence (softmagic.c:314-325) and
  takes back `firstline` (486-491): the next group asks for a separator first
  (2566-2568, 2582-2590), so that the answer of the rules begins with one, or two stand
  side by side behind another detector. `WellSeparated` asks for tidy separators
  when that did not happen; that two descriptions never touch holds in any case.
- The rules fail without an error when `file_push_buffer` has no memory
  (funcs.c:805-806, softmagic.c:1945-1946), when a regular expression does not
  compile and MAGIC_CHECK is off (funcs.c:754, softmagic.c:2374-2377), and when
  `regexec` fails (softmagic.c:2411-2412). `magic_file` then returns NULL and there
  is nothing for GetError.
- The other exceptions of `FailuresExplained`: no memory for the input; a file
  that vanished before it was opened; a pipe under MAGIC_DEVICES; a broken link
  when only the encoding is asked for; rules that match without printing, as under
  flags that ask for annotations they do not have; a join of two texts that lacks
  memory for its regular expression.
- Rules for text that print an extension or an Apple type and then fail without
  an error count as no match in `file_ascmagic`, so the default follows
  what they printed. `OneDescription` leaves that case out (`Botched`).
- Two handles that call `Load("")` at the same time share the static pointer of
  `get_default_magic`: the second call frees the path that the first is about to
  copy.
- `Close` while another call waits for the mutex: the model ends in `dead`, and
  `SerialCalls` speaks of what happens before that. `Buffer` of an empty slice
  panics; the deferred `Unlock` still runs, which `SerialCalls` shows.
- The `recover` of the bundled file system's `ReadFile` assigns to a variable
  that is not a named result, so `ErrTooLarge` is never returned; the model has
  no such failure.
- MAGIC_PRESERVE_ATIME is always refused, as the build has no `utimes`.
- MIME flags together with MAGIC_APPLE or MAGIC_EXTENSION give the answers of
  both; `OneAccount` and `MimeComplete` speak of one kind at a time.

## 4. What is proved

| theorem | about |
|---|---|
| RuleLoader_proofs!TypeCorrect | types, and a load stands on a line of its text, under any interleaving |
| RuleLoader_proofs!SerialLevelInBounds | one load at a time: the level table is never indexed outside |
| RuleLoader_proofs!GroupsKept | under any interleaving, filing, sorting and concatenating keep each group whole and in order |
| RuleLoader_proofs!FileLoaded | a file loaded without an error is stored with every rule once, and every strength with its own group |
| RuleLoader_proofs!DefaultWarned | a default rule that another group of its set follows was warned of |
| RuleLoader_proofs!SerialConditionsPaired | one load at a time: every elif and else of a stored group follows an if or elif of its group |
| RuleLoader_proofs!AlonePaired | a single handle needs no assumption about scheduling for that, nor for the level table |
| GoHandle_proofs!GoTypeCorrect | types of the Go package; between lock and unlock a goroutine is the one that the mutex names |
| GoHandle_proofs!SerialRefined | any number of goroutines and handles: the methods implement SerialHandle, so that each takes effect at once and answers about itself |
| MagicHandle_proofs!TypeCorrect | types, and a call that added a map reports success |
| MagicHandle_proofs!DatabaseWhole | the two lists and the allocated maps agree after every step and failure |
| MagicHandle_proofs!LoadsWhatIsAsked | a load without failures holds the readable paths of its argument, in order and whole, whatever was loaded before |
| MagicHandle_proofs!ReportedUsed, FailuresHaveErrors | rules of a failed load are never used; a load that fails has left an error |
| DefaultRules_proofs!TypeCorrect, PrefixLoaded | every goroutine is given a prefix of the rules |
| CompiledDb_proofs!TypeCorrect, AcceptedInside | whatever writes the file, the sets of an accepted one lie inside of it |
| MagicFile_proofs!TypeCorrect | types of a call, however often the file is replaced |
| MagicFile_proofs!OneAnswer | without MAGIC_CONTINUE an answer is one description, or that of the rules for text and of `file_ascmagic` together, unless the rules fail in silence under MAGIC_APPLE or MAGIC_EXTENSION |
| MagicFile_proofs!AnswersSeparated | descriptions never touch, and unless the rules lapsed one separator stands between two of them and none at the ends |
| MagicFile_proofs!AnswersComplete, AnswersAgree | type and encoding both and in order; file system and detectors never speak together, even about a file that is replaced |
| MagicFile_proofs!FailuresHaveReasons | a call without an answer says why, with the exceptions of section 3 |
| SoftMagic_proofs!TypeCorrect | types of match(), and every activation stands inside of its list, for any database, flags and input |
| SoftMagic_proofs!RecursionStays | cyclic named lists and indirect rules never make match() nest deeper than its two limits |
| SoftMagic_proofs!ParentsDecide, DefaultsComeLast, BranchesExclude, OffsetsFromParents | the level table realises the tree of every list: continuations follow their parents, defaults are the last resort, one branch applies, relative offsets are the parent's |
| SoftMagic_proofs!OneGroupIsDescribed, MatchesAreSeparated, ValueTellsOutput, TextsExist | what match() prints: one group without MAGIC_CONTINUE, separators with it, a value that agrees with the output, no text of an empty buffer |
| CompiledDb_proofs!WholeCompilations, CompilationsLoadable | compilers in turn: a loader accepts whole compilations only, and can load a successful one |
| GoMagic_proofs!BuildsAreFaithful, ProgramsBundleATree | whatever passes of the build failed before: what compiles bundles the kept lines of one tree, and that is what the program has |
| GoMagic_proofs!ToolTellsTheTruth | exit status 0 of the tool means that each target was described by a database |
| GoMagic_proofs!SystemIsSerial, SystemTypes, SystemLoadsPrefix | the theorems about the Go package hold in the composed system, with linked rules and the tool |

They hold for every value of the constants that satisfies the assumptions
`LoaderAssumption`, `HandleAssumption`, `NullAssumption`, `DefaultsAssumption`,
`GoAssumption`, `BundleAssumption`, `ToolAssumption`, `CompiledAssumption`,
`FilesAssumption`, `ClassifyAssumption`, `FileAssumption`, `ParamsAssumption`,
`SetupsAssumption` and `GroupsAssumption` of the modules. The last five theorems
of RuleLoader have one hypothesis more, `LevelsFit`: no text has a level that
the 8 bits of `cont_level` do not hold (`parse()` counts the `>` of a line in 32
bits, apprentice.c:2183-2184, and stores the count in a byte, :2220 and
file.h:234). A continuation 256 levels deep would be stored with level 0 and
taken for the first rule of a group. The runs' levels, 0 to 3, satisfy it.

The arguments. *SerialLevelInBounds*: while a handle has a group pending, the
static level is the level of its own last line, and is below the length of its
table; a deeper line enlarges the table first. This ties the static variable to
one handle, and is what concurrent loads break.
*GroupsKept*, *FileLoaded*, *DefaultWarned*: `OrderInv` is about the loads under
way (`TextInv`) and about those that ended (`ResultsOK`). While a load has no
error, every rule line that it has read is in exactly one group, filed or
pending; a group is the lines from its first to the next rule of level 0; no two
have the same first line; a strength that was read is that of the group it stands in (`TextOK`). What
`apprentice_load` makes of these groups is stated by lemmas about RuleOrder's operators: sorting
is a bijection that leaves each group as it is; `Coalesced` places group after
group, each at the sum of the lengths before it, so that the first rules of the
array are those of the groups, and what the interpreter takes for a group there
is a group that was filed; the scan for default rules warns of every one
that is not the last; warnings of a handle are never taken back while it is
open. No part of `OrderInv` mentions the static level, so concurrent loads leave
it alone. *SerialConditionsPaired*: `CondsInv` adds what `check_cond` knows. While a
group is pending, the static level is that of its last rule, each entry
of the level table up to it is the condition of the last rule of that level
under the rules that are still open, and a deeper level starts from `none`
(`CondOK`, `TableOK`, `Tells`); a line that `check_cond` accepts therefore pairs. With
concurrent loads it is false, as TLC finds on `Spec` with two handles: the static level left by another
handle lets `parse()` skip the reset of the table, and an elif is accepted after
the if of an earlier group. The theorem is about `SerialSpec` for that reason, and about
`Spec` when there is one handle. *DatabaseWhole*: the property is
inductive once the call under way is not in the crashed state; the part that
needs care is `Abandon`, where the first list already owns the new map.
*PrefixLoaded*: every block, in the file and in every copy of it, is in its
place or is a gap of zeros, which no truncation disturbs. *SerialRefined*: the
invariant says what a goroutine knows of its handle at each place of its method:
a pointer it holds points to a text about its own call, or to the text of the
error that is recorded; a handle without an error event has no error text left
except where `Clear` stands between. As the handle is changed only by the
goroutine that the mutex names, every step maps to a step of SerialHandle or to a
stutter. *AcceptedInside*: the
counts are read from a header whose words are below 2^32, each is at most the
number of cells read, so their sum cannot wrap to a smaller one.
*WholeCompilations*: while a compiler is between two writes, the file is the
part of the image that it has written; a header announces more cells than the
file has until the last write; a loader's size and content agree only at the
end. *OneAnswer*: without MAGIC_CONTINUE nothing
is described before the detector that ends the call, so each stage but `done`
has a buffer without descriptions, and a detector that says no leaves none. *RecursionStays*: the state has two counters
and the stack of activations, and the limits test only the counters. The
invariant `MatchInv` ties them: the first activation was called by file_softmagic
and every other by a use or an indirect rule, every activation but the last
stands on the rule that called the next one, the counter of named lists is
exactly the number of activations that use rules made, on every way out of them,
and the counter of indirect rules, which is never taken back, is at least the
number of the others. A rule at its limit pushes nothing.
*ParentsDecide* and the three after it: `TreeInv` says of each activation that
the rules it has open form a path, one for each level up to the current one and
each the parent of the next, and of each entry of the level table what it knows
of its row: the offset is that of the open rule of its level, `got_match` and
`last_match` that of the siblings passed since. An activation called by a use
rule keeps the same about its caller in the table it has put aside; an indirect
rule shares the table and spoils that of its caller, which is marked
(`clobbered`) and about whose offsets, defaults and branches nothing is said.
*OneGroupIsDescribed* and the three after it: an indirect rule puts the output
buffer aside, and the rules it calls begin with an empty one, so what has been
printed lies in pieces in the activations of the stack. `PrintInv` says of all of
them at once: an activation's value agrees with what it and those it called have
printed so far, in its own buffer or in one put aside for it (`Answered`,
`Linked`, `Voiced`, `Hushed`); no piece holds the text of an empty buffer
(`NullsOK`); each piece is about the current group (`GroupOK`), and the first
activation has found nothing when it begins another (`Fresh`); with
MAGIC_CONTINUE the pieces, put together in the order of the stack, are one text
whose groups are parted and which is ready for the next one (`SepOK`: `Whole`,
`FullOK`), for which a group that spoke must have asked for its separator
(`SpokeOK`). When an activation gives up without an error, those below it end as
well, their buffers come back one after the other, and the output of the end is the
first of the pieces: of that only `Lost` is known, which is enough for the
properties. It is proved beside `MatchInv`, one lemma for each
way in which an action changes the stack (a rule that goes on, a call, a return,
another list of an indirect rule, a flush), and was found with TLC on the setups
of the run `softmagic` first.
*LoadsWhatIsAsked*: `LoadInv` follows a call through its loop: what the lists
hold is what the paths passed so far gave (`UnderWay`), each map is whole
(`WholeFiles`), and an error that is recorded or a list that was lost is one the
call will report (`Reported`). *AnswersSeparated*, *AnswersComplete*,
*AnswersAgree*: `AnswerInv` gives the shape of the output buffer at each stage
(what may be in it, whether a separator is due), with `Loose` for the answers of
rules that lapsed, and `FailInv` the reason that has
been recorded at each way out without an answer. *BuildsAreFaithful*: `PassInv`
says what the output of the pass under way has of the tree, `BuildInv` that a
package which compiles was renamed after a pass that ended. *ToolTellsTheTruth*:
`ToolInv` ties the place in `doFile` to the handle's database and recorded error.
`SystemInv` has these together with the invariants of GoHandle; as each action
of GoMagic is one of the components with the others unchanged, their proofs are
cited and not repeated.

Model-checked only: liveness (`LoadsEnd`, `MethodsReturn`, `Terminates`), which
needs ENABLED and fairness. What a RECURSIVE operator computes cannot be proved
with the provers used here, nor do the library's induction theorems apply;
such operators stay in modules that only TLC evaluates. `Coalesced` is a
recursive function for that reason, and what is proved of it goes by the least
length for which it would fail (lemma `Least`).

## 5. Not modelled, and the plan

In this order:

1. an abstract database (a set of rules in force, replaced by a load that
   succeeds, emptied by one that fails) that MagicHandle implements, and an
   abstract tree match that SoftMagic implements;
2. pure algorithms checked against a reference over bounded inputs, several in
   one composite run: offset arithmetic (`mget`, `moffset`, `do_ops`), `getstr`,
   the choice of text and binary tests (`set_text_binary`), tar checksums, CSV, SIMH, JSON, DER lengths,
   encodings, format checks (`file_checkfmt`);
3. compound documents: sector chains and property sets; the input buffer.

Left out for good: the third-party replacements of C library functions
(`regex.c`, `vasprintf.c` and others), formatting of values, debug output, the
parts that this build does not compile, the variant of `get_default_magic` for
Windows, and the functions of `ab0x.go` that have no caller (`WriteFile`,
`WalkDirs`, `HTTPFS.Open`).
