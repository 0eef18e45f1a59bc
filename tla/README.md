# Verification of ptkl (Partikle)

This directory holds TLA+ models of the ptkl sources, TLC configurations that
check them on small instances, and theorems that TLAPS proves for every value
of the constants. Paths below are relative to the repository root, which the
project file calls `src/`.

## The system

ptkl is a C program, a command line with subcommands, an interactive admin
console, and a library of containers under both; next to it, under `x/`, stand
the proof-of-concept programs it grows from: a JavaScript compiler and a runtime,
both around QuickJS. All are single threaded. What is hard about them is not
concurrency but long sequences of legal calls over shared
mutable structures, allocation failures in the middle of an operation, global
state of the C library (`optind`, a permuted `argv`), and user input in any order.

| component | files | state | operations | hard part | what makes it correct |
|---|---|---|---|---|---|
| map | `libstd/src/types/map.c` | `capacity`, `size`, buckets of chained nodes | init, put (with resize), get, delete, free, keys/values/items | relinking chains during a resize; allocation failing after the resize; bucket index depends on the capacity | it is a dictionary: no key lost, moved where lookups miss it, or doubled |
| vector | `libstd/src/types/vector.c` | `capacity`, `size`, the block | init, add, set, get, delete, free | `capacity` is written before `realloc` can fail | it is a sequence and stays in its block |
| list | `libstd/src/types/list.c` | `head`, `size`, nodes | init, add, get, delete, free | the `next` field of a new node is not written | it is a sequence, frees every node once |
| stack | `libstd/src/types/stack.c` | `head`, `size`, nodes | init, push, pop, peek, free | allocation failure | last in, first out, frees every node once |
| command tree | `libcli/src/command.c`, `ptkl/src/commands/help.c` | commands with a parent, a map and a vector of subcommands, flags, settings | new, add, set_group, flag, set, get, free; help | the map and the vector are filled separately and disagree on duplicate names | what is found is listed; help shows each command once under its group; settings are inherited |
| command run | `libcli/src/command.c`, `ptkl/src/ptkl.c` | pending callbacks, unhandled flags, args, errors, `ok` | parse, dispatch to a subcommand, callbacks, handler, reporting | getopt's own state; flags of two commands on one line; errors pushed at one level and printed at another | the words reach the handler they name; a failure is reported; nothing runs twice |
| console | `libconsole/src/console.c`, `ptkl/src/commands/console.c` | typed text, command line, status and the status an error hides, completions | one handler per key | five keys update four related fields; ownership of the matches | Enter runs what was typed; the status bar tells the truth |
| log, panic, signal handlers | `libstd/src/log.c`, `libptkl/src/libmain.c` | which handlers are registered, the handlers that run on top of each other | register, panic, report a fault, exit | a fault inside the report of a fault; malloc's lock held by what was interrupted; the terminal in curses mode | a fault comes to an end; the terminal is given back on every other way out |
| strings | `libstd/src/types/strings.c` | the text of a string | new, set, cat, trim, slice, clear, free over sds | an exclusive end on top of an inclusive one | a slice holds what its header says |
| buffer | `libstd/src/types/buffer.c` | none | an empty file | none | not modelled |
| compiler and engine | `libqjs/src` | none | stubs that print a line | none | not modelled |
| subcommands | `ptkl/src/commands` | none | stubs that print their args | none | their names, flags and groups are `PtklCommands`; the handlers are CommandRun's |
| x: compiler | `x/ptklc.c` | lists of C names, declared modules, modules to initialise; the C file | options, files, imports, output, cc | modules that import each other, a file named and imported, a name taken; a child that dies | the generated program runs the named files in order, with what they import |
| x: runtime arguments | `x/ptklcli.c` | position in `argv`, options | one scan | clusters, options that take the next element, a script's own options | the script gets its line untouched |
| x: tracing allocator | `x/ptkl.c`, `x/qjs/ptkl.c` | blocks, `malloc_count`, `malloc_size`, `malloc_limit` | malloc, free, realloc | usable sizes differ from requests; unsigned totals | the books balance, the limit holds |
| x: runtime | `x/qjs/ptkl.c` | the engine, what is left to evaluate, the exit status | configure, evaluate, free | several ways out, one of them by `goto` | the status tells what ran; everything is given back |
| x: command line of the next runtime | `x/ptkl.c`, `x/ptklcli.c` | lists of options, arguments and subcommands, the set of options met, the buffer of a usage line | add, run, scan, help | the recursion must meet every option of the tree and compare each with all before; a usage line has to fit its buffer piece by piece | a tree is accepted exactly if its options are unambiguous; a usage line is whole if it fits |
| x: argument parser | `x/args.c` | three strings, a map of commands, a vector of arguments | new, add a command, parse, destroy | answers of `map_put` and `vector_add` are ignored | the arguments are the line |
| x: dynamic string | `x/dstring/dstring.c` | a reference count and a text per string | new, addref, release, free, dup, clear, len, cat | a string whose text could not be allocated is counted in one direction only | the count is the number of references |
| x: results | `x/results/results.c` | none | constructors and printing of a tagged union | none | not modelled |
| vendored QuickJS and sds | `x/qjs`, `libstd` | | | | external |

They interact by calls only. `main` builds the command tree, then calls
`command_run`, which reads it through map and vector, calls getopt, and calls
back into flag callbacks and command handlers. A handler may push errors on its
command's stack. The `console` handler owns the terminal until `quit`; the
console calls back for completions and for commands. The runtime and the compiler
call QuickJS, which calls back for modules (`jsc_module_loader`) and for memory
(`js_trace_malloc` and its companions). The argument parser stands on the vector, the
map and dstring; a fault anywhere in ptkl calls back into the handlers of `log.c`.

## Modules

| module | models |
|---|---|
| `Dictionary` | what a map promises, an abstract specification |
| `HashMap` | `map.c`: every call, with `map_resize` cut into one step per node |
| `HashMapWalk` | `map_keys`, `map_values`, `map_items` |
| `Djb2` | `hash`, its low 16 bits: all a bucket index depends on while capacities are powers of two below 2^16 |
| `Sequence` | what a list, a stack and a vector promise, an abstract specification; `Offers` names the operations each of them has |
| `Nodes` | following `next` fields through memory |
| `Subsequence` | what a loop over an array copies when it skips some of its items |
| `LinkedList`, `Stack`, `Vector` | the three containers, each shown to implement `Sequence` |
| `SharedHeap` | a `LinkedList` and a `Stack` over the same malloc |
| `ContainerProofs` | theorems about `HashMap`, `HashMapWalk` and `SharedHeap` |
| `CommandTree` | building, reading and freeing the tree, and what help lists |
| `CommandTreeProofs` | theorems about `CommandTree` |
| `CommandRun` | `command_run` from main's call to its exit status |
| `CommandRunProofs` | theorems about `CommandRun` |
| `PtklCommands` | the commands, flags and groups of ptkl itself |
| `ConsoleCommands`, `Console` | command matching, and the line editor |
| `Panic` | `panic` and the signal handlers of `log.c` |
| `ConsoleSession` | a process that runs the console: `Console` and `Panic` under ptkl's main |
| `ConsoleProofs` | theorems about `Console` and `ConsoleSession` |
| `DString` | `dstring.c`: references, their counts, and whether there is a text |
| `Cli` | `args.c`, over a `Vector` and a `DString` |
| `CliProofs` | theorems about `Vector`, `DString` and `Cli` |
| `Strings` | `strings.c`: one string and the calls that change it |
| `Compiler` | `compile` of `x/ptklc.c`, from its options to its exit status |
| `RuntimeArgs` | `parse_runtime_args` |
| `TraceMalloc` | the tracing allocator |
| `Runtime` | the runtime's `main`; extends the two before it |
| `PtklQjs` | `main` of `x/qjs/ptkl.c` as a whole: `Runtime`, or `Compiler` for a line that begins with `compile` |
| `PtklQjsProofs` | theorems about `PtklQjs` and its parts |
| `CliOptions` | the command tree of the next runtime and `ptkl_cli_run` |
| `CommandHelp` | the usage lines its help shows; extends `CliOptions` |
| `CommandHelpProofs` | theorems about `CliOptions` and `CommandHelp` |
| `DataProofs` | lemmas about numbers, sequences and recursive functions that the proofs share |
| `MC...` | instances for TLC |

A definition named `Mut...` is a mistake a maintainer could make in the
definition that follows it. Replacing one by the other must break the property
PROJECT.json pairs it with, which shows that the property constrains the code.

### How the state corresponds to the code

*HashMap.* `buckets` and `newBuckets` are the two arrays of `map_resize`, each
bucket a sequence of nodes, head first; `index` is its loop variable; `pc` says
where `map_put` is. `map_put` is cut at the loop of the resize, so the
intermediate states in which a chain is half moved are states of the model, and
the invariants are about them as well.

*LinkedList, Stack.* Memory is a set of addresses; `data` and `next` are the
fields of each, `live` is what malloc handed out. `list_add` does not write the next
field of its new node: `Fresh` lets it be null, `Wild`, which is no address, or what the
memory held when it was freed, the address of any node. A walk that leaves the list's own
nodes so either meets null somewhere else and goes on there (`walk` is "strayed": a node of the
stack may then be linked or freed by the list) or may crash ("crashed"). The model stops at
either, and the properties speak of what happened before. Each container offers the
abstract `Sequence` only its own operations: the list and the vector add at the end, the stack
at the end it takes from.

*Vector.* `block` is how many items the block really has room for, `capacity`
what the struct believes. `refused` remembers that malloc or realloc ever found no memory.
`vector_add` goes by `capacity`: after a refusal it writes past the block, counts the item and
answers true (`VectorAddOverruns`), and `size` is then larger than `block`; the model stops
behind that write, which is undefined.

*CommandTree.* `commands[p][n]` is the map and `ordered[p]` the vector of a
command. `map_put` and `vector_add` may each find no memory, and `command_add` looks at the
answer of neither, so an addition has four outcomes; `unmapped` and `unlisted` remember
the commands that were refused, which only the property reads. `Listing` is the
text help prints of the commands, a line per heading and per command; its recursion is
help's second loop, in which a group is shown at its first command.

*CommandRun.* `path` is the stack of active `command_run` calls. `rest`,
`letters`, `skipped` and `previous` are getopt's position: what follows `optind`,
what is left of a cluster, the words it moved behind the flags, and the element
that `argv[optind - 1]` is while a cluster is being read. Callbacks and handlers
are the program's: they may push an error or not.

*Console.* A key is one step, all of `console_handle_input`. `typed`, `cmd` and
`status` are the three texts. The completion handler may answer nothing at any
time, as `malloc` may fail in it. `windows` are those `console_init` could make;
`console_cleanup` and the return are one step.

*Panic, ConsoleSession.* `frames` is the stack of handlers, each with where it is:
reporting, in `backtrace_symbols`, printing, exiting. `signal` masks a signal while its
own handler runs, so a fault inside a handler stacks another handler if its signal
differs and kills the process if not; `locked` says that something interrupted holds
malloc's lock. `main` is where ptkl's main is. The console's own null pointer is one
more fault (`ConsoleCrashes`); Ctrl-C is ncurses's (`Interrupt`).

*DString, Cli.* `strings` maps each allocated string to its count and whether sds
gave it a text, `ref` each variable that may point to one. `starved` says that sds ever
found no memory; what the program may read then is in `process`. `todo` is what
`cli_init`, `cli_add_command` or `cli_free` have yet to make or free; the commands' map
is the set of those it holds. `before` is what `cli->args` held when `cli_parse`
began, which only the property reads.

*Strings.* `s` is the text; `sliced` remembers the last slice, which only the property
reads.

*SharedHeap.* `data`, `next` and `live` are one memory; a node either container
frees may be the next the other is given. The two are instances of their modules.

*Compiler.* `code` is `cname_list` with the file each entry came from, `frames`
the stack of compilations QuickJS is in, the innermost last, and `loaded` the
modules it knows: an import it knows is not loaded again, also while it is still
being compiled. `cfile`, `built` and `phase` follow the C file, cc and the child.
A C name is a stem and the numbers `find_unique_cname` appended to it, so that a name with
a suffix may collide with a file's own name.

*Runtime.* The command line is a sequence of elements of five kinds; `rest` is
`argv` from `optind`, `left` what `arg` and `longopt` still hold. `todo` and
`evaluated` are what main has yet to run and has run. The heap of `TraceMalloc`
changes while code is evaluated, if the line asked for `--trace`. What malloc
hands out is up to `Rounding` larger than the request.

*CliOptions.* `options` and `subcommands` are the lists of each command, in order;
`pending` and `left` are what the recursion of `scan_command_options` and its loop
have yet to visit. Options and commands may be added in any order, as the header
allows and `main` does. *CommandHelp* uses the same two for the commands and the
arguments `print_command_help` and `get_command_usage` have yet to show, and `used`
for the length of the usage line; a text is its length.

*PtklQjs.* The line decides in its first element which of the two parts runs; the
other part stays in its initial state.

## Runs

Passing runs:

| run | instance | shows |
|---|---|---|
| `map` | four of ptkl's command names with the code's own hash, initial capacity 2, one value besides null, any call in any order, any allocation failing | all of the map's invariants at every step of a resize, and that it implements `Dictionary` |
| `console` | three commands, two with a common letter, a buffer of three characters, two signals | the line, the completions and the status bar agree with what was typed; `quit` ends the process; a fault ends it too, however many faults its report has; the terminal is given back on the other ways out |
| `command_run` | ptkl's own commands, a subcommand without a handler that has one below it, and flags that exit, take an argument, have no callback, have only a long name; every line of up to four common elements and up to three of any kind | no failure unreported, no handler with the wrong words on a plain line, callbacks before handlers, nothing twice, main returns |
| `list_and_stack` | a list and a stack on three nodes, two items | each is the `Sequence` it should be, the stack last in, first out; every node has one owner, none is leaked or freed twice; all of it until a walk of the list strays |
| `arguments` | initial capacity 2, memory for 4; three fields, one command, three variables of the program's own; lines with and without an empty element | the arguments are the line, the vector the `Sequence` it should be and, until memory is refused, inside its block, reference counts right until a text is lost |
| `command_tree` | four commands, two names, two groups, one key, two values | lookup and listing agree but for what was refused or hidden by a later command of the name; groups in any order; settings are inherited |
| `runtime` | every runtime line of up to three of seventeen elements, and a few with the rarer options; two blocks, requests of 1 and 2, an overhead of 1 and a limit of 4 or none; compiler lines of up to two options and two of eleven files, three of them a cycle of imports and two of one C name | the script's part of the line, the exit status, the allocator's totals and limit, the return; what the generated program runs, that imports are there when they are needed, which names are unique, and that it comes back |
| `cli_options` | three commands in any tree, four options and two arguments on any of them, two options with a common letter, two with a common long name and two without one; a buffer of 12 | ambiguous options are found, however far apart, and only those under the root; a usage line that fits is whole and another is elided, unless the arguments shown fill the buffer |

Bounds. Four keys and an initial capacity of 2 make the map resize twice and
chain up to three nodes in a bucket, and deletion at head, middle and tail all
occur; the hash of the four names puts three in one bucket before a resize and
separates them after it. A buffer of three characters holds every name and one
letter more, so the full buffer and the unknown command both occur. Four
elements on a command line allow a flag before and after the subcommand's name,
an argument and a "--". Three nodes give deletions at the head, in the middle
and at the tail of a list, and give each container the other's. Memory of twice the
initial capacity lets one growth succeed and the next fail. Four commands give a
tree three levels deep and a duplicate name. Two files on the compiler's line may be
a module and one that imports it, in either order, or the same file twice. Three
elements allow an option, its argument and a script, and two includes in one
cluster exceed `MaxIncludes`. Two blocks let realloc move one and be refused over
the other. Two signals let one handler be interrupted by another and that one be killed
by either. Three variables of its own let a program release one reference too many in
any order; it uses them before `cli_new`, which it calls only after giving them back and
while no text was lost, since the two share nothing. A new string takes the lowest free
cell. The lengths of names make a usage line that fits, one that fits exactly, one
that fills the buffer before its last argument, and one that is elided.

Symmetry is used for nodes and for commands, in runs without liveness.

Each violation run checks one property that a comment, a header or a test of the
repository states and the code does not keep; PROJECT.json's findings quote it:

| run | property | in short |
|---|---|---|
| `console_crash` | `NeverCrashes` | an unknown command over an empty status bar duplicates a null pointer |
| `exit_flag` | `ExitFlagStopsTheRun` | `ptkl -v run` runs `run` and prints no version |
| `list_crash` | `NeverCrashes` | an unwritten `next` is followed |
| `slice` | `SliceExcludesEnd` | `string_slice (s, 0, 0)` keeps a character |

Other divergences were met while reading. The models behave like the code in these
points unless it says otherwise; no run is spent on them.

* `console.c:299`: DEL that leaves one match drops the array of matches, which the
  same case of a letter key frees (`:384`).
* `command.c:418`: an unknown letter inside a cluster records the element before the
  cluster as the unhandled flag.
* `command.c:578`: with subcommands and a word that names none, the handler runs
  although flags were not handled; the comment at `:467-473` says it does not.
* `command.c:434`: a flag with a short name and no callback is "unexpected";
  `command.h:140` calls the callback optional.
* `command.c:382`: of two flags without a short name, the second calls the first.
* `command.c:533`: an element behind "--" that looks like a flag is handed to the
  subcommand without the "--" and read as a flag there.
* `command.c:220`: neither answer is looked at, so a command may be found and not listed, or
  listed and not found, and the program is not told.
* `command.c:599`: a callback that exits makes the run a success although errors are on the
  stack, and they are never printed.
* `vector.c:39`: a failed growth leaves the capacity doubled over the old block, and
  later additions write behind it, count and answer true (`VectorAddOverruns`).
* `command.c:220`: a command whose name was added again is not freed, although
  the comment at `:132-133` takes it for freed.
* `command.c:143`: a setting that is set again is not freed (not modelled).
* `help.c:60`: a flag with only a long name is shown as "-" (not modelled).
* `ptklc.c:379-382`: the wait for cc never ends if a signal killed it, nor may it
  after a failed fork, whose status is read from the stack, so that compile may
  report success with nothing built; `:307`: two named files of one C name are both
  written.
* `console.c:105`: if a window cannot be made, `console_init` fails without `endwin`; the
  caller takes that for a console that was left, and the process exits with success. The
  command window is never deleted.
* `log.h`, its second note, sends all logs to stderr; `log_info` prints to stdout (not
  modelled).
* `args.c:130`: an empty argument ends `cli_parse`, and its answer is true; `:132`: an
  argument that found no memory is missing from them, and its answer is true.
  `cli_destroy` frees neither the cli nor the commands with their strings, and frees the
  others whatever their counts.
* `dstring.h` says that `dstring_cat` returns a new string and frees the old one; it is
  updated in place. `dstring_cat (s, s)` may read the text where it was before sds moved it.
* `ptklcli.c:316`: the comment at `:303-304` promises " ..." after the command's name for a
  usage that exceeds the buffer; where the closing bracket of an argument that is not the last
  takes the buffer's last character, the usage ends there, without its other
  arguments and without " ...". `UsageIsCutToFit` states this case beside the two the comment
  speaks of. `:341` does not cut a name longer than the buffer leaves room for
  (`HelpAssumption` rules it out). `:390` measures a long option that may be null
  (`HelpCrashes`).
* `strings.c:128` treats a negative end as included, which the test at
  `string_test.c:95` relies on and the header does not say.
* `results.c` never sets a result's type (not modelled).

Deadlock checking is off where the system really stops: a console that returned
or crashed, a command line that exited, a freed tree, a container after a walk that strayed or
crashed, an overrun or its final free, a compiler or a runtime that exited or waits for ever, a
command line whose scan returned or whose help crashed, an argument parser
that was destroyed, a process that ended or hangs.

## Fairness

`CommandRun` assumes weak fairness of its steps: a call in a single-threaded program
runs to its end, with the assumption that handlers and callbacks return.
`ConsoleSession` assumes it of `Close`, of `MainReturns` and of the steps of a
handler: the user owes the console no key, but once `quit` has cleared `running` the
loop falls through, main returns, and a handler that was entered goes on. No fault is owed,
and the steps of a handler may be interrupted by further faults, of which there can be no
more than signals.
The containers have no liveness property: each call but `map_put` is one step, and the
refinement of `Dictionary` says what that one does if it ends, as its loops over
finite chains must. `PtklQjs` is
fair to the compiler's next step, cc included, which ends or is killed, and to main's
return behind it; of the runtime only to its own steps (`FairSteps`), the scan of the
line and the way from a status to the return: that the code it evaluates ends is not
assumed.

## Proofs

TLAPS checks the following for every value of the constants that satisfies the
modules' named assumptions. Every invariant a passing run checks is stated by a theorem,
and so are the action properties and the refinements, but for `Strings`.

`DataProofs` has the lemmas the others share. `Recursion` says that what a function defined
along a count is exists, and `Counting` is induction up to a bound, from well-foundedness
of the naturals: together they let a proof unfold a recursive function of a model and
follow it. The lemmas about `Picked` say what a loop that skips some items copies.

`ContainerProofs`, *the map*: `TypeOK`, `WellPlaced`, `NothingLost` and `LoadBounded` are
invariant and `HashMap` refines `Dictionary`. None of the invariants is
inductive alone. The inductive one, `IInv`, adds what holds in the middle of a
resize: buckets before `index` are empty, no key is in both arrays, the node to be
inserted was not looked at yet, and keys in one chain are distinct, without which
an update or a deletion, which stops at the first match, would leave a second
node behind. The proof has one lemma per action. Nodes are compared as the set
`Nodes`: lemmas `Pushed`, `Unlinked` and `Updated` say what the three changes to a
chain do to that set, `SearchIsExact` that the walk finds the node if there is
one. For the refinement `Contents` is the function that set stands for; a step of
the resize leaves it unchanged and maps to a stutter. `WalkIsExact` follows from the
invariant alone: what map_keys writes is the chains one after the other, which hold no node
twice and together all of `Nodes`, and those are `size` many.

`ContainerProofs`, *list and stack over one malloc*: `EachNodeHasAnOwner`, and both refine
`Sequence`. The models follow `next` fields, so the invariant names the sequence they lead
through: a `Chain` is a sequence of distinct nodes of which each leads to the next, from
`head` to null or, for a list, to whatever a field nobody wrote holds, the address of one of the
stack's nodes or of its own included. All three theorems speak of the time before a walk
strays or crashes: a walk that meets exactly the list's own nodes is a sound one. `TwoChains` says that the list's
and the stack's share no node and together are what is live. A walk returns its chain
because no chain is longer than there are addresses, which needs its nodes distinct. There
is a lemma for each call: what it does to the chain it is about, and that the other chain,
whose nodes it does not touch, stays one. The view of a state as a `Sequence` is then the
data along its chain.

`CliProofs`, *the vector*: `TypeOK`, `WithinBlock` and the refinement of `Sequence`.
Its invariant relates the three numbers: `size` is at most `capacity`, and until memory is
refused `capacity` and `block` are the same; after a refusal one addition may overrun the
block, and the model ends with it. `WithinBlock` therefore says that `size` exceeds the block
only after a refusal, and the refinement of `Sequence` goes up to and with the overrun.
*The dstring*: `CountsItsReferences` for any number of variables and
strings. The invariant needs only the types beside it: what each step adds is who holds the
string it is about, so the proof counts holders, adding or removing one variable from a
finite set. It speaks of the time before sds first runs out of memory; `dstring_addref`
breaks it after that.
*The cli*: each of its steps is a step of the vector or a stutter, and one of the dstring or a
stutter, so a behaviour of `Cli` is one of `Vector` and of `DString`, and their theorems
carry over. `ParseAddsTheLine` holds because a vector that could not grow never grows again:
`block <= capacity` is kept, so a vector whose block is as large as its capacity when
cli_parse returns was so at each element.

`CommandTreeProofs`: `FoundIsListed`, in both directions: what is found by a name is listed
unless `vector_add` refused it, and what is listed is found unless `map_put` refused it or a
later command of the same name hides it. Its invariant adds that a struct not
yet handed out is in no map and no vector (`KnownAreLive`), without which `command_add`
could change the name or the parent of a command that is already found, and that what is listed
has a name (`ListedHaveNames`). An addition only ever appends to a vector (`ListGrows`) and
changes one name of one map (`MapGrows`), each unless refused.
`ListedUnderItsGroup` adds that a vector has no command twice. The text help prints is then
followed command by command (`Shows`): after i of them it has each command of no group or of a
group of one of the i exactly once, below its heading, and no other; a section that is
printed has exactly its group's (`SectionShows`), and a text that goes on keeps what it
shows (`TextGoesOn`). `SettingsInherited` needs that the way up from a command ends at the root
before it has taken more steps than there are commands. The invariant `UpEnds` says so by
ranks: the commands can be numbered so that a parent comes before its children, since
command_add's new command comes last.

`CommandRunProofs`, for trees of any depth: `FailureIsReported`, `CallbacksFirst`
and `NothingRunsTwice` follow from `IInv`. It says which levels may hold errors at each `pc`:
before the end only the innermost, and then only the levels that are still active,
of which one that failed keeps its errors or printed them; that the callbacks before `next` were called; and that a handler or a flag
that exits leaves only the way out. `SuccessRanOneHandler` and `HandlerGetsItsWords` need
`WordsInv`, about where on the line each level reads. main's command_run is at a position
p of the line, and what getopt skipped are the words it keeps of the first p - 1 elements.
The commands on the path are each other's subcommands, and the second is the one the line
names. `HandlerGetsItsWords` is about plain lines (`Plain`): no cluster has a letter main does not
know before the letter that takes the rest of it, and behind a "--" there are only words. On
other lines the code passes on the wrong element (`command.c:418`) or reads what was behind
the "--" as flags. On a plain line a subcommand's rest is words followed by flags, of which one
may take another, and those words behind the ones skipped are the words of the line from its
own depth on.

`ConsoleProofs`: the five properties of the line editor from `TextInv`, which
adds that the status an error hides is never itself an error (`NoErrorIsHidden`): the next
key restores it, and would otherwise leave an error on display that hides nothing. `TerminalIsGivenBack` from `TerminalInv`, whose point is
that the terminal is in curses mode only inside the console, or after a return that left
out `endwin` because its last window was missing.

`PtklQjsProofs`, *the runtime*: `ScriptGetsItsLine`, whose invariant counts: after n options
the scan is at `After[n]`, and inside a cluster it is as many elements further as the
letters so far have used up. `BlocksAccountedFor` compares the allocator's total with a
set that has one member per byte, so a block more or less is a disjoint union or a
difference; `LimitHolds` is read off that. `StatusTellsWhatRan`: what was evaluated and what
is left make up what the line named. *The compiler*: `RunsWhatWasNamed`, from the order of
the files of the line in `code`; `ImportsAreAvailable`, whose invariant says of each file
being compiled that what it imports is known to QuickJS or still to be asked for, and of
what QuickJS knows that it is written, being compiled, declared or shared, which a cycle
does not break; `LoadedModulesAreNamedApart`, because of one number more than there are
entries one is free.

`CommandHelpProofs`: `UsageInBuffer`, that `get_command_usage` writes within its
buffer, for any size of it and any arguments. The invariant adds that what help has yet
to show is a list of commands, not empty while a line is put together, because only a
command's name is known to leave room for the ellipsis. `UsageIsCutToFit` adds that `used` is
the length of the usage up to the argument that comes next, which only grows; where the loop ends
tells the three outcomes of `UsageIsCutToFit` apart.
`AcceptsUniqueOptions`: what is under a command is the least set that has it and with each
command its subcommands, and the scan's invariant says that each command scanned or pending
has its one parent among those scanned, so no command is met twice and, once none is pending,
all under the root were; and that the options met so far do not clash.

Assumptions, all of them `ASSUME`s of the modules, which TLC evaluates in a passing run:
a hash is a natural number and initial capacities are positive; the values that stand for null
or for no answer are not values; commands, options, variables and addresses are finitely many;
a command of the tree has one parent and the flags of a command are a list; a line
is a sequence of elements of the kinds named; an option's number is one; no console command
abbreviates another and each fits the buffer, as ptkl's do; a command's name is
at least five characters shorter than the buffer of its usage; a file has a C name
and its imports are files.

Only model-checked: liveness (`QuitReturns`, `FaultEnds`, `MainReturns`, `ComesBack`), since
fairness and `ENABLED` are out of the prover's reach, and `Strings`, whose one property is
one the code does not keep. What a violation run checks is
false, so there is nothing to prove. Of recursive definitions those that are functions along
a count are within reach by `Recursion`; folds and operators that take an operator are not, so
the models state such loops as functions.

## Not modelled

* Drawing, window geometry, resizing and the branch of `console_handle_input`
  without a prompt, which the program never takes: `console_command` sets one.
* `strdup` and `asprintf` failing inside the console; the completion handler's
  `malloc` failing is. The array of matches the handler allocates: who frees it.
* `map_put` failing inside help, which would show a group a second time.
* `fatal`, which nothing calls, and the printing functions and macros of `log.h`.
* What the runtime's next help prints beside its usage lines, and `ptkl_cli_destroy`,
  which frees usage texts that nothing ever makes.
* `x/qjs/ptklc.c`, which is `x/ptklc.c` byte for byte, `x/libcli/args*.c`, which are
  `x/args*.c`, and `x/ptkl-qjs/ptkl-qjs.c`, a near copy of `x/qjs/ptkl.c`: the modules of
  the originals stand for them.
* `x/args-orig.c`, an earlier parser of the runtime's options, which nothing builds or
  includes; it scans as `RuntimeArgs` does but hands errors back where `ptklcli.c` exits.
* getopt's abbreviations of long flags, and arguments in the same element
  (`--foo=bar`, `-obar`) or optional: ptkl defines no flag that takes one.
* QuickJS and cc, beyond what they call back and answer: what the runtime's stack size,
  bignum and rejection options do in the engine, which `RuntimeArgs` parses, and the compiler's
  options that only hand it a number or a name; `-q -d`'s timing loop.
* Formatting, the comparison, splitting and joining of strings, `results.c`, the stubs
  of libqjs and of most subcommands, the test harness, and calls on a map or a vector
  after its free.

## Plan

Done, in this order because the containers carry everything else: `HashMap` and
its proofs, `Console`, `CommandRun`, the other containers, `CommandTree`, then
`Compiler`, `Runtime` and `CliOptions`, then the compositions `PtklQjs` and
`ConsoleSession`, and `DString`, `Cli`, `CommandHelp` and `Strings`.

The proofs came in the same order: the containers, then what stands on them, then the
two programs under `x/`; see above for what they show.

Open:

1. The containers as `CommandTree` uses them: `commands` an instance of
   `Dictionary`, `ordered` one of `Sequence`, and with the theorems of `ContainerProofs` and
   `CliProofs` the tree over the real map and the real vector, as `Cli` stands on `Vector`.
2. `command.c:382`: which flag a long-only flag's callback is, once ptkl defines two.
3. Help under a malloc that fails: `map_put` into `shown_groups` may then forget a group.
