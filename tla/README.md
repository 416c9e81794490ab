# A TLA+ model of the cFS command line tools

This directory holds a formal model of the two programs of this repository,
`cmd_send` and `tlm_recv`: TLA+ modules, configurations for the model checker
TLC, and proofs for the proof system TLAPS.  Paths below are relative to the
repository; the sources are in `src/`.

## 1. Inventory

### The parts and their state

| part | source | state it keeps | operations |
|---|---|---|---|
| `cmd_send` main | `cmd_send.c` | `CommandData`: `ArgV`, `ShowHelp`, host and port, `Parser[]` (`Obj`, `IsOK`), `GoodParsers`, `ContentSize`, `NetBuf` | `CollectOptions`, `InstantiateParsers`, `DoParseOption`, `DoEncode`, `DoShowError`, `DoShowHelp`, `DestroyParsers` |
| pass-through encoder | `passthru_encode.c` | header words, Include and Override flags, `BigEndian`, `Payload`, `payload_bytes` | `Instantiate`, `ParseOption`, `GetPackedObject` |
| EDS encoder | `eds_encode.c` | destination texts, two lookup states, the native message | `Instantiate`, `ParseOption`, `HelpUsage`, `GetPackedObject` |
| protocol names | `cmd_send.c` | none | `CmdSend_GetProtocolFromString` |
| UDP sender | `send_udp.c` | none between calls; a descriptor and an address list during one | `SendUdp` |
| `tlm_recv` main | `tlm_recv.c` | `TlmData`: `Display[]`, `NetBuf` | options, `InstantiateDisplays`, receive loop, `DisplayObject`, `DestroyDisplays` |
| pass-through decoder | `passthru_decode.c` | none | `Instantiate`, `DisplayObject` |
| EDS decoder | `eds_decode.c` | a message buffer | `Instantiate`, `DisplayObject` |
| console utilities | `console_utils.c` | verbosity | `Log`, `Hexdump` |

### How they interact

`cmd_send` main owns everything and calls the encoders through
`CmdSend_Parser_API_t`, one function pointer per operation.  Every argument of
the command line goes to every encoder that has not answered `INVALID` yet;
then the encoders are asked in order to write the packet into the shared
`NetBuf`, and the first that succeeds has its packet sent by `SendUdp`.
`tlm_recv` does the mirror image with `TlmRecv_Display_API_t`.  All programs have one
thread.  What is outside their control is the command line, the answers of
`getopt_long`, of the resolver, the kernel and the EDS database, and the
datagrams that arrive.

### What is hard, and what makes each part correct

* *Pass-through encoder.*  The result of an option depends on the options
  before it (protocol in force, endianness, fields that overlap) and the result
  of packing on all of them (defaults and overrides).  Correct means: the bytes
  of the packet are a function of the command line that can be said without
  looking at the encoder's state.  Space is checked in `unsigned int`, lengths
  come from the user.
* *main.*  Encoders drop out at any argument; two pieces of state (`IsOK` and
  `GoodParsers`) say so, and both are used.  The buffer is shared.  Names that share a
  letter lose their identity in `reverse_opt_lookup`.  Correct means: an encoder
  that is asked for the packet saw all of the command line in the right order, what
  is sent is what one encoder wrote, one outcome per run, objects freed, and
  the program ends.
* *EDS encoder.*  Options are only written down; the first `name=value` argument
  (or else help, or the packet) starts two lookups whose answers are kept for
  ever, failures too.  Header options write into the buffer that a later lookup
  initializes.  Correct means: the kept answers are those a lookup at the end would
  give, and the packet, its header and its members are what the line names.
* *UDP sender.*  Every call may fail, with resources held.  Correct means: no
  leak, no use of the address list after it is freed, a return code that tells
  the truth, and that it returns.
* *tlm_recv.*  The network buffer, the EDS decoder's message buffer and the line
  buffers of the hexdump are used again and never cleared.  Correct means: each
  datagram is shown once and alone, and clean-up frees what was allocated.
* *All of `cmd_send`.*  Between the words typed and the datagram stand the permutation
  of `getopt_long`, the renaming of options, two encoders that read the same text
  differently and a choice between them.  Correct means: the datagram is what was typed.

The full list of hazards, with the line where each one bites and the properties
that would notice where there are any, is in `PROJECT.json`; section 5 says which of them
no property catches.

## 2. The modules

| module | models | proofs about it |
|---|---|---|
| `PassThruOptions` | the tables of `PassThru_ParseOption`: fields, numbers, protocols | |
| `PassThruEncode` | the pass-through encoder: `Instantiate`, `ParseOption`, `GetPackedObject` | `PassThruProofs` |
| `PassThruProperties` | what it promises, over the command line and the packet | |
| `MCPassThru` | its instances for TLC | |
| `EdsEncode` | the EDS encoder: `Instantiate`, `ParseOption`, `HelpUsage`, `GetPackedObject` | `EdsProofs` |
| `EdsProperties` | what it promises, over the command line, the packet and the help | |
| `EdsDatabase`, `MCEds` | a small EDS database, and the encoder's instance | |
| `CmdSendOptions` | the option table `LONGINFO` and `reverse_opt_lookup` | |
| `CmdSend` | main of `cmd_send`, for any encoders | `CmdSendProofs` |
| `CmdSendProperties` | what main promises | |
| `Dispatch` | the abstract specification of main | |
| `CmdSendRefinement` | the refinement mapping from `CmdSend` to `Dispatch` | `CmdSendProofs` |
| `MCCmdSend` | main's instance, with the refinement | |
| `SendUdp` | `SendUdp`, with its properties | `SendUdpProofs` |
| `CmdSendSystem` | `CmdSend`, `EdsEncode`, `PassThruEncode` and `SendUdp` composed | `CmdSendSystemProofs` |
| `CmdSendSystemProperties`, `MCSystem` | from the words typed to the datagram, and an instance | `CmdSendTypedProofs` |
| `Hexdump` | `ConsoleUtils_Hexdump` | `TlmRecvProofs` |
| `TlmRecv`, `MCTlmRecv` | `tlm_recv` with both decoders and the hexdump, its properties, its instance | `TlmRecvProofs` |
| `IndexLemmas` | lemmas: the last place of a sequence that holds an element of a set, least and greatest numbers | |

`EdsProperties`, `PassThruProperties` and `CmdSendProperties` state their properties
over what went in and what came out, so `CmdSendSystemProperties` can take those of the
encoders and state them of the command line as typed.

### How a model corresponds to the code

**`PassThruEncode`.**  The variables are the members of `CommandData_t`; `payload`
is the first `payload_bytes` bytes of `Payload`.  One action `ParseOption(a)` is one
call of `PassThru_ParseOption`, with a disjunct per group of cases of the switch;
`GetPackedObject` is one call of the packing function.  `argv` records the
arguments the encoder was given and `packet` the bytes it wrote; the properties read these
two.  `status` is what the caller learned: after `INVALID` it calls no more.  Words and bytes are
sets of bit positions, so that masks, shifts and exclusive or are set operations
and nothing is lost at any width: fields are shifted in 64 bits and numbers keep all
eight bytes until they are narrowed.  Text is abstracted to what `strtoul`,
`strtoll` and `strtod` say of it (record `Arg`).  `UINT_MOD` is
the modulus of `unsigned int`, where the space check and the padding length wrap
around.  A copy beyond the end of `Payload`, to which C gives no
meaning, ends in status `overrun`.  Mutant definitions such as `InsertWithoutClearing`
stand before the definition they would replace.

**`CmdSend`.**  `pc` is the position in `main`; `i` and `j` are the loop counters
of `main` and of `ForeachParser`, one action per turn.  The command line is a
sequence of words; a `Text` is a position in it.  `getopt_long` is external: it
hands out the options in order and moves everything else to the end, and it returns `?` for
what it does not know.  The encoders are left open: they may answer anything the
interface allows, `Instantiate` may give NULL, and an encoder that fails to pack may
have written into the buffer.  `bufOwner` is who wrote `NetBuf` last, `packed` the
encoders that succeeded, `calls` what each encoder was asked and `output` what came out.

`ParsingDone`, `DoShowHelp` and the actions after them are the three branches of
`main` behind the loop.  `--port` is treated like `--host`, as both do the same to a
variable of their own.  Only the EDS encoder has a help callback (`WithHelp`): the
pass-through encoder has `NULL` in its place, so `--help` never lists its options by itself.

**`EdsEncode`.**  `cmd` is `CommandData_t`, with the native message in two parts, `Buf`
for the members of the header and `Payload` for those set by name.  The
lookups (`ProcessDestIntf`, `ProcessCmdCode`, `CheckValidIntf`, `CheckValidPayload`) are
operators from the object to the object as the C function leaves it, what a function
leaves half done when it fails included.  What the EDS libraries answer is the constant `DB`: which
names and numbers are interfaces, which calls fail, the types derived from a command in
their order, their constraints and members.  A destination that is a number is the message
id itself, and `CFE_MissionLib_UnmapListenerComponent` writes the instance and the topic it is for over those
in `Params`, which gives the interface (`ProcessNumber`); a name gives the topic, and
`CFE_MissionLib_MapListenerComponent` makes the message id of it and of the instance there is (`ProcessName`).  The
address in the header is that message id in both cases.  One thing is assumed of the libraries:
`EdsLib_DataTypeDB_InitializeNativeObject` writes only the members whose value the type
fixes, because header options write their members before it is called
and are meant to stay.  `Init` includes the crash in `EDS_Instantiate` when the lookup of the
primary header fails (`eds_encode.c:733`): status `crashed`, where the program ends.
Texts are abstract: a text is a member of a small set, or a name with an instance, and two that
are cut to the same 63 characters (`DestIntf` and `CmdName`, `eds_encode.c:642-664`, `703`) are the same
member, so no property says anything of a name that is longer.
What the model makes plain and the code does not say: an instance specifier never works, as its
separator is looked for in the destination before and the test of `AllowInst` is
inverted (`eds_encode.c:603`, `614`); `PayloadError` is never read, and `UNDEFINED` does not
stop a packet, so an argument that cannot be used is left out silently; help says
"Selected command has no payload fields" of an unknown command, too.

**`Dispatch`** has no loops, counters or flags.  Encoders are acquired, may refuse,
and one that did not has its packet delivered, once, to the host asked for and never when
help was; they are released before the end.  `CmdSendRefinement` maps `request`
to the line as typed (not to what main has learned of it so far), `held` to `Obj`,
`willing` to `IsOK` and `sent` to the packets among the output.

**`CmdSendSystem`** conjoins actions: a step of main that calls a callback is that action of
`CmdSend` and the action of the encoder called, the answer of the encoder deciding what
`CmdSend` leaves open.  `SendUdp` runs between main's decision to send and its next step.
A word of the command line comes with what each encoder's conversions say of it; `WordAssumption`
says that this is what an argument under the id main hands it on with (`HandedId`) may have.

**`Hexdump`** writes cell and NUL after cell and NUL into a line buffer that is not cleared, and
prints up to the first NUL; `LinesOf` is the reference: the bytes, `WIDTH` on each line.

**`SendUdp`.**  One action per library call; each may succeed or fail.
`sent` is what the kernel took, from which `Close` has the result of `send`; `attempts` records for the
properties what became of each address up to the one `rp` is at (`Attempted`).

**`TlmRecv`.**  One action per option, per datagram and per turn of each loop over
the decoders.  `NetBuf` holds, for every byte, the number of the datagram it came
with.  `-v` and `-?` change nothing and are left out.  `EdsDisplayObject` has an exit for
every return of `EDS_DisplayObject`; `LocalBuffer` holds the number of the datagram that
header and body were unpacked from last, by an attempt that failed as well.  Every decoder's
dump is that of `Hexdump`.

## 3. What is checked

### Runs that pass

| run | question | instance | states |
|---|---|---|---|
| `headers` | Do the header words on the wire follow from the options? `FieldsReachTheWire`, `DefaultsOnWire`, `HeaderChecksumCloses`, `TypeOK` | up to 3 of 27 arguments: each field option, overlapping values, out of range values, a text that does not convert, both endians, the four protocols, and a payload byte | 20 thousand |
| `payload` | Does the payload? Can a buffer overflow? `PayloadOnWire`, `PackedFits`, `NoOverrun` | up to 4 of 22 arguments, a buffer of 20 bytes and an `unsigned int` of modulus 64 | 106 thousand |
| `cmd_send` | Who is asked what, who owns the buffer, what comes out, that it ends (`Termination`), that it implements `Dispatch` (`ImplementsDispatch`) | 2 encoders (the build with `CFE_EDS_ENABLED`), all lines of 3 words of the six kinds main tells apart, and each option between two others | 64 thousand |
| `eds_encode` | Do the kept lookups go stale? Is the packet the command, header and members asked for, for the instance named? Is help about the line? `LookupNeverStale`, `PacketIsTheCommandAsked`, `HeaderAsAsked`, `PayloadAsAsked`, `InstanceAsNamed`, `HelpFitsTheCommandLine` | up to 3 of 37 arguments: destinations by name and short name, by message ids of two instances and one of a topic nobody has, unknown ones, ones the libraries fail for, with instances; commands by name and code; header members; payload members | 99 thousand |
| `send_udp` | leaks, return code, termination | up to 4 addresses, packets of 3 bytes | 429 |
| `tlm_recv` | every datagram once, nothing of an older one in dump or decoding | both decoders, buffer of 3 bytes, lines of 2, 3 datagrams of 0, 2, 3 or 5 bytes | 39 thousand |
| `system` | Is the datagram what was typed, from the encoder that should make it, and the only one? `PassThruPacketAsTyped`, `EdsPacketAsTyped`, `EdsGoesFirst`, `OneDatagram`, `HelpAsTyped` | all lines of 3 of 14 words, and every order of 5 sets of 4 words | 275 thousand |

Why the bounds are enough.  An interaction between header options needs at most three
of them: two that write a bit (or a protocol that removes the header
and one that brings it back) and one that changes a default.  A payload
interaction needs four: a protocol, an endianness, a value, and a string to fill
the buffer; with 20 bytes the strings of 6 and the eight byte number reach every
edge, and strings of length 43 and 63 reach the edge of the small `unsigned int`.  In `cmd_send` the second encoder
gives the order of encoders, and three words give an option before, between and
after others, and a line on which every encoder drops out at each word.
In `SendUdp` the loop body sees only whether there is a next address.
For the EDS encoder three arguments give a destination with its command, a second one
that replaces part of it (a name after a message id of another instance, too), and a value; `HelpUsage` and `GetPackedObject` come after any
of them.  The `system` run has the orders of four words where more than three depend on
each other.
In `tlm_recv` three datagrams give a long one before a short one, with another one
between them.  `MAX_ARGS` and `MAX_RECEIVED` are bounds of the instances and not of the code; every other constant stands for one of the code's own.
`CHECK_DEADLOCK FALSE` stands wherever the program ends; in `system` the end is the
action `Over` and deadlock is checked, so main never waits for an encoder that has no
answer, nor an encoder for a call.

### Fairness

`CmdSend` and `SendUdp` assume `WF_vars(Next)`: each program has one thread, so as
long as a step is possible the program takes it.  For `SendUdp` this includes that library calls
return.  `Dispatch` assumes the same, and main implements it, fairness included: every
stretch of steps that `Dispatch` does not see comes to an end.  `TlmRecv` and the encoders
state no fairness: `recvfrom` may wait for ever, and an encoder does only what it is called
for.  `CmdSendSystem` states none either: whether one of its steps is enabled is too costly
to evaluate in every state of a cycle check, and `Termination` of main with any encoders
covers it, with the absence of deadlock.

### Runs that show a disagreement

Each of these runs checks one statement of the repository's own help text or
comments, and TLC finds an execution that contradicts it.

| run | statement | what the code does |
|---|---|---|
| `raw_protocol` | `--protocol=raw` is a protocol | the encoder rejects it |
| `length_word` | length word is packet length - 7 | a 6 byte packet announces 0xFFFF |
| `checksum` | checksum as in the framework | it covers the headers only |
| `field_range` | `--pktedsver` has a range | bits shifted out of 64 are not noticed |
| `static_free` | the decoder objects are destroyed | a static variable is passed to `free` |

`FieldsReachTheWire`, `DefaultsOnWire` and `PayloadOnWire` are stated so that
they hold beside these: they except exactly the bits the encoder may default, the
6 byte packet and string lengths near the width of `unsigned int`.

Three more places where the help text can be read differently are not runs of their own,
but the properties show what the code does.  A string "takes NNN bytes" (`cmd_send.c:220`), yet NNN
is cut to 32 bits (`passthru_encode.c:773`): `PayloadOnWire` leaves out lengths of 2^32 and more.  `--pktid` "sets the first 16 bits"
(`cmd_send.c:191`), yet the command type bit and, with a command secondary header, the
secondary header bit are or-ed over it: they are in `Defaulted`.  Values are
converted to the endianness in force when they are read, while the header announces
the one in force at the end (`cmd_send.c:202`, `209`): `PayloadOnWire` and
`DefaultsOnWire` use `BigAt` at different arguments.

### Mutants

Every property of a passing run has a mutant in `PROJECT.json`: a plausible slip in
the code (an addition without the bytes already used, a mask not cleared, a counter
not decremented, a socket not closed, a loop that tries the same address again) under which TLC finds the property violated.

## 4. What is proved

The proofs hold for every value of the constants that satisfies the named
assumptions, so for any buffer size, any number of encoders or addresses, any EDS
database and any command line.  TLC evaluates the assumptions in the runs.

### The pass-through encoder: `PassThruProofs`

Assumed are `SizeAssumption` (the buffer holds all headers, and no more than the 65542 bytes that
`cmd_send.h:26` names as the largest packet of the standard; the length less 7 then fits the 16 bits of the length
word, which `DefaultsOnWire` reads as a number), `UintAssumption` (buffer and
largest number do not reach the width of `unsigned int`) and `ArgAssumption` (arguments are
well formed).

* `TypeCorrect`, `PacketsFit`, `CopiesStayInside`.  The invariant is
  `TypeOK /\ PackedFits /\ NoOverrun`: that no
  copy overruns needs the payload to be within the buffer before it (the sum the
  space check looks at then wraps only for lengths near the width), and the size of
  the payload needs its type.  `CopyDataShape` says what a copy returns; each case of
  `ParseOption` then has to show `ParsedArgument`'s conditions only.
* `FieldsArrive`, `DefaultsArrive`.  `ReadInv` says that every bit of every header word is what the
  last option that writes it said, and endianness, layout and overrides likewise; `Filled`, that in a packet
  the words are these with the defaults in the bits the encoder may fill in.  `StandsAt` takes a word to its
  two bytes in any layout.  The length word is decoded by `ValueIsSum`, a sum of 16 bits.
* `HeadersClose`.  The checksum is a parity of cardinalities and the property an exclusive or folded
  over the bytes: both are the parity of the places that have a bit.  `Closed` is the invariant.
* `PayloadArrives`.  `Collected`: the payload is the images of the arguments so far, strung
  together.  One argument more is one image more at the end.  That no number stored in it is another than the one
  read is `FitsWidened`: widened back, the bytes of a number that passes the comparison are that number.  `FlatSkips`, for the composition: two
  sequences of images strung together are equal if they differ only in places that hold the empty one.

### The EDS encoder: `EdsProofs`

`TypesCorrect`, `LookupsNeverStale`, `PacketsAreTheCommandAsked`, `HeadersAsAsked`,
`PayloadsAsAsked`, `InstancesAsNamed` and `HelpFits`: everything the run
`eds_encode` checks.  Assumed are `DatabaseAssumption` (the shape of a database),
`IdAssumption` (no type is called like the absent one), `MessageIdAssumption` (every message id is of
some instance and topic; a topic has a message id for the first instance, and that is of this topic and
instance), and `EdsArgAssumption`.

One invariant, `KeptInv`, carries all of them.  It says what the object is in each status, as a
function of the line: while options come it is `Gathered` from them, before any lookup; from the first
`name=value` on it is that same object after `CheckValidPayload`, with the members set so
far (`Finished`).  Behind the lookups nothing of the line can make the kept answers
stale, because the options are over (`OptionsFirst`).  An instance in a destination is
what ends it: a lookup fails, or the encoder refuses the next destination, so `NoInstance` holds in every packet.
The lookups are taken apart once, for any destination, command and header:
`NumberLookup` and `NameLookup` say that both end in the same object, `Located`, which has the message
id, instance and topic of the destination, a number whatever instance was there before and a name because it was
the first; `DestinationLookup`,
`InterfaceLookup` and `LookupOutcome` follow the address, the command and the payload.

### main of `cmd_send`: `CmdSendProofs`

From `ParserAssumption`, `HelpAssumption` and `LineAssumption` (words of the option table).

* `CounterAgrees`, `BufferUndisturbed`, `ObjectsFreed`.  The invariant adds `Progress`, how far each loop has
  come: that the counter goes up only for an encoder not in `IsOK` yet needs that
  instantiated encoders are below `j`, and that no object is left at the end
  that those still held are not below `j`.
* `ImplementsDispatchSafely`: main starts like
  `Dispatch` and every step of it is one of `Dispatch` or invisible there.  Two more invariants are
  needed: `LineInv`, that `ShowHelp` and `HostName` are what the line up to `optind` says
  and nothing of it is left when an encoder is asked for the packet; and `OutInv`, that
  nothing was sent before.  They rest on the option table: `TableRows` and
  `LastRowWithLetter` are facts about its 44 rows, and `WordTakenFor` follows: only `--help` and
  what is no option turn into help, only `--host` into a host.
* `OrderOfCalls`, `WholeLineSeen` and `TypeCorrect`.  `ListInv`
  says of the list that CollectOptions makes that it is ordered, holds only words for
  the encoders, and misses only what is still to be looked at.  `CallsInv` says of every
  encoder that it was given texts the loop has come by, in order, and all of them
  while it is still good.  That the loop over the arguments does not stop short is
  `CounterAgrees`: it ends when `GoodParsers` is 0, and then nobody is left to miss
  anything.
* `OutcomeIsOne`.  `OutcomeInv` says what has come out at each branch behind the loop: nothing before it,
  only help in the first, only errors in the second, one packet in the third.
* `OptionsAreUnderstood`.  `NamesInv`: every entry of the list goes by the name of its letter's last row.

### The UDP sender: `SendUdpProofs`

`TypeCorrect`, `NoLeak`, `AddressesStayHeld`, `OneDescriptor`,
`CodeIsTrue`, from the two
assumptions on constants.  The invariant is one assertion per point of the
program, in the manner of Floyd: which descriptor is open, whether the list is
held, how many attempts there were.

### `cmd_send` as linked: `CmdSendSystemProofs`, `CmdSendTypedProofs`

From `TypedAssumption` (words of the option table), `WordAssumption` (what they convert to), `KernelAssumption`
(a host has an address if it has a list) and `EncoderAssumption` (the assumptions of the encoders about buffer and
database).  The theorems about main, `SendUdp` and the encoders are instantiated; `PartsAssumptions`,
`EdsAssumptions` and `PassThruAssumptions` show that what they assume holds.

* `RunsMain`, `MainKeepsItsPromises`: a step of the composition is a step of main with any encoders, or
  changes nothing of main, and likewise for `SendUdp` (`MainPart`, `UdpPart`).  So the invariants
  of both hold here.
* `OneDatagramIsSent`.  `DatagramInv` relates the two: an encoder is in `packed` exactly if its
  own status says so, `SendUdp` is under way only when main has a packet and no help was asked for, and
  has sent nothing before its one `send`.
* `EncodersInvariance`.  A step of the composition is also a step of each encoder, or changes nothing of it
  (`EncodersStep`): the arguments an encoder has parsed are the words that main has handed to it (`ArgsInv`), converted,
  options before the others (`OptionsComeFirst`).  So the invariants of the encoders hold here, and
  `StatusInv` relates what an encoder said last to what main goes by.
* `EdsPacketsAsTyped`, `HelpIsAsTyped`.  What the EDS encoder promises of its arguments it
  promises of the line as typed, which has words of main between them, arguments among options, and
  synonyms.  An encoder that is still good has seen every word, and no option has overtaken an option and no argument
  an argument, so the last of any of them is the same on both sides (`Moved`, `EdsReads`);
  `SameDestination`, `SameCommand`, `SameValues`, `SameSetters` and `SameType` follow.
* `PassThruPacketsAsTyped`.  The same of the other encoder, which has two names for five of its options
  (`Synonyms`): the word as typed and the word as handed over are one header field or one width and byte order
  (`Alike`, `PassThruTypedWords`).  What the last option of a kind says is then the same on both sides
  (`PassThruReads`, from `Moved`): `SameGiven`, `SameAsked`, `SameLayout`.  The endianness is read at an argument, so
  `SameEndianness` compares it at a word and at its place in the reordered line, before which the same words of its
  kind were seen.  What stands for bytes of the payload is an option, and options keep their order, so
  `SameImage` and `FlatSkips` give `SamePayload`.
* `EdsIsAskedFirst`.  A packet of the EDS encoder means that there was nothing on the line to refuse and a type to
  make (`NothingToRefuse`); a packet of the other one means that the EDS encoder refused an argument, which
  was typed (`RefusedWasTyped`), or found no type.

### `tlm_recv`: `TlmRecvProofs`

From `DisplayAssumption` (the two builds), `ReceiveAssumption`, `OptionAssumption`, `NulAssumption` (a byte shown
is never the NUL that ends a line) and `WidthAssumption`.

* `ShownExactlyOnce` and `DecodesAtHand`.
  The invariant `ShownInv` counts: decoders were asked in order, as many as there are dumps,
  and the datagrams before the last were all shown.  It needs that the last decoder of
  each build always has something to show.
* `HexdumpIs`: the dump of any data is `LinesOf` it.  `Hexdump` is a fold, and `Sofar` the invariant of its loop:
  after m bytes the full lines are printed and the cells of the last one are in the line buffer, behind
  which anything may be left of the line before.
* `DumpsAreOfTheLastDatagram` and `TypesCorrect`.  `BufferInv` says that the buffer begins with the last
  datagram while it is displayed (`AtHand`), and that every dump of it is its lines.

### How the proofs deal with sequences

The provers have no induction over sequences.  A fold or a recursive function of the
community modules is unfolded to the function it chooses; that a statement holds at all of its
arguments is shown by its least counterexample, whose existence is `SmallestNat` in
`IndexLemmas`.  "The last option wins" is `Latest` there: what the last place is after one
more argument.

### Only model-checked

* Liveness, which is out of the prover's reach: `Termination`, `Returns`, and the fairness of
  `Dispatch` in `ImplementsDispatch`.

Every other property of every passing run is a theorem.

## 5. What is not modelled

* Wording of error messages, help and log lines, and the verbosity that decides whether a log
  line is printed (`ConsoleUtils_Log`).
* The conversion of text to numbers: library functions.  The model starts from
  their results.
* What the EDS libraries do: they are not part of this repository.  How the decoder prints
  a value is left out with them.
* A failed `malloc` of an encoder (the program ends in it), and the descriptor of
  `tlm_recv`, which is never closed.
* The build files: the choice they make is `NUM_PARSERS` and `DISPLAYS`.

Three hazards of the list have no property.  After the crash in `EDS_Instantiate`
(`eds_encode.c:733`) there is no later state to say anything of.  When the space check wraps around
(`passthru_encode.c:246`) C gives no meaning to what follows; the model stops in `overrun`, and `PackedFits`
and `NoOverrun` speak of the lengths that stay clear of it.  That main ignores what `SendUdp` returns
(`cmd_send.c:572`) is in the model, but nothing in the repository says that it should not.

Four behaviours a user might not expect are taken as the code has them, and the properties
say what follows from them instead of catching them: a positional argument that the pass-through encoder cannot
use is left out of the payload (`PayloadOnWire`); the same of the EDS encoder (`PayloadAsAsked`); a header value EdsLib
refuses leaves the one before (`HeaderAsAsked`); and a command named with one destination stays when a later
destination names none (`NamedCommand`, in `PacketIsTheCommandAsked`).

## 6. Plan

Every module planned is written and checked, and every safety property is proved.  What could follow:

* the wording of log lines with the verbosity that decides on them, if a property of it is wanted;
* what the EDS libraries do, if their sources are at hand: here they are external;
* a proof of `Termination` and `Returns`, with a prover that handles fairness.
