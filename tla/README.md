# SecVerilog multicore: TLA+ specifications

The repository holds a multicore system on a chip written in SecVerilog (Verilog
with security labels), in several versions, and the compiler that checks the
labels: Icarus Verilog 0.9.6 with a label checker added. This project specifies
both.

- **The system.** The version taken as the reference is `src/System-NSbit`, whose top
  module is `plab5-mcore-ProcNetCacheMem.v`: two cores, L1 caches, networks, L2 caches,
  an instruction and a data memory with an address partition, a DMA unit and a debug
  unit. Files ending in `.v` below are in that directory.
- **The label checker**, in `src/hwtiming/verilog-0.9.6`: it walks over the statements of
  a module, keeps what it may assume of the state (the facts) and the label of the
  program counter, and writes for every assignment and connection a constraint on
  labels for Z3. Files ending in `.cc` and `.h` below are in that directory.

The system has two security levels, 0 and 1 (`Domain`). Whether the units, all state
machines that talk by one-cycle pulses and often ignore each other's ready wires, do
their work together is what the label checker does not deal with; whether what it
accepts is as its labels say is the other half of the question.

## 1. Inventory

| Component | State | Operations, and who it talks to | What is hard | What makes it correct |
|---|---|---|---|---|
| Data memory arbiter (`mem-arbiter`) | state, two request registers, response register, latch of the granted port | latches both ports when idle, shows one request for one cycle, waits, shows the response for one cycle; L2 and DMA on one side, address controller on the other | ignores the address controller's ready; fixed priority; the granted port is remembered in a latch | no request lost, each response to its port, nobody starves |
| Address controller (`mem-addr-ctrl-FSM`) | state, request registers, partition register | accepts, compares with the partition, issues to the memory or makes up a response and raises `insecure`; changes the partition | listens to the memory for exactly one cycle; the compared partition is used again later | the check does not go stale, the response heard is the request's own, protected entries change for level 1 only |
| Main memory (`TestMem_uni`) | request queue (pipe), response queue (bypass), two arrays | serves the queued request; a write is repeated while its request waits | combinational paths through both queues | executes each request on the right entry |
| Queues (`vc-queues`) | full bit, storage; with several entries two pointers and a register file | enqueue, dequeue, pipe, bypass | same-cycle enqueue and dequeue; equal pointers mean full or empty; pointers with a value too many | nothing lost, repeated, reordered or invented; the free count is right |
| DMA checker (`DMA-checker`) | state, request registers | takes a request from the network, compares levels, pulses it to the controller, waits for the ack, answers | ready while it answers; registers load in any state; ignores `dma_rdy` | every request taken is passed on or rejected, and answered |
| DMA controller (`DMA-controller`) | state, job registers of the network and of debug, hold queue, response register, two latches | reads one entry, writes it elsewhere, acks; or reads one entry for debug | two requesters, one ack wire; pulses seen in IDLE only; queue readiness ignored | runs only checked jobs, copies the entry read, acks what was done |
| Debug checker, debug interface (`Debug-checker`, `Debug-Interface`) | two states, job registers, result register | an instruction of core 0 becomes a copy and a read-back | the level is compared live, the addresses are registered; the result passes three registers | ends, and shows the entry copied |
| L2 wrapper (`BlockingCacheSec-FSM1`) | state (17), request and response registers, cacheability register | chooses prefetch buffer, cache or direct access; asks the memory for them | one-cycle direct access; `insecure` arrives before the response | each access gets one response with the right data |
| L2 cache, prefetch buffer | tags, lines, fetched-line table | lookup, refill, evict; fetch ahead | no input for a refused request; no invalidation | data read is the data last written |
| L1 caches (`BlockingL1CacheCtrl`) | tags, lines | lookup, refill with `fail` | a refused refill | every access is answered |
| Ring networks (`RingNetAlt-sep`, `RouterAlt-Sep` and its input and output controls) | per port an input queue for each domain; per output a round robin and a latch of the domain | an input arbiter picks a domain, the head asks for an output, the output grants one input and shows its message to the queue of its domain | ready, grant and latch depend on each other in one cycle; a terminal enters the ring only if there is room; two ways around | delivery, once, in order per pair, in the queue of the domain; nobody starves |
| Network adapters (`ProcNet*`, `MemNet*`) | - | route by address and type, tag with the source | shared wires | the response goes to the core that asked |
| Processor (`PipelinedProcBypass*`), inter-processor controller (`PIC`), multiplier | pipeline registers | stall, squash, bypass, `debug` and DMA instructions, level change | stalls against late responses | each instruction once, in order |
| Building blocks, tracing, harness | - | registers, multiplexers, assertions | - | - |
| Label checker: statements and facts (`typecheck.cc`, `absinterp.cc`) | facts, label of the program counter, variables some path leaves alone | assignments, `?:`, if, case, nested; asks Z3 for each assignment | facts must be forgotten, restored and merged at the right places; a look ahead over both branches | what is assumed is true; what is accepted flows upwards, in the paths not taken as well |
| Conditions (`PExpr.cc`) | - | `is_wellformed`, `to_wellformed` and their `neg_` forms | half of a connective may be dropped, depending on its polarity | what is kept follows from the condition |
| Merge of facts (`PCondit::merge`) | - | intersects two sets ordered by address with a comparator of texts | the outcome depends on the allocator | no fact is made up |
| Security labels (`sectypes.cc`) | objects that point to their parts, some of them shared | join, meet, `simplify`, `subst`, `collect_dep_expr` | `simplify` overwrites shared parts while it calls itself, and may call itself for ever | a label keeps its meaning, all it depends on is declared, `simplify` ends |
| Module instances (`PGModule::typecheck`) | - | renames the labels of pins and wires, a constraint per pin | renamings one after the other | labels on both sides of a connection agree |
| The rest of Icarus Verilog | - | parser, elaboration, code generators, simulator | - | - |
| Other versions (`System-NSbit-*`), `bugs` | - | - | - | - |

How they interact. In the system everything is clocked by one clock, so a step of a
specification is one rising edge on which all registers load together. A wire is
a function of registers (an operator), a channel is a message or `NoMsg` when its
`val` wire is low. There is no shared memory other than the arrays of the main
memories, no callback and no timeout; what takes the place of failures are ready
wires nobody looks at. The label checker is one recursive walk: `typecheck` of a
statement calls that of its parts with the facts (`Predicate&`, changed in place) and
the environment (`TypeEnv&`, with the label of the program counter), and uses
`PExpr.cc` for conditions and `sectypes.cc` for labels. `PROJECT.json` lists these places, each at its line, as
hazards.

## 2. Modules

| Module | Models | State and actions against the code |
|---|---|---|
| `MemMsgs` | `vc-mem-msgs`, `plab5-mcore-mem-msgs` | a request or response is a record; `len` is left out: an access is one whole entry |
| `VcQueue1` | `vc_QueueCtrl1` with its datapath | `slot` is `full` and the storage together; operators have the names of the wires |
| `MemArbiter` | `plab5_mcore_mem_arbiter` | `Latch`, `Arbitrate`, `Await`, `Respond` are one clock edge in IDLE, ARB, WAIT, RESP |
| `MemAddrCtrl` | `plab5_mcore_mem_addr_ctrl_fsm` | an action per transition; `CtlStartPar`, `CtlChangePar` are the partition port |
| `TestMem` | `plab5_mcore_TestMem_Uni` | both queues and the arrays; control and data queue of a direction are one variable, as they load together |
| `MemGuard` | address controller on a memory, all inputs open | `GuardTick` is one edge of both; in every cycle any request and any partition |
| `MemPath` | the wiring of arbiter, address controller and memory in the top module | `PathTick` is the conjunction of the three ticks |
| `MemService` | abstract | one request at a time is executed, whole, and answered |
| `MemPorts` | `MemPath` between its two users | the port side of the L2 wrapper (`L2...`) and of the DMA controller (`Dma...`) |
| `DMAController`, `DMAChecker`, `DebugPort` | the DMA controller; its checker; debug checker and interface | an action per state; the registers that load in any state are a conjunct of every step (`DmacDatapath`, `ChkLoad`) |
| `DMASystem` | the wiring of these four, with cores, network and memory port around them | `System` is one edge of all; `Sends` a core's request, `NocShows` the router, `Port...` the memory |
| `VcQueueN` | `vc_QueueCtrl` and `vc_QueueDpath` | pointers, full bit and register file; `took`, `gave` and `level` record what passed the ends |
| `Fifo` | abstract | a bounded sequence that may take and give one message per step |
| `RingNet` | `plab4_net_RingNetAlt_Sep` with its two routers | `NetTick` is one edge of both routers; `Requests` is the input control, `Latched` and `Granted` the output control and its round robin, `Move` the queues, the demultiplexers and the links |
| `CheckFacts` | `absinterp.cc`, the outcome of `PExpr.cc` for conditions with at most one connective | a fact is a record; `KnownIfTrue`, `KnownIfFalse`, `AfterAssign`, `Invalidate`, `Merges` are the functions that make and drop facts |
| `CheckStatements` | `typecheck.cc` on an always block | an action per statement, or per beginning, else, item and end of a compound one; `frames` is the call stack with the local variables; beside the checker walks an execution (`sigma`, `active`) |
| `WellFormed` | the four functions of `PExpr.cc` on conditions of any depth | the parser builds the condition on its stack, an operand or operator per step; a condition is the record of what the four functions answer for it (`wf`, `kept`, `negwf`, `negkept`), which is all they ask of an operand |
| `FactMerge` | `PCondit::merge` | one step per step of `std::set_intersection`; the addresses of the facts are any order |
| `SecTypes` | `sectypes.cc` | `objs` are the joins and meets in the order they are made, `label` the one at hand, and beside them what each should mean (`meaning`, `meant`); `calls` is the stack of `simplify`, each step of which is an action; an action per way a label is built, renamed, taken up again or written out |
| `ModuleInst` | `PGModule::typecheck` | any connection of pins to wires with any labels; `Check` is one pass of the loop over the pins |
| `MemLemmas`, `MemGuardProofs`, `MemPortsProofs`, `DMASystemProofs`, `VcQueueProofs`, `RingNetProofs`, `CheckProofs`, `LabelProofs` | theorems | section 5 |
| `MCMemGuard`, `MCMemPorts`, `MCDMASystem`, `MCDMAAlone`, `MCNetwork`, `MCCheck`, `MCConditions`, `MCLabels` | instances for TLC | section 3 |

`MemPath` composes `MemArbiter`, `MemAddrCtrl` and `TestMem` by EXTENDS and the
conjunction of their ticks, each with the others' wires as parameters.
`DebugPort`, `DMAChecker` and `DMAController` are composed the same way in
`DMASystem`. `CheckStatements` EXTENDS `CheckFacts`. `WellFormed` and `FactMerge` look
closer at two places `CheckFacts` takes a summary of (deep conditions; which common
facts survive a merge), `SecTypes` at the compound labels it does without. Where an MC
module holds two independent parts (`MCNetwork`, `MCConditions`, `MCLabels`), one of
them rests while the other runs.

Definitions called a mutant in their comment (`CtlAllowOffByOne`, ...) are wrong
versions of the definition that follows. No specification uses them; putting one
in the place of the right one makes a property fail, which shows that the property
depends on that piece of code.

Abstractions worth knowing:

- **Addresses and data.** An address stands for one entry of the memory. Of the
  four quarters `addr[15:14]` of the address space the two of the memory are
  modelled, `m_pub` below `SecureBase` and `m_sec` from it on.
- **Unknown values.** `Unknown` is a data field the code leaves `x`, and the reset
  value of a data register that is not read before it is loaded.
- **Latches.** `resp_sel`, `status`, `debug_data` and `par_ctrl_reg` are latches of
  combinational blocks. They are variables that change on the edge into the state
  that assigns them (`par_ctrl_reg` on the edge out of CH_PAR: nothing reads it
  there).
- **Made-up responses.** The address controller cuts `resp_control` of a refused
  request out of fixed bit positions. At 128-bit lines, opaque field and type
  survive for reads and writes, `len` does not; `len` is not modelled.
- **Ring.** The control and the data queue of an input load and empty together and are
  one queue, and the queues are sequences, which `VcQueueN` shows them to be. The wires
  of an output form a loop (the ready is that of the latched domain, the ready enables
  the winner, the winner sets the latch); the model has what the loop settles to. The
  two ways around weigh the same, since there is one hop either way and both
  `num_free_chan` are tied to 1, so the first comparison always decides. The `$random`
  choice of an input arbiter is any choice, made anew in each cycle.
- **Programs.** The walk of `CheckStatements` chooses the next statement freely, so a run
  covers all blocks up to its bound. Expressions are numbers, identifiers and one
  compound form, `x + 1`, which stands for all the checker does not look into. What
  `mustmodify` returns is known to the code before the branches are checked; the model
  guesses it at the beginning and `CondEnd` is possible only for the right guess.
- **Z3.** A constraint is valid if it holds in all states within the declared ranges
  (`Valid`, `ValidFresh`): the solver is taken as right, what it is told is modelled.
- **What to keep in a merge.** `CheckFacts!Merges` allows any part of the common facts;
  `FactMerge` shows that the code never keeps more.

## 3. Runs

| Run | Module | What it shows |
|---|---|---|
| `mem_ports` | `MCMemPorts` | the data memory path with both users, about 245,000 states |
| `mem_guard` | `MCMemGuard` | address controller and memory with all inputs open, about 1,300 states |
| `dma_shared` | `MCDMASystem` | a core and the debug port compete for the DMA controller, about 123,000 states |
| `dma_alone` | `MCDMAAlone` | what the only user may rely on, core or debugger, about 900 states |
| `dma_two_cores` | `MCDMASystem` | finding 1 |
| `dma_with_debug` | `MCDMASystem` | finding 2 |
| `network` | `MCNetwork` | a queue of three entries; the ring of two routers; about 19,000 states |
| `check_blocks` | `MCCheck` | all always blocks of six steps |
| `check_case_facts` | `MCCheck` | finding 3 |
| `check_value` | `MCCheck` | finding 4 |
| `conditions` | `MCConditions` | all conditions of up to three operators over three variables and two numbers; all merges of up to four facts |
| `labels` | `MCLabels` | all labels built in three steps; all instances of a module with two pins |

Properties of `mem_ports`:

- `NothingLost`: while the arbiter waits, the address controller works on the
  granted request, and in the one cycle it listens the memory's response is there.
- `ResponseMatches`: what a waiting user finds on its port answers its request.
- `InsecureIsForL2`: the `insecure` wire, which goes around the arbiter, is up only
  for a request of the L2, which waits and was rightly refused.
- `WritesAreOwned`: an entry changes only by an allowed write a user waits for.
- `ServiceSpec`: the path implements `MemService` (refinement: a request is pending
  from the moment the user shows it until the arbiter shows its response).
- `HeldRequestsServed`: requests that are held are answered, on both ports, although
  port 0 has priority: the L2 cannot ask again in the cycle after its response.
- `DirectServedWhenIdle`: a one-cycle request is answered if the arbiter is idle.
  If it is not, the request is never seen and the L2 waits for ever; the model has
  this behaviour (`L2Pulse`), and no text in the repository denies it.

Properties of `mem_guard`: `CheckStillHolds` (the partition cannot move between the
check and its use), `HearsItsOwn` (the one-cycle pairing of response and request),
`GuardedWrites`.

Properties of the DMA runs: `RunningIsChecked` (the job the controller runs is the one
held by the checker that waits, and was authorised), `HoldQueueCarries`,
`WritesAreRequested`, `AckMeansCopied`, `TakenIsChecked`, `TakenIsAnswered`,
`DebugReadsBack`, `DebugEnds`.

Properties of `network`: `QueueIsFifo` (refinement of `Fifo`), `CountsRight` (full,
empty and the free count, by which the routers admit messages into the ring),
`PairsInOrder` (for each pair of terminals the network refines `Fifo`, so nothing is
lost, repeated or overtaken), `DomainsApart` (the latch of an output, whatever it holds
from before, sends no message into the other domain's queue) and `EveryMessageArrives`.

Properties of `check_blocks`:

- `PredicateHolds`: the facts assumed at a point are true in every execution that gets
  there.
- `AcceptedFlows`: an accepted assignment flows upwards: the labels of the conditions
  around it, and of the value, are below the label of the target after it, and where some path
  leaves a self-dependent target alone, the conditions are below the label it had (the
  no-sensitive-upgrade check). Which paths do is what `aliveVars` says: those of if
  statements, not of case statements (see the limits).
- `UnwrittenInIfsWasAlive`: a path that leaves such a variable alone is known as one while the
  other branch is checked.

Properties of `conditions`: `PlainImplied`, `OnlyDependent`, `KeptWhole` (what is kept
follows, speaks of declared variables only, and is all where all is understood);
`OnlyCommon`, `OrderedMerge`. Properties of `labels`: `MeaningKept` (every label means what
it was declared as and joined with, between any two steps of any `simplify`, though the parts
that are overwritten are also parts of others), `DependsOnCollected` (no label depends on a
variable that `collect_dep_expr` or `hasExpr` misses: it would not be declared, or the
assignment to it would take the simple way), `EndsUnmixed` (`simplify` ends for labels
without meets and for those without joins), and of the connections of an instance
`AcceptedConnects` (an accepted one is safe) and `SameLabelAccepted` (the checker is not
too strict where the labels are equal). The last two are about instances in which a name
has one meaning (`OneMeaning`): a wire called as a pin is connected to that pin, as in
`.clk(clk)`. The instances of the run include others, and there `AcceptedConnects` fails:
if the label of wire `w` at input `p` depends on wire `q`, output pin `q` goes to `w`, and
wire `q` goes elsewhere, the checker compares the label of `w` as if it depended on pin
`q`.

**Findings.**

1. `DMA-checker.v:172`: in NOC_RESP the checker raises `noc_rdy`, and the state
   machine ignores `noc_val` there. A second core's request that arrives in this
   cycle leaves the network and is dropped, while the header of the file says it is
   passed to the controller or rejected. (`dma_two_cores` refutes `TakenIsChecked`;
   with one core it holds, run `dma_alone`.)
2. `DMA-controller.v:228`: a core's job that meets a debug job is lost, since `val` is
   a one-cycle pulse and `db_val` goes first. The ack of the debug job is then taken by
   both checkers, and the core is told that its copy was made ("when operations done,
   notify core", `DMA-controller.v:49`). (`dma_with_debug` refutes `AckMeansCopied`;
   without debug instructions it holds.) What holds in any case is `RunningIsChecked`
   and `WritesAreRequested`: what the controller does do is authorised.
3. `sectypes.cc:518`: `Predicate::operator=` copies its argument into a new object,
   returns it and leaves the one assigned to as it is. `PCase::typecheck` relies on it to
   restore the facts after an item (`typecheck.cc:768`), so the label of an item and what it
   assigns stay assumed in the next and after the statement, where another item may have been
   executed.
   (`check_case_facts` refutes `PredicateHolds`; it holds as long as items assign nothing
   facts are taken from and are not chosen by a variable facts are taken of:
   `PredicateSound`. If statements restore the set `pred.hypotheses` instead, which works.)
4. `typecheck.cc:453`: for a variable some path leaves alone, `rtype = env->pc` drops the
   label of the right side from both constraints of the assignment, which is then
   accepted whatever flows into the variable. (`check_value` refutes `ValueFlows`;
   `AcceptedFlows` says what is left: the conditions are checked in any case, the value
   in all other cases.)

**Limits of the label checker.** The runs of `MCCheck` stay within what the checker can
handle; each limit can be seen by changing a constant of a cfg, or by a property of
the same module that does not hold:

| What | To see it | Why |
|---|---|---|
| several labels in one case item | `Cases <- WideItem` | every label becomes a fact, and all are assumed together |
| part selects | `Targets <- PartTargets` | invalidates the text `x[i]`, facts about `x` stay |
| a number wider than its variable | `Numbers <- WideNumbers`, `Exprs <- WideLiteral` | the fact `x = 2` is never true of one bit |
| a range that is no constant | `GetRange <- Unknown` | the range -1 gives the upper bound 0 |
| sensitive upgrades in case statements | `UnwrittenWasAlive` | `PCase` does not tell which variables its items leave alone |
| `&&` or `\|\|` under a comparison | `AlwaysImplied` (`WellFormed`) | half of it may be dropped whatever is done with it |
| merges of sets out of order | `IsIntersection` (`FactMerge`) | common facts get lost; none is made up |
| joins with meets in them | `Ends` in the place of `EndsUnmixed` (`SecTypes`) | `simplify` calls itself for ever, e.g. for `f x join (f x meet (f x join L))`: no call on the meet removes the `L` |
| inout pins | `ModuleInst`, `Directions` with `"inout"` | only the flow inwards is checked |
| a wire called as a pin it is not connected to | `AcceptedConnects` without `OneMeaning` (`ModuleInst`) | the names of both modules go into one renaming, so a name is taken for the other variable |

**Bounds.** In the system all variables are bounded by the design itself: there are no
counters to cap. Two addresses, one on each side of the partition, meet both outcomes of the
check and the boundary itself (`InitialPar = 1`, and in `mem_guard` the partitions 0,
1 and 2: all secret, half, all public). Two data values tell an old entry from a new
one; two tags tell the L2's request from the DMA's and allow them to be equal as well.
One request per user can be in flight, as in the code. Two cores are enough for a
request to meet the answer of another; the runs with one core or none isolate what
holds without the competition. The DMA runs start from a memory whose two entries
differ, so that a copy is visible. `DmaDomain = 1` is the constant `secure_reg`.
The queue of `network` has three entries in a pointer range of four (`NumMsgs`,
`PtrRange`), so that it wraps around by comparison, and is pipe and bypass at once. In the
ring `Sends` bounds the numbered messages of a terminal: router 0 sends three, which fill
a link of two entries and wait before it; router 1 sends one, and without end to
itself (`Endless`), so that the round robin is needed for router 0's messages to get
through.

In the label checker's modules the bounds are `MaxSteps` (six statements, or ends of
statements, of a block: two assignments around an if with both branches filled, or one if in
another), `MaxDepth` (two: a merge inside a branch), `MaxOps` and `MaxDepth` of `WellFormed` (three
operators in any shape: two comparisons, or two connectives, under a connective), `MaxSteps` of `SecTypes` (three: a join in a meet in a join, or two labels that share a
part and a renaming of both; the steps of `simplify`, and how often a label is taken up or written,
are not bounded), the constants that are written (LOW and HIGH, which `simplify` asks for; D1 and D2
are values of the family), four facts (two of one text). The variables have one bit; two label
themselves and one is HIGH, the least with which a fact can tell the labels of one
variable from those of another. The lattice has two elements in `CheckStatements` and four, two
of them unordered, in `SecTypes`. `CheckProofs` and `LabelProofs` have none of these bounds.

**Environment.** In `MemPorts` the L2 and the DMA controller may ask at any time and
for anything of their message sets; the other states of the L2 are `REST`. In
`DMASystem` a core has at most one request in flight (a DMA request blocks its
memory stage), a request spends any time in the network, the router shows it only
while the checker is ready (`RouterOutputCtrl-Sep`), and the memory port is what
`MemPorts` shows it to be: taken after any time, executed whole, answered for one
cycle. The response network always takes an answer.

**Fairness.** `MemPorts` assumes only that the clock does not stop (`WF(Next)`); all
waiting in it is of a bounded number of cycles. `DMASystem` has an arbiter, a memory
and a network in its environment: `TakesOne` and `ExecutesOne` are weakly fair since
the arbiter grants held requests and the path answers them (`HeldRequestsServed`), and
delivery of a waiting core's request is strongly fair since the routers arbitrate round
robin whenever the checker is ready; `MCDMAAlone` assumes the same. The ring assumes that
the clock does not stop (`clk` changes for ever) and that a terminal to which messages are
shown takes one again and again: the caches and memories behind the ports do. Which
one it takes is up to the router, and nothing is assumed of the `$random` arbiters.
`labels` is weakly fair to `Simplify`: it is a function in a program of one thread, and
takes its next step once it is called. Building and renaming labels is not fair, and cannot happen
meanwhile (`Idle`).

## 4. Deadlock

No specification of hardware stops: some unit always ticks, and their runs check
deadlock. The walks of the label checker do stop, at their bound or when a module, a
condition or a merge is done, and their cfgs say `CHECK_DEADLOCK FALSE`.

## 5. Theorems

The first three modules: for any sets of addresses, data and tags, any partition and any
number of cycles.

`MemGuardProofs`: `TypeCorrect`, `CheckIsStable`, `ListensInTime`, `WritesAreGuarded`.
The invariant `IInv` is `TypeOK`, `CheckStillHolds` and `InStep`, which says where the
request is in each state of the controller: in the memory's queue in MEM_RESP and
nowhere else, with the response queue empty. `HearsItsOwn` is a consequence of
`InStep`, but it does not say that the response queue stays empty, nor what the
queues hold in the states before, and so is not inductive.

`MemPortsProofs`: `TypeCorrect`, `NoRequestIsLost`, `ResponsesMatch`,
`InsecureReachesL2`, `EveryWriteIsOwned`, `PathImplementsService`.
The invariant `IInv` is `TypeOK /\ Lockstep`, and `Lockstep` has one conjunct per part:

- `UsersInStep`: a user has a message exactly while it is not at rest, and one that
  waits for a held request is the one the arbiter has granted;
- `ArbInStep`: what the request registers hold is what the users still show;
- `CtlInStep`: the controller is idle unless the arbiter waits, and then works on the
  granted request, which is allowed in the states after the check;
- `RespInStep`: the response register answers the granted user;
- `MemInStep`: the queues hold the controller's request in MEM_RESP and nothing else.

None of the properties is inductive alone: `ResponseMatches` in RESP needs the
register loaded in WAIT, which needs the controller's request to be the granted one,
which needs the registers latched in IDLE to be what the users still hold in ARB. The
proof goes over the four states of the arbiter (`LatchStep`, `ArbitrateStep`,
`AwaitStep`, `RespondStep`), with the facts about what a step of the controller
(`CtlMoves`) and of the memory (`MemStep`, from `MemLemmas`) do beside them. The
refinement maps the cycle in which the memory's response reaches the arbiter to
`Execute`, a refused request included, and every other cycle to `Submit` or `Rest`
of both ports.

`DMASystemProofs`: `TypeCorrect`, `RunningJobIsChecked`, `HoldQueueIsRight`,
`EveryWriteIsRequested`, for any set of cores and debug instructions. The invariant
`IInv` is `TypeOK /\ InStep`:

- `CoresInStep`: the checker works for a core that waits for this very request;
- `ChkInStep`: only an authorised request is past the check;
- `DebugInStep`: the debug checker is at work exactly while the interface waits, on
  the job the interface gave it;
- `StatusInStep`: the status latch is set exactly while a job runs, and no read-back
  writes;
- `RunningIsChecked`;
- `PortInStep`: the memory is busy only in the two waiting states, with the read of
  the job's source and then the write of what was read;
- `HoldInStep`: the read request has drained the hold queue.

`RunningIsChecked` is not inductive alone: when a job starts, that it was authorised
is known from `ChkInStep` and `DebugInStep`, and that the ack ends the wait of the
right checker at the right time needs the debug checker's registers to stay, hence
`DebugInStep` again. `HoldQueueCarries` needs the queue to be empty one state earlier,
which the write that follows a read-back does not give: it comes from `mem_req_rdy` of
the read request. `WritesAreRequested` is about one step, and follows from
`PortInStep`, `RunningIsChecked` and `CoresInStep`. There is one lemma per conjunct
(`CoresStep` to `PortStep`), each over the states of the unit it is about.

Three properties hold where the users do not get in each other's way, and the theorems
say so by a condition on the execution: `OneRequestIsKept` (`TakenIsChecked`, if at most
one core waits at a time), `AckIsRight` (`AckMeansCopied`, while no debug instruction
is under way, however many cores there are) and `ResultIsRight` (`DebugReadsBack`, while
no core sends). The corollaries `OneCoreIsKept`, `AckWithoutDebug` and `DebugAlone` give a
condition on the constants instead: one core, no debug instructions, no cores. That the
conditions are needed is what the runs `dma_two_cores` and `dma_with_debug` show. The first
is almost inductive; the other two rest on `CopyIsInStep`, which follows a job through
the controller: in each of its states, what has been read from the source, is on its
way, or is at the destination by now. For the debug result, the second job (the
read-back) must find the memory as the first one left it (`FirstJobStays`), and
`debug_data` must keep the value until the interface looks.

`VcQueueProofs`: `TypeCorrect`, `CountsAreRight`, `QueueRefinesFifo`, for any number of
entries above one, a power of two or not, any of the four types and any behaviour of the
neighbours. The invariant `IInv` is `TypeOK /\ InStep`: the full bit is set only with
equal pointers, `level` is the distance of the pointers (`NumMsgs` if full), and all
entries between the pointers have been written. `CountsRight` alone is not inductive, as
it does not tell where the messages are. The lemma `Shape` sorts the clock cycles into five
kinds (nothing moves, one enters, one leaves, one passes through a filled queue, one
goes around an empty one); each kind is a step of `Fifo`, by lemmas on what `Entry`, the
position behind the dequeue pointer, is after it.

`RingNetProofs`: `DomainsStayApart`, `PairsAreQueues`, for any numbers of messages and any
terminals that send without end. The invariant `NetInv` is the types, the bound of the queues and
`InPlace`: a message waits in the queue of its domain, either at the terminal it comes from
or, with no hop left, at the one port of its destination that its source sends to.
So the two ways around the ring, the two queues of an input and the latch of an output, which may
hold either domain at any time, never give a message a second place to be. `ArrivingIs` has the
loop of ready, grant and latch: the one message granted an output is shown to the queue the
latch now says, which is the queue of its own domain and has room, because the grant looks at the
ready twice, before and after the latch has changed. `PairsAreQueues` is the refinement of `Fifo` for
each pair of terminals. What is inside for a pair is, by `InPlace`, the queue on the way
followed by the messages for this destination in the entry queue (`InsideIs`); a cycle
takes the head of the first (`WayLeaves`) or moves the head of the second behind
it (`WayStep`, `SourceKeeps`), or both, while a message enters (`PutIs`); each combination leaves
the same sequence but for its two ends (`PairOfCycle`). `Only`, which picks the messages of
a pair out of a queue, is a recursive function, and since queues are of two entries at
most the lemmas about it (`OnlyIs`, `OnlyFirst`, `OnlyLast`) need no induction.
With the adaptive way into the ring (`TermRequestsAdaptive`, the mutant) `InPlace` is false.

`CheckProofs`: `Types`, `PredicateSound`, `FlowsSound`, `UpgradeChecked`, for any program, lattice, family
of labels and bounds. The invariant `IInv` is, besides the types,
what the activations on the stack must keep: `Nested` (the execution is at the point of
the walk only while each if statement around it is in the branch it took, and whenever it is so and no
case statement is around), `Others` (for
the branch that is not under check: the facts saved at the head, or those at the end of
the finished branch, hold if the execution took it), `Tainted` (the label of the program
counter has the labels of all conditions around) and `FactsHold`. `PredicateHolds` is not inductive alone: at the
else and at the end of an if, the facts come from the stack, and an item of a case statement hands its
facts to the next, which the execution may take instead. So `FactsHold` says more: the facts are true where
all if statements around are in the branch that was taken, in any item of a case statement (`Chosen`,
`UpTo`), even one the execution does not get to. `FlowsSound` needs that the facts are true,
that the state is among those Z3 was told of, and that a fresh variable equals the value assigned.
`Types` needs no assumption: part selects, wide values and case statements of all kinds keep the types.
The assumptions of `PredicateSound` and `FlowsSound` are the limits above, named: `QuietCases`
(no case statement selects by a variable facts are taken of, or has an assignment in it that a fact is taken of; with
either, `PredicateHolds` is false, finding 3),
`WholeOnly`, `ValuesFit`, `ConstantRanges`. `UpgradeChecked`
(`UnwrittenInIfsWasAlive`) has none. Its invariant `UpgradeInv` says of the activations on the
stack that the execution is in the branch each is in (`Executing`), that what an if
statement may leave alone is in `aliveVars` all through it, so that what escapes the
check is modified on every path (`LookedAhead`), and that what `mustmodify` has collected
in a branch is assigned by an execution that takes it (`Collected`). The last is false of
the items of a case statement, which may occur around and inside all the same.

`LabelProofs`: for conditions of any depth and any facts, names and labels, with no bound on their number.
`KeptFollows`, `KeptIsDeclared` and `UnderstoodIsKept` are about conditions. The parser does the
induction: `ParsedRight` says that every condition on its stack is `Right`, and
`ConnectRight` that an operator over two such operands is. `PlainImplied` needs more than itself there: without
connectives a condition is kept as it is or not at all (`Unconnected`), since for the operand
of a comparison implication is not enough. With connectives under a comparison this is false, and so is
`AlwaysImplied`.
`NoFactMadeUp` and `MergeKeeps` are about the merge: the first says that the intersection keeps common
facts only, whatever the order of the two sets in memory; the second that it keeps all if the
branches changed nothing (both iterators go together, `Together`) or the sets lie in the order of their texts
(`Left`: every common text not kept yet is still ahead of both iterators).
`ConnectionsSound` and `SameLabelsConnect` are about instances. Renaming is a
recursion over all names of a module, so here an induction is needed: `UpToInduction`, derived from the
well-foundedness of < on the numbers, is enough since it is about a set of numbers and not about
a predicate. `RenamedMeans` says that a renamed label has the value of the
label in every state in which the renamed names have equal values, and `Joint` is the state
of both modules together, in which they have. It exists because of `OneMeaning`. `ConnectionsSound` is for directions other than `inout`, of which the
checker looks at the flow inwards only.

`CallsInvariant`, `LabelsMean`, `LabelsDepend` and `SimplifyStartsOverOnce` are about
`SecTypes`, for any lattice, family, variables and number of objects. What the virtual functions
answer for an object is a recursive function of the objects (`AnswersIn`), and `AnswersAre`, the
equation it satisfies, holds because parts are older than what they are parts of
(`Heap`). The invariant `CallsInv` has four parts besides the types. `MadeOfParts`: every object means
its parts, joined or met; so putting a label of the same meaning in the place of a part changes no meaning, and
none has to be followed through all the objects that share it. `CallsMean`: each call is on an
object older than its caller's, with the meaning of the part its caller waits for; this is
what the outcome is put in the place of. It is needed because a part may have been overwritten
since the call began, by the call itself. `CallsOpen`: the
parts a call has tested, and those it calls on, are neither bottom nor top, so no outcome is a
lone LOW or HIGH. `CallsPure`, for labels of one operator (LOW is the unit of joins, HIGH
of meets): a part that a call has replaced has no unit left.
That an outcome means what the call was for is one lemma per kind of return, and each follows from the
lattice's axioms (`LatticeAssumption`). `MeaningKept` then says of objects what `MadeOfParts` says
of one step: an induction over the age of objects (`UpToInduction`). `SimplifyStartsOverOnce` is the
heart of why `simplify` ends for such labels; that it does, `EndsUnmixed`, needs fairness.

Assumptions otherwise: the `ASSUME`s of the modules only. Addresses are naturals, `Unknown` is no
data, `NoMsg` is no message (nor a job, a request or an instruction: a wire that is
not valid carries none), the partition is a natural number, and `MemDomain = 1`
in `MemPorts` (the top module ties `memreq_domain` of `data_mem` to 1).

Model-checked only: the liveness properties (`HeldRequestsServed`,
`DirectServedWhenIdle`, `TakenIsAnswered`, `DebugEnds`, `EveryMessageArrives`, `EndsUnmixed`), which
need fairness and are beyond the prover.

## 6. Not modelled

- The amo types and `mem_clear` of the memory, and `len`. The instruction memory has no
  arbiter; its address controller is an instance of `MemGuard`.
- L2 cache and prefetch buffer, and the rest of the L2 wrapper. The sources contradict
  each other where it matters for the data: the prefetch buffer is instantiated with its
  default of 32 data bits between neighbours of 128, and with a port `insecure` it does not
  declare, and its write enables cover 4 bytes of a line of 16. The controller of the L2
  cache declares `insecure` and does not read it, while its wrapper, when a refill is
  refused, expects it to go on.
  What of the wrapper concerns the memory path is in `MemPorts`.
- L1 caches and the processor's pipeline. A core is an environment that asks and waits.
- The adapters' packing of messages. `MemNet-sep` connects ports `in_domain` and
  `out_domain` the ring does not declare, and its sixth parameter by position sets `pc`,
  the width of the control payload, to 1 in the request network.
- Noninterference, the theorem SecVerilog is about: it relates two executions. The
  properties here are what its proof rests on in each execution.
- In the label checker: quantified labels (`QuantType`, of arrays and vectors), write
  labels, invariants given by the programmer, tasks and loops; statements it throws
  at (the exception is caught per module, so what comes after such a statement is not checked).
  The rest of Icarus Verilog is third-party code that the repository only adds to.
- The other versions of the system are the same design at other stages. `bugs` holds
  two short inputs for the compiler.

## 7. Plan

In this order, the most important behaviour first. Done: groups 1, 2, 3 and 4.

1. **Memory path**: `MemMsgs`, `VcQueue1`, `MemArbiter`, `MemAddrCtrl`, `TestMem`,
   `MemPath`, `MemPorts`, `MemService`, `MemGuard`, with proofs.
2. **DMA and debug**: `DMAController`, `DMAChecker`, `DebugPort`, `DMASystem`, with
   proofs. What could follow: `DMASystem` on the real `MemPath` in the place of its
   abstract port.
3. **Label checker**: `CheckFacts`, `CheckStatements`, `WellFormed`, `FactMerge`,
   `SecTypes`, `ModuleInst`, with proofs. What could follow: `QuantType`.
4. **Queues and networks**: `Fifo`, `VcQueueN` with proofs, `RingNet`, with proofs. What could
   follow: a ring of three routers, where the way around is a choice, and the adapters.
5. **L2 and L1 side**: the wrapper with the control of the inner cache and of the
   prefetch buffer on `MemService`, and `BlockingL1CacheCtrl` with the refused refill;
   first the contradictions of section 6 have to be settled.
6. **Processor control**: stalls and squashes against late memory responses.
