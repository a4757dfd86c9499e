# Verification of SpiNeMap

SpiNeMap maps a spiking neural network onto a many-core neuromorphic chip: it
takes the connections and spikes of an application, packs the neurons into
crossbars (clusters), places the clusters on the nodes of a network on chip and
simulates the spikes on that network with snnNoxim, a SystemC simulator.  This
directory holds TLA+ models of the parts of it that decide, the properties that
make them correct, the TLC runs that check them on small instances, and proofs
of the most important ones for instances of every size.

## 1. The system

| Part | State | Operations | Talks to |
|---|---|---|---|
| Parsers (`Parser/`) | none | log or model file -> connections, spikes | files |
| Unrolling (`SNNPartitioning/include/unroll`) | neurons with input and output lists | split a neuron with too large a fan-in into a chain | clustering |
| Clustering (`SNNPartitioning/include/cluster`) | clusters: input and output sets, connected clusters | pack inputs into crossbars, connect the components, print | files |
| Placer (`SNNPlacer/pso/placer.py`) | cluster map, node map, spikes per cluster | read the partition, place at random, write the files of the simulator | files |
| Driver (`NeuroXplore.py`) | running stages | start one process per stage, wait for some | processes, files |
| Tables of the simulator (`NeuralNetworkParser`, `GlobalTrafficTrace`) | node map, destination lists, one list of pending spikes per node | load; `canShot` | processing elements |
| Processing element (PE) | packet queue, two alternating-bit levels | `rxProcess`, `txProcess`, once per clock edge | its router, by signals; the trace, by calls |
| Router | an input buffer per port, reservation table, rotating start port, alternating-bit levels | `rxProcess`, `txProcess`, once per clock edge | four neighbours and its PE, by signals |
| Routing algorithms, selection strategies | none | candidates for the next hop; choose one | called by the router |
| Wireless hubs, token ring, channels | antenna and tile buffers, tokens, reservations | `antennaToTileProcess`, `tileToAntennaProcess`, `updateTokens`, transport threads | routers, each other |
| Segmented bus | switch settings, spikes on segments | `updatePort`, `processClock` | by signals |
| Statistics, power, configuration | counters, constants | accumulate, read | nothing depends on them |
| CARLsim kernel (`CARLsim5/carlsim/kernel`) | per partition: firing tables, time tables and counts of the second; generator slices and ring | `runNetwork`: generate, fire, route, deliver, advance; shift the tables each second | monitors; one thread per partition and phase, joined; the source of the applications' spikes |
| CARLsim monitors (`CARLsim5/carlsim/monitor`) | recorded vectors, log files, recording clock, cached rates, snapshots of weights | `update...Monitor`, called by the kernel; `startRecording`, `stopRecording`, `clear`, `setLogFile`, `takeSnapshot` and others, called by the user | the kernel, files |

What is hard here: all processes of the simulator run once per clock edge in an
order SystemC leaves open, and the two processes of a router share its buffers;
flits cross links under an alternating-bit handshake; packets longer than a
buffer stretch over several routers and can block each other; adaptive routing
makes the path a choice; the spike trace counts destinations in one place and
sends in another; the hubs share one radio channel by a token whose state they
read a cycle late, refuse flits and retry, and reserve ports from head to tail;
the CARLsim kernel delivers a spike by reading back tables that several threads
append to and that are moved at the end of each second; its monitors fetch from
buffers of one second, at times the user and the clock set; the stages of the tool
chain run concurrently over shared files.
`PROJECT.json` lists the hazards at their lines, with the properties that would
catch them.

What makes each part correct:

* routing: on the mesh, minimal, arriving, no excluded turn;
* router and PE: no flit lost, copied or overwritten, packets whole and in
  order, output ports held exactly while a packet passes;
* network: every packet delivered exactly once, in order per flow, never blocked;
* trace: every spike sent to each destination once, earliest first;
* hubs: one transmitter at a time, packets whole at the tiles, all of them arrive;
* kernel: each spike delivered to each synapse once and when its delay is over,
  recorded once, generators on time, tables and counts in agreement;
* monitors: each millisecond recorded and logged once, with its own data, in
  order; a snapshot for each time asked for, with the weights of that moment;
* unrolling and clustering: connectivity kept, crossbar limits kept;
* driver: a stage reads what the stage before it has finished writing.

## 2. Modules

| Module | Models | Code |
|---|---|---|
| `Routing` | mesh geometry, the routing algorithms, as operators without state | `Router::getNeighborId`, `route`, `routingAlgorithms/*.cpp` |
| `RoutingWalk` | one head flit under any algorithm: `Hop` | `Router::routingFunction`, `selectionFunction` |
| `NoC` | mesh of routers and PEs: `RouterRx`, `RouterTx`, `PeRx`, `PeTx`, `ClockEdge` | `Router.cpp`, `ReservationTable.cpp`, `ProcessingElement.cpp`, `NoC.cpp` |
| `NoCProperties` | the properties of `NoC` and the refinement mapping | |
| `PacketNet` | abstract network: `Send`, `Deliver`; counts the deliveries of each packet at each node | what `NoC` implements |
| `SpikeTrace` | the files, the tables made of them, `Cycle`: `canShot` of every PE | `NeuralNetworkParser.cpp`, `GlobalTrafficTrace.cpp` |
| `Unroll` | the connection and spike files, `UnrollNeuron`: one round of the loop that splits neurons with too many inputs | `unroll.cc` |
| `Clustering` | extends `Unroll`: `StartNeuron`, `TryCluster`, `NewCluster` pack the inputs of a neuron under all three algorithms; `FindComponents`, `Connect`, `Finish` connect the clusters | `cluster.cc`, `cluster.hh` |
| `Hubs` | hubs on one radio channel: `TileTx`, `TileRx` (the routers), `UpdateTokens` (the ring), `TileToAntennaProcess`, `AntennaToTileProcess`, `Transmitted` (a radio thread), `ClockEdge` | `Hub.cpp`, `Initiator.cpp`, `Target.cpp`, `Channel.cpp`, `TokenRing.cpp` |
| `SNNPartition` | which groups a partition knows, local and global ids, delay classes, the routing table; no state | `compileGroupConfig`, `partitionSNN`, `assignGroup`, `collectGlobalNetworkConfigC` |
| `SpikeKernel` | a millisecond of the kernel: `Schedule`, `ClearBits`, `FillBits`, `CopyBits`, `StepBuffer`, `FindFiring`, `UpdateTimingTable`, `RouteFork`, `ConvertRead`, `ConvertWrite`, `RouteJoin`, `DoCurrentUpdate`, `AdvanceTime`; `FinishSecond`; `RunNetwork`, `FinishRun` | `snn_manager.cpp`, `snn_cpu_module.cpp`, `spike_buffer.cpp` |
| `SpikeKernelProperties` | the properties of `SpikeKernel` | |
| `SpikeKernelInvariants` | the inductive invariants they follow from | |
| `Monitors` | spike, neuron and group monitors: `RunNetwork`, `Step`, `FinishSecond`, `FinishRun`; `StartRecording`, `StopRecording`, `Clear`, `SetPersistentData`, `SetLogFile`, `GetAllFiringRates`, `GetAllFiringRatesSorted`; `Delete` | `monitor/*_monitor*.cpp`, `snn_manager.cpp` |
| `ConnectionMonitor` | extends `Monitors` by the snapshots of weights: `Run`, `Advance`, `UpdateAll`, `TakeSnapshot`, `CalcWeightChanges`, `SetUpdateTimeIntervalSec`, `ChangeWeights`, `DeleteAll` | `connection_monitor*.cpp`, `snn_manager.cpp` |
| `MCNoC`, `MCHubs`, `MCSpikeTrace`, `MCClustering`, `MCSpikeKernel`, `MCMonitors` | traffic, files and applications for TLC | |
| `RoutingLemmas`, `RoutingProofs`, `NoCProofs`, `SpikeTraceProofs`, `HubsProofs`, `SpikeKernelProofs`, `ClusteringProofs`, `MonitorsProofs` | theorems | |

A node is its coordinate pair; `Id` gives the number.  The signals of a link are
records `req`, `flit`, `ack`, named by the transmitting end.  SystemC's
evaluate/update semantics is kept: `sig` is what processes read, `wr` what they
wrote, `todo` the processes that have not run in this edge, and `ClockEdge`
makes the written values readable.  Each action is a whole process: `RouterRx`
goes over all input ports, `RouterTx` does the reservation phase, the rotation
of the start port and the forwarding phase.

Definitions whose comment begins with *Slip* are deliberately wrong variants of
the definition that follows.  Nothing uses them; substituted for it, each makes
a property fail, which shows that the property depends on the code.

The algorithm of a network is a variable that `Init` chooses from
`RoutingAlgorithms` and nothing changes, so that one run covers several; the
policy of the token and the duration of a transmission in `Hubs` likewise.

`Hubs` keeps the edge of `NoC`, but lets the processes run in one order: they
share nothing within an edge, and the ring, which reads the flags of the hubs
without the delay of a signal, is let run before they write them.  A hub is
modelled whole: reservations of the channel, rotation of the start port,
transmission, retry after a refusal; so is the difference between what the ring
counts and what the hubs read of it.  The router at the other end of a link is
an environment: it sends its flits at its own pace, and may find its buffer
full where `SlowTile` says so.  There is one channel; its hubs are numbered from
0 and all of them are in the ring, because the ring takes its position for the
number of a hub (`TokenRing.cpp`).  The levels of the links start at 0, which
no reset sees to (see `noc_boot`).  The shipped configuration has `use_winoc`
false; with it true and the packet size of 1 it asks for, see `NeverBlocks`.

`SpikeKernel` has an action for each phase of a millisecond.  The kernel starts
a thread per partition in a phase and joins them before the next; where these
threads touch only their own partition the phase is one step.  They share two
things: the bits of the spike generators, which each partition's thread clears,
fills and copies in place of the others, and the spike count of the partition
that spikes are routed to, which each group's thread adds to without a lock.
There every read and write is a step.  Which neurons fire is free, as it is
decided by dynamics in floating point.  Tables are as long as needed; the test
that drops a spike from a full table (`HasSpace`) is kept, with `MaxRate` for
the code's 500 spikes per neuron and second.  Excitatory and inhibitory groups are
one kind, external groups are numbered by their ids.  The partitions are on the
CPU; the steps on a GPU are the same, without the threads.

`Monitors` takes the kernel as a clock with a buffer: what a group did in each
millisecond of the running second is the number of that millisecond, and stays
in the buffer until the next second overwrites it or, for spikes, the shift
empties it.  A sample pairs that number with the time the update computes, so
that data in a wrong place shows.  A monitor touches nothing of another one, so
one monitor of each kind is watched, on the clock they share; `kind` says which.
The methods are the calls of the user between two runs; those the code refuses
with an assertion are not enabled.  The weights of a connection are a version
number that any millisecond of plasticity and any `biasWeights`, `scaleWeights`
or `setWeight` raises.  History variables (`window`, `logged`, `cut`, `held`,
`due`) say what should have been recorded and are read by properties only.

Abstractions: a flit is its packet, its number and its hop count; times of
flits, payload, power, statistics and the stop on a drained volume are left
out.  `r_time` counts up to `router_cycle`, beyond which the code does not
distinguish; `start_from_port` is kept modulo 6, as it is used (its overflow
after 2^31 cycles is not modelled).  The selection strategy is any choice among
the candidates, which covers RANDOM, BUFFER_LEVEL and NOP.  The hub port is left
out: `use_winoc` is false in the shipped configuration.  A packet becomes due in
a cycle chosen from `Times`, and a PE fires its due packets in order, at most one
per cycle, as `canShot` does.  The clock `now` stops counting when nothing more
becomes due.

## 3. Runs

| Run | Instance | Shows |
|---|---|---|
| `routing_walk` | 4 x 3 mesh, all six algorithms, all pairs | directions are valid, hops minimal, channels ranked, odd-even turns kept |
| `noc_row` | 3 x 1, XY, depth 2, four packets of 2, 3, 1, 1 flits, due in cycle 0 or 1, a router's processes in either order | types, flit conservation, intact packets, wormhole reservations, order in the buffers, no overwriting, implements `PacketNet` |
| `noc_mesh` | 2 x 2, XY, the three turn models and ODD_EVEN, depth 1, four packets of 3 flits in a ring, due in cycle 0 or 1, any selection | no port off the mesh is asked for, every packet arrives |
| `noc_boot` | 2 x 1, link levels uninitialised | *violated*: phantom flit |
| `hubs` | three hubs, four tiles, three policies, transmissions of one and two cycles, packets of two flits: two hubs that send to one tile, or two tiles of a hub that ask for the channel | packets whole, one transmitter, every packet arrives |
| `spike_trace` | three clusters, four nodes (one routing only), all connection tables of two senders, traces of five spikes | each destination once, in time order, the spike in use first, all leave |
| `spike_trace_alias` | as the placer draws node maps | *violated*: a destination is lost |
| `spike_kernel` | two partitions, three groups, five connections of delays 1 and 2, seconds of 3 ms, calls of 2 and 3 ms | spikes delivered on time and recorded once, generators on time, counts and time tables agree |
| `spike_kernel_shift` | the same | *violated*: the shift of the tables keeps the wrong spikes |
| `clustering` | six neurons, every fan-in, crossbar size, algorithm and choice | fan-in bounded, edge lists agree, same network after unrolling, spikes of links; crossbar limits and the other asserts, every input gathered, one cluster per neuron, added neurons silent, components connected if they have a sink, an end |
| `monitors` | a monitor of each kind, seconds of 3 ms, runs of 0, 2 and 4 ms, intervals of none, 1, 2 and 3 s, two log files | recordings, log files and cached rates complete and of the right times; snapshots of weights all there, with the current weights unless they are stale (see Findings) |
| `spike_trace_in_use` | four clusters, three nodes | *violated*: a spike in use is overtaken and loses a destination |

Bounds.  The mesh of `routing_walk` has even and odd columns, corners, edges and
an inner node, which are all the cases the algorithms tell apart.  `noc_row` has
contention for a port from two sides and from the PE, a through packet, packets
of one flit (head and last at once), of two and of three (a body), two packets
of one flow, and buffers of two slots (empty, partly full, full).  In the 2 x 2
runs each packet is longer than the one buffer it can fill on its way, so a ring
of waiting wormholes forms as soon as turns are not limited; letting XY take
the rows first on one of the diagonals makes TLC find the deadlock.  Order of
processes: tiles share only signals, and a signal read before the update cannot
be told from one read after another process ran, so the order among tiles does
not matter; the order of the two processes of one router does, and `noc_row`
takes both in every edge and router.  `noc_mesh` fixes it, receive first, to
keep the state space small.  `StepCycles` is 1 for the 100 cycles
per unit of spike time: it only lengthens the gaps.

`clustering` takes each fan-in (none, 2, 3), crossbar size (2, 3, 4) not below it
and algorithm, with six neurons; neuron 4 has three to five inputs, so chains of
two to four links, and may feed itself; neuron 3 is unrolled, too, and feeds 4;
neuron 0 closes loops; neuron 5 may have six inputs, so that with fan-in three
and crossbars of four a chunk ends within a link.  In the stars one neuron feeds all others, which gives up to three
components and crossbars of size 2, so that a full connecting cluster is linked
to the next.  Crossbars of size 1, fan-in 1 and several lines for one source are
excluded by assumptions, with the reasons at the hazards.  The partitioner is a
sequential program: its only choices are the random cluster, the order `std::sort`
gives equal elements, and the sink the search meets first, all of which are free.

`hubs` has three hubs, so that the token can go to one that has nothing to send
between the two that do; one with two tiles, so that the channel is contended
for inside a hub; buffers of one flit (two before the antenna), less than a
packet, so that every buffer is full at times; a hold time of 3, which lets the
token leave in the middle of a packet; and a tile whose router is full at times.

`spike_kernel` has seconds of three milliseconds and spikes up to the fifth, so
that the second ends with spikes of delay 2 on their way.  Calls of
`runNetwork` of 2 and 3 ms end at, before and after the end of the second.  Up
to three spikes fire by themselves and up to three by the generator; with
`MaxRate` 2 these fill a table.  Spikes of both classes go from partition 0 to
1 in one millisecond, and every group has different local ids in the two.  The
race of the counts needs two groups of one class that are sent to one
partition, which `Exclusive` excludes (see Conditions).

`monitors` has seconds of three milliseconds, so that runs of 2 and 4 end at,
before and after the end of a second, and one run can hold two such ends; six
milliseconds leave room for three runs and for a recording stopped and resumed.
A run of no duration and calls in any order between runs put two updates at one
time.  With two files the first can be taken again.  With seconds of three
milliseconds an interval of two seconds is kept, as 3 s is in the program, and
one of three seconds is not, as 2, 4, 5, 8 and 10 s are not: the first second is
three milliseconds.  Two versions of the weights beyond the first are enough for
a change before and one after a snapshot.

Conditions.  Some properties hold only where the code is used in a way it does
not check.  Each condition is a named part of the property, and without it TLC
finds the property violated:

* `Exclusive`: no partition sends another one spikes of two groups of one delay
  class.  Otherwise the threads of `routeSpikes` can lose an update of the
  count, and the next spikes overwrite some of the last.
* `RoutesOnce`: no two entries of the routing table are equal.  `unique()` drops
  only neighbours, so that spikes can be routed twice.  In `DeliveredOnTime` they
  would arrive twice.  In `GeneratorsOnTime` they would fill the table of the
  generators' own partition before as many spikes as it has room for were fired,
  so that generator spikes are lost to a table that is not crowded; TLC shows
  it with three partitions that share routes 0 to 1, 0 to 2 and 0 to 1 again.
* `CleanShift`: nothing fired `maxDelay + 1` ms before the second ended (the
  finding `spike_kernel_shift`).
* All generators in one partition, in `GeneratorsOnTime`: the threads of two
  partitions share one array of bits.
* `NeverBlocks`, in `EveryPacketArrives` of `Hubs`: packets have two flits at
  least, as only a TAIL releases what a HEAD has reserved; and under
  TOKEN_PACKET no two hubs send to one tile, or a hub that keeps the token for
  a refused HEAD waits for the TAIL of one that needs the token.
* The first line of `OneTransmitter`: under TOKEN_PACKET and TOKEN_MAX_HOLD the
  token moves two edges after a hub released it, and a flit of two cycles that
  the hub begins in between overlaps the flit of the next hub.
* `cut`, in `LogsWhole`: `runNetwork` ends without an update of the neuron
  monitors (`snn_manager.cpp:897`), so that another log file gets the states of
  the milliseconds left.
* `"early"` and `"stale"`, in `WeightsOverTime`: two disagreements of the code with
  its comments, which the property describes instead of excluding the runs they
  happen in (see Findings).
* A sink in each component, in `ConnectedIfSinks`: `connectedComponents`
  announces to "Connect all the disconnected graph" (`cluster.hh:450`), but
  takes a neuron only from components with a cluster that feeds no other; a
  recurrent component stays on its own.
* `refused`, in the properties of `Hubs`: a hub sends a flit on each cycle and
  does not look at the acknowledge (`Hub.cpp:256`), so that a full router loses
  flits.

Fairness is weak fairness of the next-state relation: the simulation kernel
keeps running processes and clock edges until the simulation time is over.
Nothing else is assumed, in particular no fairness of the arbitration.  The
simulation time itself is not bounded in the models.  Weak fairness of the
partitioner says that the program runs on.  In `Hubs` the clock ticks for ever;
the routers are strongly fair in sending, because a router tries in every cycle
to forward what it holds but finds its link to the hub taken now and then.  No
fairness is assumed of the hubs, whose processes run in every edge.

Deadlock is checked in all runs but `routing_walk`, where a walk ends at its
destination, those of the partitioner, which ends, and those of the kernel and
its monitors, which stop when the last call of `runNetwork` returns or the
simulation is deleted.

## 4. Findings

* `noc_boot`: the comments at `Main.cpp:156-158` announce a reset, but `reset` is
  written 1 and 0 before the simulation starts, so no process ever sees it and
  the alternating-bit levels keep whatever the memory held.  If a receiver's
  level starts at 1 it accepts a flit nobody sent.  The other runs, and the
  theorems about the network, assume levels that start at 0.
* `spike_trace_alias`: `GlobalTrafficTrace::load` looks destination *nodes* up as
  if they were *groups* (186).  If the number found is the node of the source,
  the count of destinations is one too low, and a destination never gets the
  spike, or the spike is dropped altogether.
* `spike_trace_in_use`: `canShot` advances the spike in use and an arbitrated one
  in the same call but returns one destination.  It takes two clusters on one
  node, which happens when the placer runs out of nodes.
* `spike_kernel_shift`: at the end of a second `shiftSpikeTables_CPU` copies the
  firing table from `timeTableD2[999]` on (`snn_cpu_module.cpp:1318`) and
  rebases the times by `timeTableD2[1000]` (1323).  The front of the table then
  begins with spikes of the millisecond before the last `maxDelay` ones, and
  those on their way are read as other neurons' or at other times.

Two more disagreements have no run of their own; `WeightsOverTime` states exactly
how far the promises are kept, and TLC finds it violated without either
exemption:

* Intervals of snapshots (`"early"`): `connection_monitor.h:475` says "The first
  snapshot will be written at time t=0, and every intervalSec seconds later", but
  `updateConnectionMonitor` tests the interval against the time in milliseconds
  (`snn_manager.cpp:6223`).  Every multiple in seconds is one in milliseconds, so
  no snapshot is missing; but 2, 4, 5, 8 or 10 seconds give one every second.  An
  early snapshot is allowed just at a second that is no multiple of an interval
  although its milliseconds are (`OnlyInMs`).
* Stale snapshots (`"stale"`): `connection_monitor.h:493` says "takes a snapshot of
  the current weight matrix, stores it in the binary as well as returns it", and
  172 that `calcWeightChanges` reports "the difference between the current state
  of the weight matrix and what it was when taking the last snapshot".  But
  `updateStoredWeights` takes new weights only if the time has advanced since
  (`connection_monitor_core.cpp:439`), and the constructor's `init` stores those of
  time 0.  Two steps suffice: `setWeight`, `scaleWeights` or `biasWeights` before the
  first run, then `takeSnapshot`: it writes and returns the weights before the
  change.  In the property, `edited` says that the user changed weights after those
  of this time were stored; only then may a snapshot of the user or the stored
  matrix differ from the current weights, and only by being older weights of the
  same time.  The snapshots of the schedule and the last one read the weights anew,
  but as the file never contains the same timestamp twice (`connection_monitor.h`, 77)
  a stale one of the same time, written first, stands for them too.

Two more things the partitioner does, seen while modelling: with a fan-in of
three or more, smaller than the crossbar, a chunk can end among the last inputs
of a neuron, which then is an output of two clusters, each with a part of its
inputs (`OneCluster` states the cases in which it does not).  If it ends among
those of an intermediate link instead, that link is computed without its other
inputs, which go to the next chunk, although its spikes count theirs: with six
inputs, fan-in three and crossbars of four, link 2 takes inputs 4 and 5, the
first chunk inputs 1 to 4, and the second link 2, 5 and 6.  The neuron itself
still gathers everything (`EveryInputGathered`); `WholeLinks` is the condition
under which every link does, too.  And when more
components than a crossbar has rows are connected, `printClusterStats` follows a
pointer nobody set (`AddedNeuronsSilent` states the other case).

## 5. Proofs

`RoutingProofs` proves, for meshes of any size and every set of algorithms,
`TypeOK`, `RouteIsValid`, `Minimal`, `ChannelOrder` and `OddEvenTurns`.  The
inductive invariant says more than the properties: a flit stays inside the
rectangle of its source and destination (`Within`); under the algorithms with a
turn rule, having come by a direction tells where the destination lies
(`CameByRoute`), which is what excludes the forbidden turns of the next hop.
`RoutingLemmas` has the geometry: each algorithm answers only directions
towards the destination, a hop towards it shortens the distance by one, and
along the hops of each ranked algorithm the rank of the channel rises.

`NoCProofs` proves, for every mesh, traffic, buffer depth, algorithm and process
order, that the network keeps its types, that `NoOverwrite` holds of every link,
and that the reservation table never throws (`NeverThrows`).  It assumes
`InitLevels = {0}`, stated in each theorem: `noc_boot` shows what happens
otherwise.  The inductive invariant describes each link (`LinkOK`) by the two
levels, the signals readable and written, and whether the transmitter and the
receiver have already run in this edge: these decide which of four stages of the
handshake the link is in, and a transmitter that finds the link idle finds it
empty.  `QueuesOK` and `PortsOK` add that packets in a queue have flits left and
that exactly the ports off the mesh are invalid.

On these it proves `Wormhole`, `BuffersInOrder` and `PacketsIntact`, from the
same assumption and under every algorithm and selection.  None of the three is
inductive: that the flit which arrives next is the one that continues the packet
in a buffer depends on the buffer it comes from, that one on the reservation of
the router, and so on back to the PE.  `WormInv` follows a packet all the way.
`OutputsOK` says that an output is reserved just while what it sent last was not
the end of a packet, and for an input that holds no other; `LinesOK`, that the
flits of a buffer follow each other, that its front follows what last passed the
output it holds, and that what is on the link, or else whatever may come on it
next, follows its end.  `SourcesOK` and `SinksOK` say the same of the two ends,
the queue and what a PE has received.  For `PacketsIntact`, `BuffersOnPath` and
`LinksOnPath` add that every flit is on a shortest path and has counted its
hops, `PacketsAtHome` that a packet is queued at its source, and
`FlitsDelivered` that what a PE has received was sent to it.

`NoCProofs` then proves the rest of the properties of `noc_row`.
`FlitConservation` is a statement about sums; `PlaceInv` says it place by place:
each flit of a fired packet is in exactly one of the places it can be in, a
queue, a link, a buffer or what a PE has received (`Placed`), and each process
moves flits from one place to another (`RxMove`, `TxMove`, `PeMove`,
`SendMove`).  That these places are as many as the flits of the packet then
follows from the theorems about finite sets.

`ImplementsNetwork` is the refinement: the network implements `PacketNet` (a
packet is sent once, delivered at its destination once and whole, and packets of
one source and destination are delivered in the order they were sent), for every
mesh, traffic, buffer depth and process order, under XY and `InitLevels = {0}`.
The order needs both.  All packets of a flow then take one path (`RouteInv`, from
the geometry of `RoutingLemmas`), and `InTurn` says that the last flit of an earlier
packet is ahead of all flits of a later one: further on along the path
(`Passed`), or before it in the same queue.  Each process moves a flit at most
one place on, from the front of a queue to the end of the next (`AheadStep`,
`Orderly`).  When the last flit of a packet is received, the earlier packets of
its flow are therefore at the same place (`EarlierOnesThere`), which is the guard
of `Deliver`.  Under an adaptive algorithm the theorem is false: with WEST_FIRST
on a 2 x 2 mesh, two packets of one flit for the opposite corner and a third,
long one that holds a port of the way in between, TLC finds the second packet
overtaking the first.  The code numbers no packets and a PE takes them as they come.

`SpikeTraceProofs` proves the three safety properties of the trace,
`EveryDestinationOnce`, `LeaveInTimeOrder` and the action property `InUseFirst`,
for every mesh, connection table and trace, from `SpikeTraceAssumption` and for
behaviours that begin with `GoodFiles`: every cluster has a node, no node of a
destination bears the number of a cluster on the source's own node, and the lines
of a node are in the order of their times.  The first and the last are what
`placer.py` writes when the mesh is large enough; the second it does not ensure,
which is the finding `spike_trace_alias`, and without the first there is
`spike_trace_in_use`.  The instance of `spike_trace` satisfies all three.  None of
the properties is inductive, since `canShot` may shoot two entries in one call,
the one in use and one before it, and makes a packet for one of them only.
`TraceInv` excludes that: an entry says exactly how many packets were made for its
line (`Entry`), a line that is not finished is still in the trace (`TraceOf`), and
no line has begun unless those before it are finished (`OneByOne`).  After the scan
of `canShot` the trace of a node thus begins with the entry in use, if there is
one, and all behind it are unused (`ErasedTrace`); nothing is then left for
`arbitrate`, or, with no entry in use, the first is the earliest (`FirstShot`).
`NeverIdle` is what `EverySpikeLeaves` rests on besides fairness: a cycle in which
a line of a node is due and not finished makes a packet for one of its lines.

`ClusteringProofs` proves `FaninBounded` for every application, spikes and fan-in
of at least 2 (`UnrollAssumption`; with 1 the code divides by zero), through all
of unrolling and clustering.  The inductive invariant (`UnrollInv`) adds that the
loop runs only if a fan-in was given and that neurons are numbered without gaps,
so that a new link never takes the place of another neuron.  The core is
arithmetic (`LinkLength`): rounding the number of links up leaves the last link
at most `max_fanin - 1` inputs beside the link before it.

It also proves `EdgesAgree` on top of that invariant, for every
application and fan-in.  `EdgeInv` adds only that the lists name neurons that
exist: unrolling rewrites the input lists of one neuron and its new links and
the output lists of its inputs in one iteration, and the proof compares, for
each pair of an old, a new and the unrolled neuron, what either side says of
the edge afterwards.

`SameNetwork` and `SpikesKept` speak of all neurons that reach a link through
the chain, which `Upstream` gathers by a recursive function.  `LineInv` says what
unrolling leaves: the links of a chain follow each other (`Line`), each takes the
one before it and its own share of the inputs (`Own`), a neuron without a chain
has the inputs the application gave it, and a link fires with all the shares up
to its own (`OwnUpTo`).  Step i of the recursion then has a closed form
(`Behind`): the i links before, their shares, and the inputs of the link itself.
That it has is shown for all i at once by the least i at which it had not
(`LeastOf`), since the induction rule of the library is out of reach; after as
many steps as the chain is long, all of it is reached (`UpstreamOf`).  What is
left is that the shares of all links are the inputs the neuron had (`LineMade`),
and that later iterations, which rewire other neurons, leave a line as it is
(`LineKept`).

`CrossbarLimits`, `MapsAnswer` and `AddedNeuronsSilent` follow from a second
invariant of the same module, `PackInv`, under `UnrollAssumption` and
`ClusteringAssumption` only.  `ChainsOK` describes what unrolling leaves: no two
links of a chain take the same input, and the neuron itself, the last link,
takes one.  So each input that is gathered has one answer in the input-output
map, and the last one is answered by the neuron itself; `Listed` says this of
what is left to pack, with the exception of the first: a link that a chunk
computed, put back in front, is an input of the next link, not of a chunk of its
own.  What fits fits in part, so the number that can be packed is the length of
the longest beginning that fits (`InitialPart`), at least two of them where a
chunk is packed but for the last, which is why the exception is never looked
up.  The remaining parts are for the connection of components: every cluster has
an output (`ClustersUsed`) and its neurons exist (`Members`), and the crossbar
that is being filled has no more inputs and outputs than `num_new` is above a
multiple of the crossbar size (`Filling`).  The inputs to pack are stated by
their places in the chain rather than by recursion, so that all of this can be
proved.

`OneCluster` is about where in a chain the chunks end, which the clusters do not
record.  `ShapeInv` first gives the lists of the links in closed form (link `k`
lists the one before it and its share of the inputs), from which each input of
the list to pack has one link that takes it (`Taker`), and of two inputs the
earlier has the earlier link.  `ProgressInv` then says, for every neuron that the
loop has come to, that places `end[k]` exist, of the last input in the last chunk
that computed link `k`: `end[k]` is one of the inputs of link `k`, every input up
to there has reached a cluster that computes it, directly or through an earlier
link (`Reaches`), and what is pending are the inputs behind the greatest of them,
with at most one intermediate link in front (`Remains`).  With fan-in two, or a
fan-in as large as the crossbar, every chunk ends with the last input of a link
(`EndsFirst`, `EndsNext`, `EndsOfTwo`), so that the link of the next chunk is a
later one, which no cluster computes yet; a neuron the loop has passed has nothing
pending left, and the links of different neurons differ (`LinksOfOthers`).  With
other fan-ins the places are the same, but a link may be computed twice, which is
why the property names its two cases.

`EveryInputGathered` needs no more: for a neuron that the loop has passed the
place of the last link is that of the last input (`NothingLeft`), and the inputs
that were packed are all it had (`AllPacked`), since what does not fit into a
crossbar was unrolled.  `Gathered` is a recursive function; that it exists for
every length (`StepsBack`), and that it collects all inputs up to the place of the
link it starts from (`GatheredUpTo`), are shown by the least number of steps and
the least link for which it would not.

`ConnectedIfSinks` is about what a search reaches in a graph that later grows.
`Component` visits in each step all clusters connected to those it has visited; it
is closed after as many steps as there are clusters, since if every step had found
another there would be more (`SearchClosed`, by the least step at which the count
would be behind), and it is the least such set.  These two (`ComponentFacts`) are
all the proof needs: a new connection only enlarges a component
(`ComponentsGrow`).  `JoinInv` then says what connecting does step by step: the
clusters that connect others, those with a neuron of their own making, are
connected to each other, as each new one begins with an output of the one before
(`AddedNeuron`, `HeadOrTail`), and the component of every cluster that feeds no
other has one of them, or an output that is still to be connected (`Joins`).  At
the end nothing is, so all components with a sink are one (`ConnectJoins`).

`WorkDecreases` is the part of `Terminates` that can be proved: `Work`, seven
numbers that say what is left to do, gets smaller in the lexicographic order
(`Less`) with every step, so no loop and no choice goes on for ever.  What a loop
could turn on is the packing, which puts a link back among the inputs: but that
link stands for at least two inputs, and after the last input none comes back
(`RestShorter`), and a new cluster always takes some (`NewFits`).  Connecting puts
a neuron back when a cluster is full, never twice in a row, for crossbars larger
than one (`NotTwice`).  That a step is possible until the end is `ENABLED`, and
left to TLC, which checks `Terminates`.

`HubsProofs` proves `OneTransmitter` for any number of hubs, hold time, duration
of a flit and traffic.  It assumes `HubAssumption`: that there are two hubs and
that a flit takes less than the hold time, which `TokenRing::attachHub` asserts.
That only one hub reads its own number is not inductive: a transmission may
outlast the token.  `HolderSends` therefore says how long: no longer than the
time its hub reads it has left; `RingAgrees` says that the ring's own count is
that one, or one less once the ring has run in the edge, as long as there is
time left; and a hub that starts a flit has tested just that (`EnoughTime`).

It also proves `PacketsWhole`, for any number of hubs, tiles and packets, any
sizes of the buffers and every policy of the token, from `TrafficAssumption`:
hubs get only flits for tiles of other hubs, and a packet is made once.  The
property speaks of the two ends of a way that leads through five buffers, two
links and two reservations, so `LinesInv` follows it.  The flits a tile still has
on its side (`Line`) are one packet after the other; a tile in the middle of a
packet holds the reservation of the channel (`Reserving`), so there is at most
one at each hub, and `buffer_tx` goes on where it stops (`Transmitting`).  What
`Target::b_transport` has accepted for a tile is a history `e` that no variable
records: the invariant says that one exists which is whole (`Whole`), which the
front of each `buffer_tx` continues, and which ends with a TAIL unless the tile is
reserved (`Accepting`).  A HEAD is never behind another flit of its packet
(`Once`), for which each packet has one tile that made it (`Owned`).  On the
receiving side a tile has the first part of `e`, and the rest of it is spread over
`buffer_rx`, between the flits of the other tiles (`Splits`); the hub drives a
link only when the flit before was taken (`Transit`), which is where tiles that
refused one are exempt.  The history and the invariant were first checked with
TLC, on three hubs with packets of one, two and three flits.

`SpikeKernelProofs` proves all properties of the kernel that its run checks,
`TypeOK`, `CountsMatchTables`, `DeliveredOnTime`, `RecordedOnce` and
`GeneratorsOnTime`, for every application, number of partitions, length of the
second, sequence of calls and interleaving of threads, from
`PartitionAssumption`, `NeuronAssumption` and `KernelAssumption`.  Of the last,
`MaxRate <= MsPerSec` is the code's 500 spikes in 1000 ms
(`snn_definitions.h:148`).  The conditions of the properties stay in them.  None
of the properties is inductive; `SpikeKernelInvariants` has the invariants, each
of which rests on those before it, and TLC checked them on the instance of
`spike_kernel` before they were proved.

`CountsMatchTables` speaks of four phases only, so `CountInv` says of every other
phase which entry of the table the count agrees with; while threads run
(`Converting`), the count of the target exceeds its entry by the spikes of just
the groups whose threads have written.  `Exclusive` gives at most one thread for
each count, so that what a thread has read is what it adds to.

`DeliveredOnTime` compares what a synapse gets now with what fired up to
`maxDelay` milliseconds ago in another partition, and in between lie two tables,
a routing phase and perhaps the shift of a second.  `PastInv` says that nothing
fired later than now, and `ExtInv` that the lists of external spikes hold those of
this millisecond and that each thread looks for its own at the right place.
`SizeInv` bounds the growth of a table between any two milliseconds by what was
fired, so that every entry has a place (`Slot`, the model's length of a table);
this needs `RoutesOnce`.
`TableInv` is the heart: for every millisecond that the table of a partition still
covers, the entries between its two times are the local ids of the neurons that
fired then and that the partition gets spikes of (`Carried`), each just once
(`Kept`, `Windows`).  For the present millisecond it says how far routing has come:
the spikes fired at home and those of the entries of the routing table already
served (`Have`), and during one entry, which ids are still global and which
converted (`InTransit`).  At the end of a second the same is said of the times of
the old second (`Base`), and after the shift the milliseconds before the second
are covered only if it was clean (`Clean`).  Spikes logged together get
consecutive places because local ids are one to one and ordered (`LoggedInOrder`);
reading the table back `delay - 1` milliseconds later finds a spike exactly where
one was fired (`Delivery`).

`RecordedOnce` needs in addition where the monitors are: never behind what the
tables still hold, never ahead of the clock, and up to date when a call of
`runNetwork` or a second ends (`MonInv`).  `MonitorUpdated` adds up what an update
reads out of both tables, `SecondOf` which second it takes a millisecond for.

`GeneratorsOnTime` follows a spike of a train through four places.  `RunInv` bounds
the time slices: what has begun was asked for (`WindowEnd`).  `AskInv` says that the
ring of the buffer has, at the place of each millisecond, the neurons whose train
has it, and that the rest of the train is unread; `BitsInv`, that the bits are those
of the neurons that are due, if one partition has all generators; and `TrainInv`,
that a generator fired when it was due, or the table was crowded.  For the latter a
spike that finds no room is shown to find as many spikes of its second in the table
as it has entries (`DroppedCrowds`), from `SizeInv`.

`MonitorsProofs` proves all four properties of the monitors, for every length of
a second, sequence of runs, order of calls, set of intervals and of files, from
`MonitorAssumption` and `IntervalAssumption`.  What the properties say of the
vectors depends on what an update would fetch, so the first invariant is about
that: the total time is seconds and milliseconds (`ClockInv`), and what a
monitor has not fetched lies within one second and is still in the buffer
(`FetchInv`); an update then fetches just those milliseconds (`FetchedPending`).
`RecordInv` adds how the recording clock and the history agree, `LogsInv` that
spike monitors have nothing left between two runs, and `RatesInv` that rates are
computed only after a recording.  `WeightsInv` orders the time written last, the
time of the stored weights and now.  `DueOK` says that the file has what was asked
for, with the weights of that moment but for stale ones; `AskedOK` serves all four
ways to ask: a time is either written already, and then was asked for before, or
new in both.  `EditedOK` says that stored weights of this time are the current ones
unless the user changed some since.  `ScheduledTaken` is the arithmetic of the
intervals: a multiple in seconds is one in milliseconds (`MultipleOfMultiple`), and
what is one in milliseconds only is early; no set of intervals is excluded.
`StepsOfMonitors` shows that the connection monitors change no
step of the others, which carries the theorems over to `SpecAll`.

Only model-checked: all liveness (`EveryPacketArrives` of both networks,
`EverySpikeLeaves`, `Terminates`), which is beyond the prover; of the last two,
`NeverIdle` and `WorkDecreases` prove what single steps do.

## 6. Plan

1. Routing, network, spike trace, `Unroll`, `Clustering`, `SpikeKernel`, `Hubs`,
   `Monitors`, `ConnectionMonitor`: done.
2. Proofs about the network and the spike trace: done, but for liveness.
3. Proofs about the partitioner: `FaninBounded`, `EdgesAgree`, `SameNetwork`,
   `SpikesKept`, `CrossbarLimits`, `MapsAnswer`, `AddedNeuronsSilent`, `OneCluster`,
   `EveryInputGathered` and `ConnectedIfSinks`: done.
4. Proofs about the kernel: done.
5. Proofs about the hubs: done, but for liveness.
6. The arbiter of a router under endless traffic; cluster traffic of the trace.

Not modelled, and why:

* the driver (`NeuroXplore.py`): a script that starts whole programs; that it
  does not wait for some of them is listed as a hazard, but it has no state;
* the segmented bus: a network the spike flow never configures, whose link
  protocol is that of the routers;
* the tables read from user files, configuration, and the parsers: conversion
  of text, and data that the models take as parameters;
* statistics and power: sums of measurements that nothing reads back;
* the synthetic traffic patterns of the PE: the spike flow does not use them;
* in CARLsim: neuron dynamics, weights and plasticity, which are floating-point
  arithmetic; connection patterns, which are random; the statistics of the monitors, which
  only read what they hold; the
  GPU back end, whose steps are those of the CPU without the threads; the user
  interface, which checks arguments and hands them on; pyCARL, which is
  generated; and the tools around it;
* the helper programs in `snnNoxim/other`.
