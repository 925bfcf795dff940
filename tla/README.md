# A TLA+ development of mediastreamer_demo

`mediastreamer_demo` streams sound and video between two peers. `src/module/mediastreamer`
holds the filters, the ticker thread that runs them and the ICE agent; `src/module/ortp` is
an extended oRTP: RTP sessions with a jitter buffer, RTCP, a selective retransmission of its
own, and a scheduler thread for blocking calls; `src/module/silk` is a third-party codec.
The repository has no tests. This directory holds TLA+ modules of the stateful and
concurrent core, configurations for the model checker TLC, and proofs for the TLA+ proof
system (TLAPS).

1. [The system](#1-the-system) – inventory of components
2. [The modules](#2-the-modules) – what is modelled, and how it corresponds to the code
3. [What is checked](#3-what-is-checked) – the runs, their bounds, the fairness
4. [What the code does not keep](#4-what-the-code-does-not-keep) – the violations
5. [What is proved](#5-what-is-proved)
6. [What is not modelled](#6-what-is-not-modelled)
7. [Plan](#7-plan)

To repeat a check: `tlc -config Sessions.cfg MCSessions.tla` (the table in section 3 pairs
modules and configurations), `tlapm RtpSchedulerProofs.tla`.

## 1. The system

Paths are relative to `src/module`. The last column says where the component stands:
**M** modelled, **P** partly, **–** not.

| Component | State it keeps | Operations | Talks to | What is hard | |
|---|---|---|---|---|---|
| Packet queues `ortp/rtpsession.c`, `rtpparse.c` | sequences of packets ordered by 16-bit numbers | `rtp_putq`, `rtp_getq`, `rtp_getq_permissive`, `queue_packet` | session | wrap-around of numbers and timestamps, duplicates | M |
| Retransmission (rtx) `rtpsession.c`, `rtpparse.c`, `rtpsession_inet.c` | `rtx_send_queue`, `rtx_recv_queue` with placeholders | cache on send, walk over gaps, RTCP APP request, answer, replace | two sessions over UDP | loss, reorder and duplication of both flows; original, retransmission and placeholder race | M |
| RTP parsing `rtpparse.c` | locked SSRC and candidate, extended number, `rcv_last_ts` | `rtp_session_rtp_parse` | queues, signals | interleaved sources, clocks that jump, wrap-around | P |
| Session calls `rtpsession.c` | flags, wait points, offsets | `sendm_with_ts`, `recvm_with_ts`, reset, resync, setters | scheduler, sockets | calls and scheduler touch the same masks under different locks | P |
| Scheduler `scheduler.c`, `rtptimer.c`, `posixtimer.c` | list of sessions, `time_`, masks | thread loop, add, remove, start, stop | session wait points, select | lost wakeups, one word read and written back by two threads, 32-bit time, sessions that come and go, a full table | P |
| Session sets `sessionset.c` | a bit per session | `session_set_select`, `_timedselect` | scheduler masks | masks change between a word's read and its write | M |
| Jitter control `jitterctl.c` | slide, averages | `jitter_control_new_packet`, compensation | session | drift, resynchronization | P |
| RTCP `rtcp.c`, `rtcpparse.c`, `rtpsession_inet.c` | counters since the last report | report blocks, SR/RR timing, APP | parsing statistics | counters at wraps, first interval, source change | P |
| Ticker and graphs `mediastreamer/msticker.c`, `msfilter.c`, `msqueue.c` | execution list, `ticks`, `last_tick`, queues between filters | attach, detach, tick, link, unlink | every filter | `preprocess`/`postprocess` run outside the lock during a tick; joins and loops | P |
| ICE agent `mediastreamer/ice.c` | table of candidate pairs, role, nominated pair | restart, STUN requests, answers, nomination | session (`rem_addr`), peer | crossing checks, role conflict, NATs, late answers, a full table | P |
| NAT traversal over a server, second half of `ice.c` | state of a handshake per channel, type of the own NAT | find the type, check the direct way, then the relay | the peer's call that runs at the same time | two calls in step, one-way paths, losses, a clock of whole seconds | P |
| RTP filters `msrtp.c` | session, pending DTMF, timestamps | `receiver_process`, `sender_process` | session, ticker | DTMF in the stream, timestamp repair | P |
| Sockets of a session `rtpsession_inet.c` | sockets, remote addresses | receive loops, bind, symmetric RTP | network | errors, address changes | P |
| Payload types, profiles `payloadtype.c`, `avprofile.c` | tables | look-up | parsing, signals | – | P |
| Utilities `mscommon.c`, `port.c`, `utils.c`, `str_utils.c`, `ortp.c`, `b64.c` | lists, message blocks | – | all | – | P |
| Telephone events `telephonyevents.c`, `msrtp.c` | queue of event packets, current event, the sender's pending key, timestamps, numbers | press, frame by frame, detect | parsing, event queues, ticker | an end sent three times, lost, duplicated; sound and tones share numbers and timestamps | P |
| Event queues `event.c` | list of events per queue | put, get, register | ICE filter, application | dispatch while registering | – |
| Signal tables `rtpsignaltable.c` | callbacks | connect, disconnect, emit | parsing | removal during emission | – |
| Streams `audiostream.c`, `videostream.c` | the graph of a call | start, stop, free | ticker, session, filters | partial failure of a start | – |
| Volume `msvolume.c`, Silk filters `silkcodec.c` | signal processing | process | – | – | – |
| Devices `linuxaudio.c`, `linuxvideo.c`, `mssndcard.c` | device handles, a bufferizer and a thread | read, write, stop | driver, ticker | flags read without the mutex, a signal before the wait | P |
| STUN messages `ortp/stun.c`, `stun_udp.c` | – | encode, decode, the tests of the NAT | ICE, server | padding, an integrity computed over what was received, answers that race their timeouts | P |
| Encryption `AES.c`, `srtp.c`; Silk library | – | – | – | – | – |

What makes each of them correct:

* **queues** – order by number modulo 2^16, no duplicates, a bounded length;
* **retransmission** – no gap stays unnoticed, what comes out never goes back, a number
  given up stays given up, one request per missing packet, everything held is released;
* **parsing and reports** – the session follows one source and can change it, the extended
  number is that of a packet, reported losses are (nearly) real, no source is deafened;
* **scheduler, calls, select** – no wakeup and no event is lost or invented, a call returns
  when its time has come and not before, every stream goes on; sessions in the list have places
  of their own, and one that is freed is not in the list;
* **ticker** – only attached and prepared filters are run, all of them in each tick, after
  those they depend on, and every tick ends;
* **ICE** – the agents end up in different roles, only pairs that work succeed, an answer
  is matched with the request it belongs to, both agents conclude;
* **NAT traversal** – a NAT is not taken for more open than it is, who succeeds has proof of both
  directions, and two calls find the direct way when there is one;
* **STUN messages** – what is written is read back, and the integrity covers it;
* **telephone events** – each key once, in order, over a network that loses and duplicates; the
  numbers of sound and tones follow each other, and a tone ends;
* **playback** – sound that came in is played or dropped, and a stop comes back.

The hazards behind these properties are listed with their lines in `PROJECT.json`.

## 2. The modules

Mutants – small plausible bugs, each named in its comment – stand next to the definition
they would replace; they are not part of any specification. Bounds are CONSTANTs marked
"bound", or fields of a *scene*: some modules play one of a set of scenes, chosen by `Init`,
that fixes the environment and every bound, so that one run covers several situations.

### RtpQueue, RtpQueueProofs
A `queue_t` is a sequence, oldest packet first. The four operations, and the comparisons
`RTP_SEQ_IS_GREATER` and `RTP_TIMESTAMP_IS_NEWER_THAN`, are pure operators with the width
of the numbers as a parameter. Used by `RtpRtx`, `RtpReceive` and `TelephoneEvents`. `RtpQueueProofs`
holds the lemmas that the proofs about them share: arithmetic modulo a width, the least and the
greatest of a set of positions, the place that `rtp_putq` finds for a packet, and what stays of the
order of a queue when packets are put in and taken out.

### RtpRtx, RtpChannel, RtxGaps, RtxWalk, RtpRtxProofs
`RtpRtx` composes the two ends of the retransmission and the network between them. `Send` is
`__rtp_session_sendm_with_ts`; `AnswerRequest` the APP branch of `process_rtcp_packet`;
`RecvTick` and `RecvAgain` are `rtp_session_recvm_with_ts` as `receiver_process` calls it: with
a new timestamp at every tick, and again with the same one while packets come out. One such
step reads the socket, parses each datagram, takes a packet out of the jitter buffer, queues it in
`rtx_recv_queue`, walks over that queue, and releases what is due – the whole call.
`net`, `rtcpNet`, `Arrive` and the budgets are the external network. One packet is one frame; the
jitter control is the fixed one.

`RtpChannel` is the abstract specification: what the receiving application may rely on. Its state
is the numbers sent, asked for, and delivered, nothing of queues, timestamps or datagrams.
Numbers come out in order, each as the packet or as a placeholder and never as both; a placeholder
comes out only for a number that was asked for; a number is asked for once, after it was sent and
before anything of its age came out. The packet delivered last may come out again when the network
duplicated it: that is what `rtpparse.c:267` lets through (a timestamp equal to `rcv_last_ts` is not
too old), and TLC found it when the abstract specification did not allow it. `RtpRtx` implements
`RtpChannel` under a refinement mapping (`ImplementsChannel`): a step of the receiver that asks for
several packets and releases one is one step of the channel, most steps are stutters.

The walk over the queue is written as its result (`FillGaps` and `Asked`, in `RtxGaps`). `RtxWalk`
is the loop of the code, turn by turn with its cursor, checked against `FillGaps` from every queue
up to a width.

### RtpReceive, MCRtpReceive, RtpReceiveProofs
`Receive` is `rtp_session_rtp_parse` for the next packet of a source, in the order of the
function: `Lock` (SSRC), `Count` (statistics and extended number), `CheckTime` (old
timestamps, jumps, resynchronization, queueing). `Deliver` is a read by the application,
`Report` is `report_block_init`, `Reset` is `rtp_session_reset`; `Jump` and the losses are the
environment. Packets are valid, of the stream's payload type and not telephone events. The
module keeps what the code does even where it is surprising: a foreign packet is counted in the
statistics, the first change of source takes one packet more than the threshold (the count
starts at 0), the first report misses a loss, a reset keeps the candidate and its count, the
first read takes the source from the head of the queue.

### RtpScheduler, MCRtpScheduler, RtpSchedulerProofs
The scheduler thread (`SchedLock` … `SchedTimer`: one round of `rtp_scheduler_schedule`) and any
number of application threads that call send and receive on wait points of their own, in
blocking mode (`Call`, `Awake`) or after `session_set_select` with one set or both (`SelLock` … `SelEnd`). Mutexes are
variables that hold their owner; a mask is read and written back a word at a time, in separate
steps, because the code does so under different locks. `SelTimeout` is the end of
`session_set_timedselect`, which after its last round does not look at the masks again. A session
in `SignBit` has the bit that makes the word negative, on which the code that counts events loops for
ever (`selLoop`). The list of sessions is fixed. `Spurious` says whether `pthread_cond_wait` may return by itself: the code
does not call it in a loop.

### SchedRegistry
How that list and the places in the masks come about: `Create` and `Destroy` (`rtp_session_init`,
`rtp_session_uninit`), `SwitchOn` and `SwitchOff` (`rtp_session_set_scheduling_mode`), with
`rtp_scheduler_add_session` and `rtp_scheduler_remove_session` inside them. The search for a free
place, the loop when there is none, and `all_max`, which never shrinks, are as in the code; the two
flags of a session (`SCHEDULED`, `IN_SCHEDULER`) are separate, which is the point. Its theorems stand in
`RtpSchedulerProofs`.

### MSTicker, MCMSTicker, MSTickerProofs
The ticker thread visits filters as `run_graph` does: `agenda` is its recursion unrolled (depth
first), `unsched` the list of filters met before their inputs had run, and the recursive call with
`force_schedule` is `RunUnschedulable`. `ms_ticker_attach` is three kinds of step (look at
`f->ticker`, preprocess each filter, append the sources under the lock), `ms_ticker_detach` two.
Every graph has a thread of its own (two threads attaching one graph would race on the unlocked
`f->ticker`), links do not change, all pins are connected, no filter is a pump.

### IceChecks, MCIceChecks, IceChecksProofs
Two ICE agents. `Receive` is `ice_process_stun_message` for one message (`Request`, `Success`,
`Conflict`, with `Insert` for learned candidates and `SwitchTo` for a change of role); `Tick`
is `ice_sound_send_stun_request`: the first waiting pair, else a nomination, else a
retransmission; `Restart` is `ice_restart`. A message is handled in a step of its own, because
`ice_process` handles however many are there. A scene fixes the pairs, roles and tie-breakers,
and for each agent and destination whether the other is reached and which address it sees: that is
all a NAT is here. Transaction ids are the least unused number; messages are well formed and
authenticated; priorities keep their order only. The code compares base addresses without
ports when it prunes pairs; an address of the model includes its port.

### NatType, NatKinds
`stunNatType` and `ice_get_nat_type`: five tests with a server that are sent again until they are
answered, over two sockets, and the decision made of the answers. The NAT is external: five kinds
of it, told apart by which answers pass. Left out are a `select` or send that fails, which ends the search,
answers to a test already answered, and the limit of five seconds, which six timeouts do not reach. `holes` are the ways in that earlier packets have opened,
so that the order of the tests matters. `NatKinds` numbers the kinds as `ice.c` does, for this module
and the next.

### P2pCheck, P2pCheckProofs
The second client of `ice.c`, `ice_connectivity_check`: two agents that call it at the same time,
each with a handshake (0, 1, 3) per channel, directly and then over a relay. A turn of the loop is
a step (`Readable`, `Read`, `Turn`). The time is counted in seconds that begin on the wall clock
(`get_time`): the first one of a call may be over at once (the *hasty* agents of a setting), the others are
longer than a message takes and pass for both together. The
settings give what the NATs are and what they were taken for. That a NAT is taken for less
open than it is, or a symmetric one for port restricted, is what `NatType` shows (`TypeIsTrue`):
the two modules meet there; `P2pCheckProofs` has the theorems about both, and those about `StunCodec`.

### StunCodec
`stunEncodeMessage` and `stunParseMessage` on every message the program sends, those of the server with the
username they return and the address they make of a long one included, attribute after
attribute, and `CheckAnswer`, what `ice.c` does to verify the integrity of a message it
received. Of the wire it keeps lengths: where an attribute begins, what its header claims, how many bytes
follow. A parser that does not stand at the beginning of an attribute refuses the message.
The size of a pointer matters, because the length of a lifetime is compared with that of one
(`stun.c:276`): 4 is the 32-bit ARM build of the repository; on 64 bits such an attribute is
refused.

### TelephoneEvents, TelephoneEventsProofs
Keys pressed in the sending filter (`Frame` is `sender_process` with `send_dtmf`, for ticks with and
without a frame, muted or not) or sent at once by an application (`SendDtmf2`), a network, and the
receiver up to `rtp_session_check_telephone_events`. The network loses and duplicates, and mixes up the
packets that are read from the socket in one call; those that let a packet be overtaken from one call to the
next (`Overtaken`) are told apart by `scene.ordered`. One thread sends on a session: `snd_seq` has no lock, for
no packet, and so the five packets of `SendDtmf2` are one step. Kept as in the code: a key that still waits is overwritten although 0 was returned; the
packets of a tone take numbers but never reach `rtx_recv_queue`, so that a session with
retransmission asks for them; `rtp_session_recv_telephone_events_supported` answers with the payload
type of the sending profile (`telephonyevents.c:80`).

### SoundPlayback
The filter that plays sound: `Process` from the ticker, the thread that writes (`Flush` … `Wake`)
and the stop of `sound_write_postprocess`. What happens under the mutex is one step, and each read
or write of a flag outside of it is a step of its own.

### MCSessions, MCParts, MCFilters
Modules that share no state are checked in one run: the first state chooses the part that
moves and the others stay as they are, so that nothing is multiplied. `MCSessions` holds `RtpRtx` and
the threads that select, `MCParts` the small modules, `MCFilters` the parts
that the ticker keeps going, with liveness, each with its own fairness, and the walk.

## 3. What is checked

| Run | Module, configuration | States | What it shows |
|---|---|---|---|
| `sessions` | MCSessions, Sessions | 1 506 000 | *rtx*: four packets, two datagrams lost, one duplicated, all reordered, numbers and timestamps wrap: no gap stays in `rtx_recv_queue`, the send cache is the promised window, a retransmission takes its placeholder's place, and what the application sees is what `RtpChannel` promises. *select*: with and without a time limit, with both sets, a receiver and a sender of different sessions: no event lost, and a sender is returned only when its last call has finished |
| `parts` | MCParts, Parts | 793 000 | *recv*: three interleaving sources; bursts of losses over two wraps with reports and a reset; a clock that jumps – the lock is left only after a run of packets and does follow, extended number and losses are right, a jump deafens no longer than `DeafnessEnds` says. *registry*: three sessions, two places. *nat*: every NAT with up to three losses. *p2p*: four pairs of NATs, two channels. *hasty*: four pairs of NATs, one channel, agents that begin at any point of a second. *codec*: every kind of message |
| `sched_blocking` | MCRtpScheduler, MCSchedBlocking | 334 000 | a sender and a receiver block on one session over wraps of the clock: no wakeup lost, none too early, both go on for ever |
| `ticker` | MCMSTicker, MCTicker | 37 000 | a graph with a join at different depths and one with a loop, attached and detached while ticks run |
| `filters` | MCFilters, Filters | 46 000 | *playback*: frames, the thread and a stop at any time. *tones*: two keys over a network that loses, duplicates or lets a packet be overtaken (the end of every tone is reported there too), and a sender with gaps that changes its duration. *rtx*: a stream with retransmission that stops – whatever is lost, the queues drain while the receiver ticks. *walk*: the loop with its cursor computes `FillGaps` and `Asked` from every queue of up to seven numbers |
| `ice` | MCIceChecks, Ice | 236 000 | scenes: role conflict with a message lost, overtaken, slower than the timer, or a second start; a NAT whose pruned pair is what works; a NAT with an address per destination that is learned into a full table |
| `rtx_signal`, `recv_loop`, `sched_word`, `sched_both`, `sched_sign`, `ice_accept` | | | violations, section 4 |

Every property has a mutant of the code under which the same run finds it violated.

**Bounds.** Widths are small and even (from 16 numbers and 32 timestamps in `sessions` to 64 in `parts`, where
the hypotheses of the theorems need the room; a clock of 4) and
streams start just below the wrap, so that the modular comparisons are crossed at
every alignment; windows keep their order (`LoopWindow` at most half of the space, caches
shorter than the space). Four packets with caches of two and three frames let every pair of
original, retransmission and placeholder race. Two sessions are the fewest for which a word
is shared or not; two threads on one session the fewest that compete for a wait point. The
ticker's two graphs have a join with paths of different length and a loop, the two
reasons why a filter is met too early. In `ice`, `room` limits the messages on their way to two
(one in the scene of the full table): a restriction of the schedules, which still lets the checks
of both agents cross; `MaxTries` is 0 instead of 7 and tables have two rows. Three sessions for two
places make the table of the registry overflow. Three losses are enough to silence any one test of
`NatType` beyond a repetition and to lose request and answer of two. `P2pCheck` loses at most one
message: the handshake has no answer to its last one, so that more losses show nothing new. Its hasty
agents have one channel: a second channel multiplies the messages on their way and adds no other order to one
handshake. Two
keys make the second meet the queue and the event of the first; the windows of
`SoundPlayback` (a write of 2, late at 4, frames of 1 and 3) reach every branch of the thread.

**Fairness.** `RtpRtx`: the receiver's ticker calls again (weak). `RtpScheduler`: strong
fairness per thread – the scheduler sleeps without a lock between rounds and the calls hold locks
for a few lines, so a thread that could take a lock again and again gets it. `MSTicker`: weak
fairness of the ticker thread and of a thread in the middle of attach or detach, strong fairness
only for taking the ticker's lock. `IceChecks`: the ticker runs the filter, a message that is
not lost arrives, timers expire, and the application gives each agent its candidates (all weak).
`SoundPlayback`: the thread, the ticker with a frame, and a stop that has begun (weak); a
return of `ms_cond_wait` without a signal is not assumed. `TelephoneEvents`: the ticker brings
frames and the receiver reads (weak).
Nothing assumes that an application attaches, detaches, stops or restarts anything.

Deadlock is not checked where the system really stops: the rtx model when its stream is over (in `sessions` it
may stutter instead, so that the select part is checked for it), the
parts whose scene or call ends, the playback after its stop, the ticker after `ms_ticker_stop`, and
the ICE agents, whose check lists may come to rest, and the select of `sched_sign`, which stops everything.

## 4. What the code does not keep

Six statements of the repository do not hold; each has a run whose counterexample shows why.

* `rtx_signal` – a stray `;` (`rtpsession.c:1266`) lets placeholders reach the application; their
  payload type field holds `rtx_retry_limit`, and "payload_type_changed" is announced for a stream
  that never changed; the default limit, 1, is a payload type of `av_profile`. Until a packet of the stream
  comes out, retransmissions are freed as they are read (`rtpparse.c:75`).
* `recv_loop` – a packet from before a wrap that arrives after one from behind it moves the
  extended number nearly a cycle ahead (`rtpparse.c:232-236`). Without late packets the number is
  right (`parts`).
* `sched_word` – with two sessions in one word of a mask, a call writes back the word it read
  before the scheduler set the other bit: an event is lost (`rtpsession.c:1323-1337`). With the
  bits in different words it never is (section 5 says for whom).
* `sched_both` – `session_set_select` copies the receive set back only if an event was counted before
  (`sessionset.c:130`): with an event for a sender alone it returns the receive set as it was given,
  with sessions that have no event. What the sets tell otherwise is right (`sessions`).
* `sched_sign` – the events of a word are counted by shifting it right as an `int` (`sessionset.c:59-67`): with
  the bit of the 32nd session of a word this never ends, and it holds the lock of the scheduler.
* `ice_accept` – when the checks of two agents cross, each request turns the other's check back
  to waiting and the next request replaces the transaction id, so that every answer comes too late:
  neither agent concludes, on a perfect network (`ice.c:850-855`, `421`).

What holds only in part is stated with its exception: `SeenStopReturns` leaves out the stop whose signal
comes between the thread's test of `isRunning` and its wait – that detach hangs, because the wait
is not inside a test under the mutex (`linuxaudio.c:272`); `PlacesAreTheirs` leaves out what follows
after the table was full; `FreedIsUnlisted` leaves out sessions whose scheduling was switched off;
`KeysReportedOnce` is about networks that keep the order from call to call; `TogetherTheyConnect` assumes no loss, since one agent may
succeed alone when the last message is lost; `TypeIsTrue` lets a symmetric NAT pass for port
restricted when test 10 was never answered.

Two of these exceptions in full. `rtp_session_set_scheduling_mode(session, 0)`, of which `rtpsession.c:405` says that
"the ortp scheduler will not manage those sessions", clears a flag and leaves the session in the list: the scheduler
goes on with it, and `rtp_session_uninit` then frees it without taking it out (`rtpsession.c:430-431`, `1557-1560`).
And a start of a tone that is overtaken by the first copy of its end takes the place of the ended event
(`telephonyevents.c:366-376`), so that the next copy is reported as a second key.

Further observations that no statement of the repository contradicts are hazards with a note in
`PROJECT.json`: the fraction lost that becomes 0 in its 8 bits, spurious returns of `pthread_cond_wait`, learned ICE candidates that are dropped, the
index of the nominated pair that such candidates push beyond the table (`ice.c:951-952`, `1221-1222`), where it is
only compared with 0. From `stun.c`,
without consequence for the messages the program sends: `UNKNOWN-ATTRIBUTES` claims 2 + 2n bytes and
writes 2n, relayed and peer addresses are not un-XORed, the server compares the message itself with
the hash (1667), and `hmacPassword` is used uninitialised in `ice.c` (650, 996).

## 5. What is proved

All for any values of the constants that satisfy the module's named assumption.

| Theorem | Statement | Argument |
|---|---|---|
| `RtpSchedulerProofs!TypeCorrect` | `SystemSpec => []TypeOK` | inductive by itself; one step per action |
| `RtpSchedulerProofs!WakeupsAreNotLost` | `SystemSpec => []NoLostWakeup` | invariant `WaitInv` |
| `RtpSchedulerProofs!BlockingCallsWakeOnTime` | without spurious returns, `SystemSpec => WakesOnTime` | `WaitInv` |
| `RtpSchedulerProofs!SelectLosesNoEvent` | with a word per session and one thread that selects, `SystemSpec => []EventNotLost` | `ControlInv`, then `EventInv` |
| `RtpSchedulerProofs!SelectTellsTheTruth` | with a word per session and one thread that selects, `SystemSpec => SelectIsOnTime` | `TruthInv`, with `WaitInv` and `ControlInv` |
| `RtpSchedulerProofs!PlacesAreNeverMixed` | `RegistrySpec => []PlacesAreTheirs` | `RegistryInv` |
| `RtpSchedulerProofs!GoneIsUnlisted` | `RegistrySpec => []FreedIsUnlisted` | `RegistryInv` |
| `RtpRtxProofs!CacheIsTheWindow` | with `2 * SendCache < SeqSpace` and `SendCache < TsSpace`, `SafeSpec => []SendCacheIsTheWindow` | the cache itself as invariant |
| `RtpRtxProofs!RtxInvHolds` | with `WidthsSuffice`, `SafeSpec => []RtxInv` | inductive |
| `RtpRtxProofs!NoGapIsLeft` | with `WidthsSuffice`, `SafeSpec => []RtxQueueContiguous` | `RtxInv` |
| `RtpRtxProofs!RetransmissionCounts` | with `WidthsSuffice`, `SafeSpec => RetransmissionFillsHole` | `RtxInv` |
| `RtpRtxProofs!ImplementsTheChannel` | with `WidthsSuffice`, `SafeSpec => ImplementsChannel` | `RtxInv`, one step of `RtpChannel` per step |
| `RtpRtxProofs!WalkIsFillGaps` | `WalkSpec => []WalkFillsGaps` | `WalkInv` |
| `P2pCheckProofs!SuccessProvesBothWays` | `P2pSpec => []SuccessIsMutual` | `CheckInv` |
| `P2pCheckProofs!TogetherBothSucceed` | `P2pSpec => []TogetherTheyConnect` | `CheckInv`, `TogetherInv` |
| `P2pCheckProofs!TypeIsRight` | `NatSpec => []TypeIsTrue` | `NatInv` |
| `MSTickerProofs!TypeCorrect` | `Spec => []TypeOK` | inductive by itself |
| `MSTickerProofs!ProcessesOnlyAttached` | `Spec => ProcessesAttached` | invariant `TickerInv` |
| `MSTickerProofs!EveryFilterRuns` | `Spec => []TickRunsAll` | invariant `TickInv` |
| `MSTickerProofs!QueuesRunEmpty` | `Spec => []NothingIsLeft` | invariant `TickInv` |
| `RtpReceiveProofs!LockedSourceIsKept` | `Spec => LockChangesOnRun` | invariant `RunInv` |
| `RtpReceiveProofs!NewSourceIsFollowed` | `Spec => []LockFollows` | invariant `RunInv` |
| `RtpReceiveProofs!ExtendedNumberIsRight` | with `Orderly`, `Spec => []ExtSeqIsNewest` | invariant `CountInv` |
| `RtpReceiveProofs!LossIsCounted` | with `Orderly`, `Spec => []LossIsNearlyTrue` | invariant `CountInv` |
| `RtpReceiveProofs!DeafnessPasses` | with `Roomy`, `Spec => []DeafnessEnds` | invariant `DeafInv` |
| `TelephoneEventsProofs!NoNumberIsLeftOut` | `Spec => NumbersFollow` | invariant `WireInv` |
| `TelephoneEventsProofs!EveryKeyOnce` | `Spec => []KeysReportedOnce` (networks that keep the order from call to call) | invariant `StreamInv` |
| `P2pCheckProofs!EveryMessageIsReadBack` | `CodecSpec => []MessagesAreReadBack` | invariant `CodecInv` |
| `P2pCheckProofs!WhatIsSignedIsCovered` | `CodecSpec => []SignedIsCovered` | invariant `CodecInv` |
| `IceChecksProofs!IceInvHolds` | `Spec => []IceInv` | inductive |
| `IceChecksProofs!NominatedPairIsKnown` | `Spec => []IndexIsNominated` | `IceInv` |
| `IceChecksProofs!SucceededPairsWork` | `Spec => []SucceededPairWorks` | `IceInv` |
| `IceChecksProofs!RolesSwitchOnce` | `Spec => []SwitchesOnce` | `IceInv` |

*Scheduler.* `NoLostWakeup` is not inductive: the scheduler disarms a wait point in one step and
signals in the next, and nothing in the formula says that nobody arms or re-enters the point in
between. `WaitInv` adds that a thread inside a call holds the mutex of its wait point, that threads
work only on points of their own (`SchedAssumption`: no two threads share a wait point), and that
the scheduler holds the mutex of the point whose word it has read.

*Select.* That no event is lost takes two invariants. `ControlInv`: the lock of the scheduler is held
during a round and a select, only blocking calls sleep, a call that clears a bit without blocking
leaves an armed wait point, and a call writes back the word it read. `EventInv`: nobody sets a bit in
the word a select is about to write back. The last is where both assumptions are used: a call in the
same word (the violation `sched_word`), or the call of a second thread that selects, while this
one reads and writes back *every* word, would set a bit that the write erases. The second case
came out of the proof: with two selecting threads events can be lost even when all words differ.
That select reports only what happened (`SelectTellsTheTruth`) is about the wait points, not about the masks: a
session that comes back had its last call finished, for which the mask, the copy of a word in the
hand of select, and what it has found must all be true meanwhile (`TruthInv`: whoever sets a bit has disarmed
the wait point, and nobody but this thread clears it or arms the point again). It needs the same two assumptions,
since a bit that was cleared by a call comes back when another call or select writes an older word.
It is stated of the send set, and of the receive set only when no other is given: with an event for a sender alone
the receive set comes back as it went in (the violation `sched_both`).

*Registry.* `RegistryInv` says that the flag `IN_SCHEDULER` tells whether a session is in the list, that
no session is there twice, and that one without `SCHEDULED` was switched off. That the least free place
exists (`LeastPlace`) is the well-founded induction theorem of the library.

*Send cache.* `SendCacheIsTheWindow` only speaks of numbers. The invariant gives the cache itself: the
last packets sent, in order. That `rtp_putq` puts a new packet at the bottom and that exactly what is
too old leaves at the top is arithmetic modulo the widths (`ModDiff` and the lemmas after it);
the assumptions say that the window is smaller than half of the numbers.

*Retransmission.* `WidthsSuffice` bounds the stream, not the code: its packets take at most half of
the sequence numbers, and the stream with its delays at most half of the timestamps. It is needed
because the network of the model may hold a datagram back for ever; one that comes back after half
of the numbers is taken for a future packet, in the code too. The constants of `sessions` satisfy it,
for the timestamps with equality.
Under it every entry of a queue stands for one number of the stream (`No`), and the comparisons
modulo the widths are comparisons of these. `RtxInv` has five parts.

* `InFlight`: what is on its way or in the socket was sent.
* `Queues`: the numbers in the jitter buffer rise, those in `rtx_recv_queue` follow each other, and a
  placeholder has the timestamp of a later packet.
* `Clocked`: once the jitter control has locked, the stream has a clock: up to which number packets are
  let out, that what is left in the jitter buffer is younger, and that what came out is older by the
  receive cache.
* `Ordered`: what came out rises, and what waits comes after it; only a packet may follow itself.
* `AskedFor`: each placeholder was asked for, and each number that was asked for waits or has been
  passed, so that it is not asked for again.

The receiver's step folds over the datagrams in the socket and over the gaps. What holds of such a fold is
carried along the positions by induction: a set of natural numbers has a least element (the
well-founded induction of the library), and the least position where a claim fails takes the place of the
induction schema, which no prover here can instantiate (`AllNumbers`). `RetransmissionFillsHole` needs no
assumption on `rtx_retry_limit`: it is guarded by `rcvPt = MediaPt`, since a placeholder that comes out may
change the payload type that the session expects (the violation `rtx_signal`), and with the default limit
and `av_profile` it does.

*The walk.* `WalkInv`: up to the cursor the queue is as `FillGaps` leaves it, behind the cursor follow, untouched,
the entries of the first queue that it has not reached, and the requests sent are those for the new
placeholders so far. Of `rtp_putq` it needs that the placeholder lands right behind the cursor.

*Handshake.* A message of stage 1 or 3 is on its way only to an agent that was heard over that path,
and a channel whose handshake has ended has a link over which the other was heard.

*Calls that begin together.* From when both agents are on the path where they meet, a message that brings the
handshake on is on its way for every channel that is not through (`Met`); a second does not begin
before all messages have come, but for the first one of a hasty agent, so that no time runs out there: one
second that was over at once leaves a whole one. Before that, when the direct way was tried in vain,
only first messages come in (`Stray`), and the seconds that the agents have counted differ by at most one until
both have gone over to the relay (`Apart`).

*Type of the NAT.* Which tests a NAT answers does not depend on what else was sent, in the order in which
the code sends them (`AnswersAreSure`). `NatInv` says that the answers that came are among these, that all of
them are there after one turn when nothing was lost or late, and that the type that was
concluded is what the flow chart makes of the answers. The theorem then is a case for each kind of NAT.

*Ticker.* `ProcessesAttached` needs to know why a filter the thread is about to visit is attached:
`PrepInv` ties the control of each graph's thread to which of its filters are prepared,
`ListInv` says that the sources in the execution list belong to graphs that are completely
attached, and `VisitInv` that during a tick the agenda and the unschedulable filters do too. The
lemmas on graphs (`GraphsDisjoint`, `OutputsNeighbours`) show that following the output pins never
leaves a graph, so that detaching one does not touch another.

*A whole tick.* `SourcesInv`: a graph is in the execution list with all its sources or not at all. `CoverInv`: what
a tick has reached has run, waits in the agenda, or is among the filters put off. `ReadyInv`: a filter whose inputs
have all run is not left among those, so that without loops nothing is ever forced. Hence (`OrderInv`) the
filters of a graph without loops run in the order of their links, and a packet lies only on a link whose
writer has run and whose reader has not; outside of a tick there is no such link.

*Receive.* `RunInv` relates the candidate and its count to the run of packets really received
(`LockInv`), says that the count is 0 while no source is locked (`FreshInv`), and that budgets of a
scene only shrink (`BoundInv`); the first two hold while the session was never reset.

*Extended number and losses.* `CountInv` says that the packets received lie between the first and the newest
one, that the extended number is the newest (`GotInv`), and what the cumulative loss is up to the last
report (`LossInv`; a session's first report leaves out one). `Orderly` assumes of scenes with one source
that no packet is late and that fewer than `LoopWindow - 1` are lost in a row: a late packet from before a wrap
breaks the number (the violation `recv_loop`), and a longer burst over a wrap is not seen as one. It also
bounds the stream to the width of the extended number. All scenes of the run `parts` satisfy it.

*A clock that jumps.* While a packet of the old clock was the last to be delivered, every timestamp of the new
clock is compared with it, and the code decides again and again whether the source has jumped
ahead, has jumped back, or is too old. `DeafInv` numbers what is in the jitter buffer (`Stored`), and says how far the
newest packet is from the one delivered last: before the jump at most `Slack`. After it (`AcrossJump`) there is one `D`, what
the clock jumped by, counted in packets, such that all packets since then which did not make the session resynchronize lie
in a window of `2 * TsJump + Slack` behind the first packet of the old clock that was the last delivered then. The first packet
since the jump fixes `D` (`FirstInWindow`), the others keep to it (`NextInWindow`): outside of the window the session jumps or
gives up its clock, and what is too old lies in its lower part, which is `TsJump + Slack` long. That bound is what
`DeafnessEnds` says; TLC refuted an earlier one without `Slack`, as old packets that still are delivered move the
window while it is passed. `Roomy` assumes that the window fits into half of the numbers and half of the timestamps. With
the defaults of the code (a jump of 5 s, which is 250 packets of 20 ms, and 100 packets in the buffer, `rtpsession.c:347-351`) it
holds for bursts of more than a hundred packets; all scenes of the run `parts` satisfy it.

*Tones.* `WireInv`: `snd_seq` is the number after the last packet on the wire; with the lemma that the copies of an
end share a number and nothing else does (`SendsInTurn`), `NumbersFollow` follows. For `KeysReportedOnce` the packets
are ordered by their place in the stream. `StreamInv` says that what waits, on its way or in `tev_rq`, waits in that
order (`OrderInv`); that an end is the only packet at its place, and later packets belong to later keys (`PairInv`); that
nothing waiting is older than the packet taken last, and an end that was reported waits once more only while the stored event
is that end itself, with the same timestamp (`TakenInv`): the code then takes the copy for what it knows. That a tone's
end comes within its duration, and so the number of places per key, is `CountInv`, with `LagInv` for the frames that stand
still. `StreamAssumption` bounds the stream as `WidthsSuffice` does: the network may hold a packet back, but
not while the sender uses up half of the numbers. The theorem speaks of networks that keep the order from call to
call (`scene.ordered`, which no step changes: `SceneStays`); on others the statement is false, as section 4 says.

*STUN messages.* `CodecInv`: the attributes written are those of the message that come before `position` (`NoneMissing`), at
offsets that follow each other by their padded lengths (`InOneRow`), and as the message says (`AsSent`); the integrity was
computed at the offset of its attribute, with the length the header has when only the fingerprint is missing (`SignedBefore`);
while it is parsed, the bytes left begin at an attribute and those before it have been read (`InMidst`). Every length that
is written is taken by the reader of its kind (`WellSized`), which is a fact about the tables of both sides. It holds for any
sizes of strings up to 255 bytes.

*ICE.* `IceInv` has four parts: the types, and

* `IndexInv`: the pair that the index names is nominated, and an index behind the end is behind every table
  there will be; `Insert`, which moves pairs down and the index with them, keeps both.
* `PathInv`: a request on its way shows the address its sender is seen under on the path of the pair with that
  transaction id, and its answer carries it back; so a pair that succeeds has seen both directions.
* `RoleInv`, for different tie-breakers: of two agents that begin in one role the tie-breakers say which one
  yields. The other never changes its role. Until the one that yields has done so its table is the one
  it was given, pairs that were pruned have not been checked, and no check is left when it yields: an answer
  or a 487 that comes later, from the time before, finds no transaction. That is why the invariant
  speaks of the messages on their way and not of the agents alone.

Only model-checked:

* liveness (`Drains`, `StreamsGoOn`, `GraphsRun`, `TicksEnd`, `RolesSettle`, `StockGoesDown`, `SeenStopReturns`,
  `EndsReported`, `ToneEnds`) and whatever speaks of ENABLED, which the prover cannot do.

## 6. What is not modelled

* The contents of media: codecs, volume, echo, colour conversion, the drivers of the devices, capture.
  With the silk library, `AES.c` and the tables of codecs this is most of the lines of the
  repository: the modules cover the stateful part, not those.
* The bytes of RTP and RTCP headers, encryption, formatting, logging, the port layer. Of STUN the
  lengths are modelled, not the contents.
* The adaptive jitter control: its averages are floating point numbers.
* The TURN allocation and the server in `stun.c`; the gathering of candidates, keepalives.
* Event queues and signal tables: lists without a protocol of their own. That registering a queue is
  not locked against dispatch (`rtpsession.c:1537`) would need an application that does both in two threads.
* The construction of a graph by `audiostream.c` and `videostream.c`: one thread, start to end; what
  it builds is `MSTicker`.
* `rtp_session_reset` and `rtp_session_resync` of a session with retransmission: nobody calls them.
* The clock of the ticker (`ms_ticker_run` against real time) and the race on its name; the join of
  thread 0 when the playback could not be opened (`linuxaudio.c:328`).
* When RTCP reports are sent, and packets that carry several telephone events.

## 7. Plan

What would come next, in this order.

1. `TickerClock`: the loop of `ms_ticker_run` against the clock, late ticks, a replaced time function.
2. `RtcpReports`: when reports are sent, and what they count after each.
3. An abstract specification of what the scheduler promises to a caller (a call at `packet_time`
   returns at that time or at once when it is late), implemented by `RtpScheduler`.
4. Theorems: that the list and the places of `SchedRegistry` are what `RtpScheduler` assumes of its fixed list.
