# [DAN] ARRAY, formally

TLA+ modules, TLC configurations and TLAPS proofs for dan-oss-array, a
peer-to-peer tool that hands one `.env` file from a sharer to one receiver on
the same LAN. All paths below are paths in the repository.

- [The system](#the-system): components, state, operations, interaction
- [What makes it hard](#what-makes-it-hard)
- [The modules](#the-modules): how state and actions correspond to the code
- [The runs](#the-runs): what each shows, its bounds, the fairness assumed
- [The proofs](#the-proofs)
- [What the code does otherwise than it says](#what-the-code-does-otherwise-than-it-says)
- [What is not modelled](#what-is-not-modelled) and the [plan](#plan)

## The system

One Node process per user. It serves a loopback web page; the page asks it to
share or to receive; the two processes then talk to each other directly.

| component | state | operations | correct when |
|---|---|---|---|
| one-shot server, `listenForOnePeer` (`src/peer.js`) | `settled`, `inFlight`, `timer`, the payload, the promises `ready` and `served`; per connection a socket and a deadline | listen, connection, `send`, overall timeout, `stop` | at most one authentic peer is served; a reported failure sent nothing; unauthenticated peers do not end the wait; slots are bounded and given back; it settles |
| handshake, `sharerServe` / `receiverFetch` (`src/handshake.js`) | position in HELLO, HELLO, scrypt, proof, capsule | one run per connection | the capsule is written only after a proof and a won claim |
| frame reader (`src/handshake.js`) | `buf`, `total`, `ended`, `failure`, `waiter` | `data`, `end`, `error`, `read(cap)` | no byte lost or repeated; no read waits for what is there; caps hold |
| attempt budget (`src/handshake.js`) | `attemptCounters`, process-wide | `checkAttemptBudget`, periodic cleanup | attempts per room are throttled; refusals do not prolong themselves |
| share orchestration, `shareEnv` (`src/sync.js`) | the await it is in, the abort signal | encrypt, listen, announce, serve, abort | nothing outlives it; its outcome is true; it ends |
| announcer, `startAnnouncing` (`src/discovery.js`) | UDP socket, interval, `stopped` | bind, announce, `stop` | silent unless the share is on |
| receive orchestration, `receiveEnv` (`src/sync.js`), with `startListening` and `fetchOnce` | `done`, `tried`, window timer, listener with `seen`, one socket and timer per fetch | announcement, fetch, timeout, abort | bounded attempts; true and final verdict; a cancelled receive proves nothing to anybody; it ends |
| key derivation and sealing (`src/crypto.js`) | none | `encrypt`, `decrypt`, session keys, capsule | only holders of the passphrase compute the proof or open the capsule |
| HTTP server (`src/server.js`) | open requests, an `AbortController` for each transfer | guards, status, share, receive, static files | every request is answered; a request that goes away aborts its transfer |
| browser client (`public/app.js`) | per form a button and a status line; the shown secret and its timer; a button's label | click handlers, clear, closing the page | secrets are cleared, on time; what is shown is true; buttons come back |
| command line (`bin/dan-oss-array.js`) | the process | flags, start, Ctrl-C | exit codes; Ctrl-C ends it |

How they interact: the HTTP server calls `shareEnv` and `receiveEnv` with an
`AbortSignal`. `shareEnv` creates the one-shot server, awaits `ready`, starts the
announcer, hands in the payload and awaits `served`. `receiveEnv` starts the
listener, which calls back for every distinct announcer; each callback runs a
`fetchOnce`. A fetch's TCP connection meets the announcer's one-shot server: HELLO
each way, scrypt on both sides, the receiver's proof, the capsule. All handshakes
of a process, of both roles, share the attempt counters.

## What makes it hard

Everything runs on one event loop, but every handshake is suspended in several
awaits, scrypt runs on a thread pool, and a dozen timers and socket events may
come between any two of them: two peers finishing together, a timeout or an
abort during the verification of a proof, an end of stream behind a buffered
frame, a deadline destroying the socket of a suspended reader, a slot counter
decremented in a `finally` that must be reached, an abort in the gap between a
promise and its continuation, late answers after the verdict. Between the two
processes either end may time out, be cancelled or break off at any point of the
exchange, and the two users compare what they were told. `PROJECT.json`
lists each at its line, with the properties that watch it.

## The modules

A step of every module is one callback of the event loop with the promise
continuations it releases, because Node drains those before the next event.
Timers carry no clock: an armed timer may fire at any moment. Messages are what
the properties tell apart: a frame is the right proof or it is not.

**`OneShot`** is what a sharer promises: a credential is granted to at most one
trusted peer; a transfer that ends without a grant has sent nothing.

**`Sharer`** is the server and all its handshakes. Server-wide variables are those
of `listenForOnePeer`; `handler[c]` is where the connection listener of `c` is
suspended: `payload` (awaiting `payloadReady`), `hello` and `proof` (a pending
`read()`), `scrypt`, `ending` (claimed, `socket.end(cb)` called), `done`, `refused`.
`sock`, `reader`, `inbox` and `hsTimer` are the socket, what its frame reader was told,
a frame that came while nobody read, and the deadline. `sent` is a history variable:
the connections whose socket could still carry the capsule when it was written. The frame
reader's order of precedence (failure, buffered frame, end) is in `ScryptDone`.
From Node it takes that: a half-closed socket is ended on our side too
(`allowHalfOpen` is off); `destroy()` without an error emits only `close`; the
callback of `end()` runs at once with an error on a stream that ended or failed,
and may never run on one that was destroyed before. `Authentic` connections are
those whose peer can compute the proof.

**`ShareEnv`** extends `Sharer` with `shareEnv`'s own control (`pc` is the await it is
in), the announcer and the signal. Its continuation is due when `ready` or `served`
has settled; the server is held still meanwhile, an abort is not, which is the gap that
`src/sync.js:27` re-checks. The repeated announcements of an announcer are one.

**`Receiver`** is one `receiveEnv` with its listener and fetches. `fetch[a]` is the phase
of `fetchOnce` and `receiverFetch` for announcer `a`; `proofs` is a history variable, the
announcers a proof was written to. `early` and `gone` are what the frame reader was told while scrypt ran: a
frame, an end of stream. As in `Sharer` a frame in the buffer is read before an end, and the error of a proof
written to a connection that ended comes in a later tick: a peer with the passphrase that sends its capsule
and leaves during scrypt is received from, though it got no proof. The project's own sharer does no such
thing, so in `Transfer` `Link` is never early. Whether the connection comes up, the attempt
budget admits it and the capsule opens is the environment's choice, but it opens only
for a `Genuine` announcer.

**`FrameReader`** is the reader byte for byte, with `u32` and `writeFrame` as the
reference for what a stream means: base and header width are parameters. Reading and writing a
length are recursive functions over the header's bytes. `accepted` is a history variable, all
that ever entered the buffer.

**`AttemptBudget`** has a clock, the counters and their cleanup. Its history variable `allowed`
counts how many attempts of a room were let through up to each moment, so that those of a
span are a difference (`Attempts`).

**`Session`** has the keys and messages of a handshake as terms: a hash, a key
derivation or a cipher is a free constructor of its inputs, a key pair stands for its
public key, and two key pairs agree on the set of the two. It has no state.

**`Transfer`** composes `ShareEnv` and `Receiver` (as `R`, by `INSTANCE`): one connection,
`Link`, is one of the sharer's connections and one of the receiver's announcers. What is a free
choice in the components is decided by the other end for `Link`: a HELLO or a proof is
read after it was sent (`passed`), the proof is right exactly if `Session`'s terms are equal,
the capsule is read if it was written to a live socket (`sent`), and an end of stream is
seen after everything sent before it (`SharerReadAll`, `ReceiverReadAll`). A reset may
overtake. Other connections and announcers stay as free as before. `calm` remembers that
no deadline, cancellation, refused port or broken link has occurred; a reset by an end that
had reason to close does not count as broken.

**`Handover`** is what the two users of one connection are promised: the receiver proves the
passphrase before anything is granted, the capsule is granted once and never after the sharer was told
that nothing happened, it is received only if it was sent, and what either user was told stands. It
promises no delivery: a capsule may be lost, and the receiver may have given up. `Transfer` implements
it for `Link`: `proved` is membership in `proofs`, `grant` is `LinkGrant` (whether `Link` holds the
slot, and whether the capsule met a live socket), `sharerTold` is `shareEnv`'s outcome,
`receiverTold` is `LinkReport` (a payload that came over another connection counts as nothing here).

**`HttpServer`** is the process of `bin/dan-oss-array.js` with its server: per request
where the handler stands, whether its client is still there, what was answered, and
whether its `close` event has been emitted and its transfer aborted. `shareEnv` and `receiveEnv`
only run and settle here. From Node it takes that `close` comes once, right after a
request's `end` and before the continuation of the `await` on its body, or when the client goes
before that; that the callback of `server.close` waits for every connection
with a request on it; and that a connection kept alive may bring one more request after it.

**`Page`** is the browser page over that server: `view[f]` and `current[f]` are a form's
status line and its last request, `timers` counts armed clearing timers, though the code has
a variable for only one. Requests that no click started are other clients'.

The `MC*` modules give the constants their values. `SharerProofs`, `ShareEnvProofs`,
`ReceiverProofs`, `SessionProofs`, `TransferProofs`, `FrameReaderProofs`, `AttemptBudgetProofs` and
`PageProofs` hold theorems. Operators named as mutants (with a comment that
says so) are plausible bugs; each breaks a property of the runs below and is used
by no specification.

## The runs

| run | instance | distinct states | shows |
|---|---|---|---|
| `sharer` | 2 authentic peers, 1 other, 2 slots | 45,432 | safety of the server, refinement of `OneShot`, its liveness |
| `share_env` | 1 authentic peer, 1 other, 2 slots, abort at any time | 10,768 | nothing outlives a share, its outcome is true, it ends |
| `receiver` | 3 announcers (2 genuine), budget 2 | 2,103 | bounded attempts, true and final verdict, silent cancellation, liveness |
| `frame_reader` | bytes 0..1, header 2, caps 1 and 2, total cap 8, streams up to 9 | 9,351 | framing under every chunking and timing |
| `attempt_budget` | 1 room, 2 attempts per window of 2, clock 0..8, 2 refusals | 29,373 | throttle, and refusals only for a spent budget |
| `transfer` | `Link` and another peer, both authentic; the sharer and another, both genuine; 2 slots | 806,368 | the two reports agree, refinement of `Handover`, nothing granted is lost, both succeed if left alone |
| `page` | 2 requests, of the page or of other clients | 30,453 | the secret's timer, true status lines, buttons, Ctrl-C |
| `sharer_report`, `sharer_slot`, `sharer_settles`, `share_env_timer`, `page_gone` | as above, or 2 authentic peers and 1 slot | – | [five statements](#what-the-code-does-otherwise-than-it-says) the code does not keep |

**Why the bounds suffice.** In `sharer` two authentic peers are needed for a race
for the claim, a third for a refusal next to it, and fewer slots than peers for a
turned-away peer and a freed slot taken again. A fourth connection would only
repeat the third's role: handlers interact through `settled` and `inFlight`
alone. (The theorems remove the bound for safety.) In `receiver` the third announcer is the
one beyond the budget. In `frame_reader` a length can be 0, at the cap, one beyond it
or larger; a header can be split; two frames can share a chunk; the stream can
reach the total cap exactly and exceed it. `MaxStream` and `MaxChunk` bound the peer
only. In `attempt_budget` four windows cover an attempt at a window's last moment, the
next window, a cleanup and a third window after it; one room, since rooms share
nothing but the cleanup. In `transfer` a rival on each side is needed, so that the
credential may go elsewhere and a payload come from elsewhere; both know the passphrase,
since an ignorant one can do less. The slots suffice for all: with fewer, `LeftAlone` is about who comes
first. In `page` two requests let both forms, or the page and another client, overlap; handlers
share only the process. `MaxTime` and `MaxRefusals` are bounds of the check, not of the code.

**Deadlock** is not checked: every one of these programs ends.

**Fairness.** Weak fairness for what the runtime owes: armed timers fire, the
thread pool finishes scrypt, settled promises continue, a bind or listen reports,
and the callback of `socket.end` runs on a stream that already ended or failed. Nothing is owed by a
peer, the network, the browser or whoever aborts. In particular a peer may accept
the capsule's bytes never, so `EndReported` is not fair in general: that `served`
settles is then false, and is one of the findings.
In `Transfer` the network between the two ends is fair as well (`Progress`: due
continuations, scrypt, the announcement, which is repeated, and what was sent over `Link`), while
deadlines, cancellations, breaks and other peers are not: `LeftAlone` asks what
happens when none of them occurs. In `Page` a body that a handler awaits comes or its client leaves, a
receive settles (that is `EverythingSettles` of `Receiver`), the browser delivers answers;
a share need not settle, and the user need not do anything.

**The properties**, beyond one type invariant per module:

- `Sharer`: `AtMostOneServed`, `NothingSentAfterFailure`, `SlotsAccounted`, `KeepsWaiting`
  (unauthenticated peers do not end the wait; that they may keep slots is finding 2), `TimerTracksTransfer`,
  `RefusalHarmless` (a refusal touches only the refused), `ImplementsOneShot`;
  `WindowCloses`, `StalledPeerDropped`.
- `ShareEnv`: `NothingOutlives`, `AbortStopsSharing`, `OutcomeHonest`,
  `SilentAfterSettling`, `AnnouncedWhileServing`; `ShareEnds`.
- `Receiver`: `AttemptsBounded`, `VerdictHonest`, `VerdictFinal`, `CancelIsImmediate`;
  `EverythingSettles`. (`SettledIsQuiet` is proved without a run of its own.)
- `Transfer`: `Agreement` (who has received from this sharer was sent it, and the sharer is not told that
  nothing happened; the other direction is open, a capsule may be lost), `ImplementsHandover`,
  `GrantDelivers` (only a disturbance separates "Sent" from "Received"); `LeftAlone`.
- `Page` and `HttpServer`: `SecretGuarded` (a received secret has exactly one clearing timer),
  `ShownIsTrue`; `ButtonComesBack`, `InterruptEnds`.
- `FrameReader`: `NoByteLost`, `NoStarvedRead`, `RefusedForCause`, `CapsRespected`.
- `AttemptBudget`: `AttemptsThrottled` (two budgets in any window's length: the price of
  fixed windows), `RefusedForBudget`.

## The proofs

All theorems hold for every number of connections, announcers, rooms or requests, for streams of any
length and every limit. They assume only what the modules' `ASSUME` states: the sets of connections and
announcers are finite, the authentic (genuine) ones are among them, the limits are natural numbers,
a byte has more than one value and a header at least one byte. The clock's horizon `MaxTime` and
`MaxRefusals` are any natural numbers too, and `MaxStream` is not constrained at all.

**`SharerProofs`.** The inductive invariant is `TypeOK /\ SlotsAccounted /\ ShareInv`.
The runs' invariants are not inductive: `AtMostOneServed` needs that `settled` is
true exactly when somebody holds the slot or the caller has been answered (so a claim, which
needs `~settled`, is the first), and that a proof waiting in a buffer is an authentic
peer's (so a late one is too). Slot counting rests on three lemmas about
taking, keeping and leaving a slot, and these on the library's facts about
cardinality. Each way a handshake ends (`Refuse`, `Claim`, `Judge`, `Hangup`) has a
lemma, and each action a step. `Implements` shows every step to be a grant, a
failure, a completion or a stutter of `OneShot`. `RefusalIsHarmless`, about steps, rests on two
lemmas: a step of one connection's listener leaves the others' where they stand (`OwnHandlerOnly`), so
the refused peer is the one whose step it is, and each of the ways in which that step can refuse spares the rest
(`RefusalSpares`).

**`ShareEnvProofs`.** `EnvStepIsServerStep` shows that `shareEnv` moves the server
only as `Sharer` can, so `ShareEnvSpec => Spec` (`RunsSharer`) and everything above
holds within a share. What `shareEnv` needs of the server between its own steps is collected
in `ServerStable` (an answer is final, a settled transfer sends nothing more, what
stopped listening does not start again) and proved once for every step. With it
`EnvInv` is inductive, and the share's safety properties follow.

**`ReceiverProofs`.** `FetchInv` adds why a payload is genuine (it came out of a capsule that opened), that its
capsule was asked for with a proof or comes from a peer that left too soon to get one (`Asked`), and why a cancelled
receive is silent: it is over, and no fetch is open.

**`SessionProofs`.** A term determines its parts, so equal keys have equal inputs:
`ProofAccepted` and `CapsuleOpensForProver` say that a proof is accepted, and a capsule opens,
exactly if both users typed the same passphrase and room and each end saw the key that the
other sent. `PassphraseKeyUnique` and `KeysIndependent` state what comments of `src/crypto.js`
promise of the salt and of the two subkeys.

**`TransferProofs`.** A step of a transfer is a step of its share or of its receive, so
`TransferSpec` implies both specifications (`ContainsShare`, `ContainsReceive`) and inherits
their theorems. `TransferInv` adds two parts. `LinkInv` ties the ends together: a payload
is the receiver's only out of a capsule that was sent (never early, so behind the proof), and a grant is
for a proof that the receiver computed. `CalmInv` says why nothing is lost while nothing disturbs: a
fetch that is over was refused, found nobody, or has the payload (`FetchExplained`), so the
sharer's socket is open whenever it may still claim; an end of stream is either a refusal's or
comes behind the capsule. The proof has one lemma for the sharer's events on `Link`, one for
each other kind of event, and reduces each to what it has to show (`LinkEventInv`,
`ReceiveEventInv`). That the receiver's proof and capsule fit is `SessionProofs`'
part. From `TransferAssumption` it uses that `Link` is authentic (genuine) exactly if
the typed inputs make `Session`'s terms agree. `TransferImplements` is the refinement of `Handover`:
a step of the receive sends its proof or changes its report, never both (`OneThingReceived`), one of the share
grants or reports (`OneThingShared`), and each that is not a stutter is the abstract step it looks like
because of the invariant: a claim finds the share still pending, and its proof sent.

**`FrameReaderProofs`.** `FrameInv` joins the four properties with the bounds that tie them:
what was accepted is within `total` and the cap, a failure or a refusal has destroyed the
socket, so nothing is accepted after it, and no read is pending beyond the caller's last. The heart is `PumpKeeps`: cutting a frame
off the buffer and writing it again gives the same bytes (`Cut`, `Regroup`), whichever way the
chunks fell. For that a header must be determined by the number it stands for: `RoundTrip` shows
that `writeUInt` gives back the bytes that `readUInt` read, for every base and width, and
`FlattenAppend` that a flattened sequence grows at its end. `WrittenIsRead` states the other
direction: what `writeFrame` wrote is read back whole, and what follows it stays. Its
hypothesis is that some header stands for the payload's length, which `u32` does not check.
These are inductions over the recursive functions. The library's induction theorems take an operator as
a parameter and cannot be used here; `Induction` does the same over a set, through the least element of
the set of counterexamples.

**`AttemptBudgetProofs`.** That a span lets through at most two budgets is not inductive: the counter
forgets the window before. `RoomInv` remembers it: since the present window opened, exactly
what it counted within the budget was let through (`WindowCounted`), in the window's length before it at
most one budget, and nothing after its end; and a room without a counter has let nobody through for a window's
length (`NothingForgotten`), which is why the cleanup's margin of a second window is safe, whenever
it runs. A span of one window then meets at most the present window and the one before it.

**`PageProofs`.** `SecretGuarded` and `ShownIsTrue` need to know that a form's last request is
one request, is that form's, and has been answered by the time the button is back (`FormInv`); that an
answer says how the transfer settled (`ReplyInv`); and that a page that is not open waits for nothing
(`ClosedInv`). `Keeps` collects what the page needs of the server: nothing takes over a
request that has a client, and an answered one is settled.

**Only model-checked** are the liveness properties, since fairness and `ENABLED` are outside what TLAPS supports
here: `WindowCloses`, `StalledPeerDropped`, `ShareEnds`, `EverythingSettles`, `LeftAlone`,
`InterruptEnds` and `ButtonComesBack`. Every safety property that a run checks, and every
refinement, is proved.

## What the code does otherwise than it says

Each is a run that TLC must find violated; `PROJECT.json` quotes both sides.

1. `ReportMeansSent`: a peer that sends its proof and hangs up during scrypt is
   served into an ended stream; the share reports success, nothing was sent.
2. `SlotReleased`: a peer that stalls is disconnected by its deadline, but its
   handler waits for ever in `read()` and keeps its slot: after four of them the
   sharer turns everyone away until its window closes.
3. `ServedSettles`: once a peer claimed the transfer, both timers are cleared; if
   the capsule is never drained, `served` never settles and `stop()` does not settle it.
4. `NoTimerOutlives`: when listening fails, the overall timer stays armed and
   later rejects a promise nobody holds.
5. `ClosedRequestAborts`: a client that leaves while its transfer runs does not abort
   it. The listener for `close` is attached after the body was read, and by then the
   event has come. `ShareEnv` and `Receiver` show what an abort would do.

Not runs, but worth knowing: beyond `MAX_ANNOUNCERS` an announcer that was heard is never
tried, although `README.md:119-120` says each is; the sharer's side of the attempt budget
counts a failed proof after it was judged, so it refuses only later receives of the same process;
and when an abort is found right after `ready` (`src/sync.js:27-31`), `stop()` rejects a `served` that
`shareEnv` does not hold yet, besides the rejection it throws itself.

## What is not modelled

- **Cryptography** below `Session`'s terms: that hashes and key derivations do not collide and
  ciphers are not forged is what makes the constructors free. In `Sharer` and `Receiver` alone,
  `Authentic` and `Genuine` stand for knowledge of the passphrase; `Transfer` derives them for `Link`.
- **Discovery's data.** A datagram is an announcement of this room or it is
  ignored; a malformed one that throws, and errors of the UDP sockets, which end the process, are
  left out. The `once: true` mode of the listener has no caller in the program.
- **Of the server**, a request target that is no URL (it is parsed before the handler's `try`).
  **Of the page**, the copy button's label and the download.
- **Assets, benchmarks, demonstrations, CI** have no protocol state.
- **More than one transfer between two processes.** Each sharer's other connections stand for
  other receivers, each receiver's other announcers for other sharers; the attempt counters that
  transfers of one process share are in `AttemptBudget` alone.
- **Time.** No property says how long something takes; `AttemptBudget` alone has a clock.

## Plan

Done, in this order: `OneShot`, `Sharer`, `ShareEnv`, `Receiver`, `FrameReader`, `AttemptBudget`
with the first three modules of proofs; then `HttpServer` and `Page`, `Session`, and `Transfer`, which
compares what the two users are told, with the proofs of the last two.

Then the proofs of `Page`, `FrameReader` and `AttemptBudget`, `RefusalIsHarmless`, and `Handover` with its
refinement.

Left: the attempt counters inside `Transfer`, where failed proofs at one room's sharer and the same
user's receives meet; and a refinement of the transfer with its frame reader, which so far is
represented in `Sharer` by its order of precedence.
