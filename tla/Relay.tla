--------------------------------- MODULE Relay ---------------------------------
(***************************************************************************)
(* common/stream.rs: relay_with and copy_direction, the two copy loops     *)
(* that carry every proxied connection.                                    *)
(*                                                                         *)
(* Side "a" is the client, side "b" the upstream.  Direction "up" reads a  *)
(* and writes b, direction "down" reads b and writes a.  A side in         *)
(* SharedSides is a Side::Shared, for which shared_handle() returned       *)
(* Some: it is read and written without a lock and its reads park.  Any    *)
(* other side is a Side::Serialized: one mutex around the stream, held     *)
(* for the whole of a read or a write, and reads bounded by                *)
(* RELAY_READ_POLL.  Bytes are counted in chunks, a chunk being what one   *)
(* read returns.                                                           *)
(***************************************************************************)
EXTENDS Naturals, Sequences, FiniteSets, TLAPS

CONSTANTS
  SharedSides,  \* sides that offer a SharedStream
  FailingSides, \* sides whose transport may fail
  MaxChunks     \* bound on the chunks a peer sends

Sides == {"a", "b"}
Dirs == {"up", "down"}
Src(d) == IF d = "up" THEN "a" ELSE "b"
Dst(d) == IF d = "up" THEN "b" ELSE "a"

ASSUME RelayAssumption ==
  SharedSides \subseteq Sides /\ FailingSides \subseteq Sides /\ MaxChunks \in Nat

VARIABLES
  rpc,        \* relay_with: "setup", "spawn", "joining", "returned"
  rres,       \* its result: "none", "ok", "err", "interrupted"
  dpc,        \* copy_direction: "off", "top", "read", "reading", "write", "writing",
              \*   "account", "release", "end"
  outcome,    \* how a direction ended: "none", "eof", "finished", "cancelled", "error", "panic"
  todo,       \* sides the ending direction still has to release, in order
  hook,       \* the cancel hook: "unset", "armed", "relA", "relB", "ran"
  cancelled,  \* the token
  finished,   \* the flag the directions share
  lock,       \* mutex of a serialized side: "free" or the direction holding it
  sent,       \* chunks the peer behind a side has sent
  peerEof,    \* the peer has closed its sending half
  peerErr,    \* the transport of the side has failed
  consumed,   \* chunks read from a side
  delivered,  \* chunks written to a side
  rshut,      \* the relay has shut the read half of a side
  wshut,      \* the relay has shut the write half of a side
  stats       \* RelayStats.up / down, and the accounting callback

ctl == <<rpc, rres, hook, cancelled>>
net == <<sent, peerEof, peerErr>>
halves == <<rshut, wshut>>
vars == <<rpc, rres, dpc, outcome, todo, hook, cancelled, finished, lock, sent, peerEof,
          peerErr, consumed, delivered, rshut, wshut, stats>>

Endings == {"eof", "finished", "cancelled", "error", "panic"}

TypeOK ==
  /\ rpc \in {"setup", "spawn", "joining", "returned"}
  /\ rres \in {"none", "ok", "err", "interrupted"}
  /\ dpc \in [Dirs -> {"off", "top", "read", "reading", "write", "writing", "account",
                       "release", "end"}]
  /\ outcome \in [Dirs -> Endings \cup {"none"}]
  /\ todo \in [Dirs -> Seq(Sides)]
  /\ hook \in {"unset", "armed", "relA", "relB", "ran"}
  /\ cancelled \in BOOLEAN
  /\ finished \in BOOLEAN
  /\ lock \in [Sides -> Dirs \cup {"free"}]
  /\ sent \in [Sides -> 0..MaxChunks]
  /\ peerEof \in [Sides -> BOOLEAN]
  /\ peerErr \in [Sides -> BOOLEAN]
  /\ consumed \in [Sides -> Nat]
  /\ delivered \in [Sides -> Nat]
  /\ rshut \in [Sides -> BOOLEAN]
  /\ wshut \in [Sides -> BOOLEAN]
  /\ stats \in [Dirs -> Nat]

Init ==
  /\ rpc = "setup"
  /\ rres = "none"
  /\ dpc = [d \in Dirs |-> "off"]
  /\ outcome = [d \in Dirs |-> "none"]
  /\ todo = [d \in Dirs |-> <<>>]
  /\ hook = "unset"
  /\ cancelled = FALSE
  /\ finished = FALSE
  /\ lock = [s \in Sides |-> "free"]
  /\ sent = [s \in Sides |-> 0]
  /\ peerEof = [s \in Sides |-> FALSE]
  /\ peerErr = [s \in Sides |-> FALSE]
  /\ consumed = [s \in Sides |-> 0]
  /\ delivered = [s \in Sides |-> 0]
  /\ rshut = [s \in Sides |-> FALSE]
  /\ wshut = [s \in Sides |-> FALSE]
  /\ stats = [d \in Dirs |-> 0]

-----------------------------------------------------------------------------
(* Side                                                                    *)

\* Side::shutdown never waits: a serialized side is reached only if its lock
\* is free right now (try_lock).
Reaches(s) == s \in SharedSides \/ lock[s] = "free"

\* release(): Shutdown::Both on a set of sides.
Release(S) ==
  /\ rshut' = [s \in Sides |-> rshut[s] \/ (s \in S /\ Reaches(s))]
  /\ wshut' = [s \in Sides |-> wshut[s] \/ (s \in S /\ Reaches(s))]

\* Shutdown::Write on one side.
HalfClose(s) ==
  /\ wshut' = [wshut EXCEPT ![s] = @ \/ Reaches(s)]
  /\ UNCHANGED rshut

\* A serialized side needs its mutex for an operation, a shared one nothing.
Acquire(s, d) ==
  IF s \in SharedSides THEN UNCHANGED lock
  ELSE lock[s] = "free" /\ lock' = [lock EXCEPT ![s] = d]

Unlock(s) == lock' = IF s \in SharedSides THEN lock ELSE [lock EXCEPT ![s] = "free"]

-----------------------------------------------------------------------------
(* copy_direction                                                          *)

\* An ending other than a half-close: set the flag, then release the sides.
End(d, how, sides) ==
  /\ finished' = TRUE
  /\ outcome' = [outcome EXCEPT ![d] = how]
  /\ todo' = [todo EXCEPT ![d] = sides]
  /\ dpc' = [dpc EXCEPT ![d] = "release"]

Top(d) ==
  /\ dpc[d] = "top"
  /\ \/ /\ cancelled
        /\ End(d, "cancelled", <<Src(d), Dst(d)>>)
     \/ /\ ~cancelled
        /\ finished
        /\ outcome' = [outcome EXCEPT ![d] = "finished"]
        /\ dpc' = [dpc EXCEPT ![d] = "end"]
        /\ UNCHANGED <<finished, todo>>
     \/ /\ ~cancelled
        /\ ~finished
        /\ dpc' = [dpc EXCEPT ![d] = "read"]
        /\ UNCHANGED <<finished, outcome, todo>>
  /\ UNCHANGED <<ctl, net, halves, lock, consumed, delivered, stats>>

ReadBegin(d) ==
  /\ dpc[d] = "read"
  /\ Acquire(Src(d), d)
  /\ dpc' = [dpc EXCEPT ![d] = "reading"]
  /\ UNCHANGED <<ctl, net, halves, outcome, todo, finished, consumed, delivered, stats>>

ReadData(d) ==
  /\ dpc[d] = "reading"
  /\ consumed[Src(d)] < sent[Src(d)]
  /\ ~peerErr[Src(d)]
  /\ consumed' = [consumed EXCEPT ![Src(d)] = @ + 1]
  /\ Unlock(Src(d))
  /\ dpc' = [dpc EXCEPT ![d] = "write"]
  /\ UNCHANGED <<ctl, net, halves, outcome, todo, finished, delivered, stats>>

AtEof(s) == rshut[s] \/ (peerEof[s] /\ consumed[s] = sent[s])

\* WouldBlock / TimedOut: only a serialized side has a read timeout, and it
\* elapses only while there is nothing to report.
ReadTimeout(d) ==
  /\ dpc[d] = "reading"
  /\ Src(d) \notin SharedSides
  /\ consumed[Src(d)] = sent[Src(d)] /\ ~AtEof(Src(d)) /\ ~peerErr[Src(d)]
  /\ Unlock(Src(d))
  /\ dpc' = [dpc EXCEPT ![d] = "top"]
  /\ UNCHANGED <<ctl, net, halves, outcome, todo, finished, consumed, delivered, stats>>

\* Fault: end of stream is not told apart from a cancellation's shutdown.
EofIgnoringToken(d) ==
  /\ dpc[d] = "reading"
  /\ AtEof(Src(d))
  /\ ~peerErr[Src(d)]
  /\ Unlock(Src(d))
  /\ HalfClose(Dst(d))
  /\ outcome' = [outcome EXCEPT ![d] = "eof"]
  /\ dpc' = [dpc EXCEPT ![d] = "end"]
  /\ UNCHANGED <<ctl, net, finished, todo, consumed, delivered, stats>>

\* End of stream: a cancelled relay ends; otherwise only the opposite write
\* half is closed, and `finished` stays clear.  The read's own lock is given
\* back before; the destination's lock is tried once.
ReadEof(d) ==
  /\ dpc[d] = "reading"
  /\ AtEof(Src(d))
  /\ ~peerErr[Src(d)]
  /\ Unlock(Src(d))
  /\ \/ /\ cancelled
        /\ End(d, "cancelled", <<Dst(d)>>)
        /\ UNCHANGED halves
     \/ /\ ~cancelled
        /\ HalfClose(Dst(d))
        /\ outcome' = [outcome EXCEPT ![d] = "eof"]
        /\ dpc' = [dpc EXCEPT ![d] = "end"]
        /\ UNCHANGED <<finished, todo>>
  /\ UNCHANGED <<ctl, net, consumed, delivered, stats>>

ReadError(d) ==
  /\ dpc[d] = "reading"
  /\ peerErr[Src(d)]
  /\ Unlock(Src(d))
  /\ End(d, "error", <<Src(d), Dst(d)>>)
  /\ UNCHANGED <<ctl, net, halves, consumed, delivered, stats>>

WriteBegin(d) ==
  /\ dpc[d] = "write"
  /\ Acquire(Dst(d), d)
  /\ dpc' = [dpc EXCEPT ![d] = "writing"]
  /\ UNCHANGED <<ctl, net, halves, outcome, todo, finished, consumed, delivered, stats>>

\* Fault: the chunk is counted but the write's progress is dropped.
WriteSkipped(d) ==
  /\ dpc[d] = "writing"
  /\ ~wshut[Dst(d)]
  /\ ~peerErr[Dst(d)]
  /\ Unlock(Dst(d))
  /\ dpc' = [dpc EXCEPT ![d] = "account"]
  /\ UNCHANGED <<ctl, net, halves, outcome, todo, finished, consumed, delivered, stats>>

WriteOk(d) ==
  /\ dpc[d] = "writing"
  /\ ~wshut[Dst(d)]
  /\ ~peerErr[Dst(d)]
  /\ delivered' = [delivered EXCEPT ![Dst(d)] = @ + 1]
  /\ Unlock(Dst(d))
  /\ dpc' = [dpc EXCEPT ![d] = "account"]
  /\ UNCHANGED <<ctl, net, halves, outcome, todo, finished, consumed, stats>>

\* The half is shut, the transport failed, or RELAY_WRITE_TIMEOUT elapsed.
WriteError(d) ==
  /\ dpc[d] = "writing"
  /\ Unlock(Dst(d))
  /\ End(d, "error", <<Src(d), Dst(d)>>)
  /\ UNCHANGED <<ctl, net, halves, consumed, delivered, stats>>

\* RelayStats and the accounting callback.
Account(d) ==
  /\ dpc[d] = "account"
  /\ stats' = [stats EXCEPT ![d] = @ + 1]
  /\ dpc' = [dpc EXCEPT ![d] = "top"]
  /\ UNCHANGED <<ctl, net, halves, outcome, todo, finished, lock, consumed, delivered>>

\* A codec or the accounting callback panics: the unwinding drops the guard,
\* catch_unwind sets the flag and releases a, then b.
Panic(d) ==
  /\ dpc[d] \in {"reading", "writing", "account"}
  /\ lock' = [s \in Sides |-> IF lock[s] = d THEN "free" ELSE lock[s]]
  /\ End(d, "panic", <<"a", "b">>)
  /\ UNCHANGED <<ctl, net, halves, consumed, delivered, stats>>

\* Fault: an ending direction releases nothing.
ReleaseNothing(d) ==
  /\ dpc[d] = "release"
  /\ dpc' = [dpc EXCEPT ![d] = "end"]
  /\ UNCHANGED <<ctl, net, halves, todo, outcome, finished, lock, consumed, delivered, stats>>

\* src.release() and dst.release(), one after the other.
ReleaseSides(d) ==
  /\ dpc[d] = "release"
  /\ \/ /\ todo[d] # <<>>
        /\ Release({Head(todo[d])})
        /\ todo' = [todo EXCEPT ![d] = Tail(@)]
        /\ UNCHANGED dpc
     \/ /\ todo[d] = <<>>
        /\ dpc' = [dpc EXCEPT ![d] = "end"]
        /\ UNCHANGED <<halves, todo>>
  /\ UNCHANGED <<ctl, net, outcome, finished, lock, consumed, delivered, stats>>

ReadStep(d) == ReadData(d) \/ ReadEof(d) \/ ReadError(d) \/ ReadTimeout(d)
WriteStep(d) == WriteOk(d) \/ WriteError(d)

Copy(d) == Top(d) \/ Account(d) \/ ReleaseSides(d)

-----------------------------------------------------------------------------
(* relay_with                                                              *)

\* A token cancelled before the relay starts: release both sides and return.
SetupCancelled ==
  /\ rpc = "setup"
  /\ cancelled
  /\ Release(Sides)
  /\ rpc' = "returned"
  /\ rres' = "interrupted"
  /\ UNCHANGED <<hook, cancelled, net, dpc, outcome, todo, finished, lock, consumed, delivered, stats>>

\* Otherwise the hook is registered.
Setup ==
  /\ rpc = "setup"
  /\ ~cancelled
  /\ rpc' = "spawn"
  /\ hook' = "armed"
  /\ UNCHANGED <<rres, cancelled, net, halves, dpc, outcome, todo, finished, lock, consumed,
                 delivered, stats>>

SpawnOk ==
  /\ rpc = "spawn"
  /\ rpc' = "joining"
  /\ dpc' = [d \in Dirs |-> "top"]
  /\ UNCHANGED <<rres, hook, cancelled, net, halves, outcome, todo, finished, lock, consumed,
                 delivered, stats>>

SpawnError ==
  /\ rpc = "spawn"
  /\ finished' = TRUE
  /\ Release(Sides)
  /\ rpc' = "returned"
  /\ rres' = "err"
  /\ UNCHANGED <<hook, cancelled, net, dpc, outcome, todo, lock, consumed, delivered, stats>>

\* Fault: the result is taken from the spawned direction alone.
JoinUpOnly ==
  /\ rpc = "joining"
  /\ \A d \in Dirs : dpc[d] = "end"
  /\ rpc' = "returned"
  /\ rres' = IF outcome["up"] \in {"panic", "cancelled", "error"} THEN "err" ELSE "ok"
  /\ UNCHANGED <<hook, cancelled, net, halves, dpc, outcome, todo, finished, lock, consumed,
                 delivered, stats>>

\* Both directions have ended; a panic outranks a cancellation, which
\* outranks an I/O error.
Join ==
  /\ rpc = "joining"
  /\ \A d \in Dirs : dpc[d] = "end"
  /\ rpc' = "returned"
  /\ rres' = IF \E d \in Dirs : outcome[d] = "panic" THEN "err"
             ELSE IF cancelled THEN "interrupted"
             ELSE IF \E d \in Dirs : outcome[d] \in {"cancelled", "error"} THEN "err"
             ELSE "ok"
  /\ UNCHANGED <<hook, cancelled, net, halves, dpc, outcome, todo, finished, lock, consumed,
                 delivered, stats>>

-----------------------------------------------------------------------------
(* The canceller and the two peers, while the relay runs                   *)

Cancel ==
  /\ rpc # "returned"
  /\ ~cancelled
  /\ cancelled' = TRUE
  /\ hook' = IF hook = "armed" THEN "relA" ELSE hook
  /\ UNCHANGED <<rpc, rres, net, halves, dpc, outcome, todo, finished, lock, consumed,
                 delivered, stats>>

\* Fault: the hook takes no action on the transports.
HookDoesNothing ==
  /\ hook \in {"relA", "relB"}
  /\ hook' = "ran"
  /\ UNCHANGED <<rpc, rres, cancelled, net, halves, dpc, outcome, todo, finished, lock,
                 consumed, delivered, stats>>

\* The hook releases a, then b, on the canceller's thread.
HookRelease ==
  /\ hook \in {"relA", "relB"}
  /\ Release({IF hook = "relA" THEN "a" ELSE "b"})
  /\ hook' = IF hook = "relA" THEN "relB" ELSE "ran"
  /\ UNCHANGED <<rpc, rres, cancelled, net, dpc, outcome, todo, finished, lock, consumed,
                 delivered, stats>>

PeerSend(s) ==
  /\ rpc # "returned"
  /\ sent[s] < MaxChunks
  /\ ~peerEof[s] /\ ~peerErr[s] /\ ~rshut[s]
  /\ sent' = [sent EXCEPT ![s] = @ + 1]
  /\ UNCHANGED <<ctl, peerEof, peerErr, halves, dpc, outcome, todo, finished, lock,
                 consumed, delivered, stats>>

PeerClose(s) ==
  /\ rpc # "returned"
  /\ ~peerEof[s]
  /\ peerEof' = [peerEof EXCEPT ![s] = TRUE]
  /\ UNCHANGED <<ctl, sent, peerErr, halves, dpc, outcome, todo, finished, lock,
                 consumed, delivered, stats>>

PeerFail(s) ==
  /\ rpc # "returned"
  /\ s \in FailingSides /\ ~peerErr[s]
  /\ peerErr' = [peerErr EXCEPT ![s] = TRUE]
  /\ UNCHANGED <<ctl, sent, peerEof, halves, dpc, outcome, todo, finished, lock,
                 consumed, delivered, stats>>

\* The thread of a direction takes its next step.
Thread(d) == Copy(d) \/ ReadBegin(d) \/ ReadStep(d) \/ WriteBegin(d) \/ WriteStep(d)

Next ==
  \/ Setup \/ SetupCancelled \/ SpawnOk \/ SpawnError \/ Join
  \/ \E d \in Dirs : Thread(d) \/ Panic(d)
  \/ Cancel \/ HookRelease
  \/ \E s \in Sides : PeerSend(s) \/ PeerClose(s) \/ PeerFail(s)

Spec == Init /\ [][Next]_vars

\* Threads run; a bounded read or write ends; the mutex of a serialized side
\* is left free for RELAY_POLL_YIELD after every idle poll, so a direction
\* that waits for it gets it: strong fairness.
Fairness ==
  /\ WF_vars(Setup) /\ WF_vars(SetupCancelled) /\ WF_vars(SpawnOk) /\ WF_vars(Join)
  /\ WF_vars(HookRelease)
  /\ \A d \in Dirs : SF_vars(Thread(d))

FairSpec == Spec /\ Fairness

-----------------------------------------------------------------------------
(* Properties                                                              *)

\* Nothing is lost or invented between the two sides, and the accounting is
\* what was delivered: "every byte it copies is counted" (README.md:105).
CopiedExactly ==
  \A d \in Dirs :
    /\ delivered[Dst(d)] <= consumed[Src(d)]
    /\ outcome[d] \in {"none", "eof", "finished", "cancelled"} =>
         consumed[Src(d)] = delivered[Dst(d)]
                              + (IF dpc[d] \in {"write", "writing"} THEN 1 ELSE 0)
    /\ outcome[d] # "panic" =>
         delivered[Dst(d)] = stats[d] + (IF dpc[d] = "account" THEN 1 ELSE 0)

\* A direction that reports a clean end of stream has delivered everything the
\* peer sent: the end it saw was the peer's, not a shutdown of our own making,
\* unless the relay was already ending.
EofIsGenuine ==
  \A d \in Dirs :
    outcome[d] = "eof" => finished \/ (peerEof[Src(d)] /\ delivered[Dst(d)] = sent[Src(d)])

\* relay_with reports success only for two clean ends.
OkMeansClean ==
  rres = "ok" => \A d \in Dirs : outcome[d] = "eof"

\* A relay copies and counts every byte, takes only the peer's own end for a
\* clean one, and reports success for two of those.
RelayIsExact == CopiedExactly /\ EofIsGenuine /\ OkMeansClean

\* Cancelling ends the relay: a read parked on a shared side is released by
\* the hook, a serialized one by its poll.
Returned == rpc = "returned"
CancelEnds == cancelled ~> Returned

\* One direction's failure ends the other, although the release that wakes it
\* may have been skipped.
FailureEnds == finished ~> Returned

Owed == (cancelled \/ finished) /\ ~Returned

-----------------------------------------------------------------------------
(* RelayIsExact for every choice of shared and failing sides and every     *)
(* number of chunks.                                                       *)

\* What the steps read: the program counters, the flags and the counters.
Shapes ==
  /\ dpc \in [Dirs -> {"off", "top", "read", "reading", "write", "writing", "account",
                       "release", "end"}]
  /\ outcome \in [Dirs -> Endings \cup {"none"}]
  /\ consumed \in [Sides -> Nat] /\ delivered \in [Sides -> Nat] /\ stats \in [Dirs -> Nat]
  /\ sent \in [Sides -> Nat] /\ peerEof \in [Sides -> BOOLEAN]
  /\ rshut \in [Sides -> BOOLEAN]

\* A direction has an outcome once its loop is left, and only then; before
\* the threads are there it is off, and a success is reported after both.
Phases ==
  /\ \A d \in Dirs : outcome[d] # "none" <=> dpc[d] \in {"release", "end"}
  /\ rpc \in {"setup", "spawn"} => \A d \in Dirs : dpc[d] = "off"
  /\ rpc \in {"setup", "spawn"} => ~finished
  /\ rres = "ok" => \A d \in Dirs : dpc[d] = "end"

\* The flag goes up only with a failure, which outranks a clean end, and a
\* read half is shut only by a relay that is ending.
Reasons ==
  /\ \A d \in Dirs :
       dpc[d] = "release" \/ outcome[d] \in {"finished", "cancelled", "error", "panic"} => finished
  /\ finished /\ rpc = "joining" =>
       \E d \in Dirs : outcome[d] \in {"cancelled", "error", "panic"}
  /\ hook \in {"relA", "relB", "ran"} => cancelled
  /\ \A s \in Sides : rshut[s] => cancelled \/ finished

RelayInv == Shapes /\ Phases /\ Reasons /\ RelayIsExact

LEMMA Ends ==
  /\ Dirs = {"up", "down"} /\ Sides = {"a", "b"}
  /\ \A d \in Dirs : Src(d) \in Sides /\ Dst(d) \in Sides /\ Src(d) # Dst(d)
  /\ \A d, e \in Dirs : (Src(d) = Src(e) \/ Dst(d) = Dst(e)) => d = e
  BY DEF Dirs, Sides, Src, Dst

LEMMA Released ==
  ASSUME NEW S, Release(S)
  PROVE  rshut' \in [Sides -> BOOLEAN]
  BY DEF Release

LEMMA RelayStarts == Init => RelayInv
  <1> SUFFICES ASSUME Init PROVE RelayInv
    OBVIOUS
  <1>1. Shapes
    BY DEF Init, Shapes, Endings
  <1>2. Phases /\ Reasons /\ RelayIsExact
    BY Ends DEF Init, Phases, Reasons, RelayIsExact, CopiedExactly, EofIsGenuine, OkMeansClean
  <1> QED
    BY <1>1, <1>2 DEF RelayInv


\* One step per action.  The steps of a thread read their own direction only;
\* what they leave of the other one follows from the ends being distinct.
LEMMA RelayNext == RelayInv /\ [Next]_vars => RelayInv'
  <1> SUFFICES ASSUME RelayInv, [Next]_vars PROVE RelayInv'
    OBVIOUS
  <1> USE Ends DEF RelayInv, Shapes, Phases, Reasons, Endings, RelayIsExact, CopiedExactly,
      EofIsGenuine, OkMeansClean, ctl, net, halves
  <1>1. ASSUME NEW d \in Dirs, Top(d) PROVE RelayInv'
    BY <1>1 DEF Top, End
  <1>2. ASSUME NEW d \in Dirs, ReadBegin(d) PROVE RelayInv'
    BY <1>2 DEF ReadBegin
  \* The chunk that is read is in hand until it is written.
  <1>3. ASSUME NEW d \in Dirs, ReadData(d) PROVE RelayInv'
    <2>1. consumed'[Src(d)] = consumed[Src(d)] + 1 /\ dpc'[d] = "write" /\ outcome[d] = "none"
      BY <1>3 DEF ReadData
    <2> QED
      BY <1>3, <2>1 DEF ReadData
  \* An end of stream is the peer's unless a half was shut, and no half is
  \* shut before the token or the flag is up; everything read was delivered.
  <1>4. ASSUME NEW d \in Dirs, ReadEof(d) PROVE RelayInv'
    <2>1. CASE cancelled
      BY <1>4, <2>1 DEF ReadEof, End, HalfClose
    <2>2. CASE ~cancelled
      <3>1. finished \/ (peerEof[Src(d)] /\ delivered[Dst(d)] = sent[Src(d)])
        BY <1>4, <2>2 DEF ReadEof, AtEof
      <3>2. EofIsGenuine'
        BY <1>4, <2>2, <3>1 DEF ReadEof
      <3>3. (Shapes /\ Phases /\ Reasons /\ CopiedExactly /\ OkMeansClean)'
        BY <1>4, <2>2 DEF ReadEof, HalfClose
      <3> QED
        BY <3>2, <3>3
    <2> QED
      BY <2>1, <2>2
  <1>5. ASSUME NEW d \in Dirs, ReadError(d) PROVE RelayInv'
    BY <1>5 DEF ReadError, End
  <1>6. ASSUME NEW d \in Dirs, ReadTimeout(d) PROVE RelayInv'
    BY <1>6 DEF ReadTimeout
  <1>7. ASSUME NEW d \in Dirs, WriteBegin(d) PROVE RelayInv'
    BY <1>7 DEF WriteBegin
  \* The chunk in hand becomes one delivered and not yet counted.
  <1>8. ASSUME NEW d \in Dirs, WriteOk(d) PROVE RelayInv'
    <2>1. delivered'[Dst(d)] = delivered[Dst(d)] + 1 /\ dpc'[d] = "account" /\ outcome[d] = "none"
      BY <1>8 DEF WriteOk
    <2> QED
      BY <1>8, <2>1 DEF WriteOk
  <1>9. ASSUME NEW d \in Dirs, WriteError(d) PROVE RelayInv'
    BY <1>9 DEF WriteError, End
  <1>10. ASSUME NEW d \in Dirs, Account(d) PROVE RelayInv'
    BY <1>10 DEF Account
  <1>11. ASSUME NEW d \in Dirs, Panic(d) PROVE RelayInv'
    BY <1>11 DEF Panic, End
  \* A direction that releases has raised the flag, so the halves it shuts
  \* belong to a relay that is ending.
  <1>12. ASSUME NEW d \in Dirs, ReleaseSides(d) PROVE RelayInv'
    <2>1. finished
      BY <1>12 DEF ReleaseSides
    <2>2. CASE todo[d] # <<>>
      <3>1. Release({Head(todo[d])}) /\ UNCHANGED dpc
        BY <1>12, <2>2, Zenon DEF ReleaseSides
      <3>2. rshut' \in [Sides -> BOOLEAN]
        BY <3>1, Released, Zenon
      <3>3. UNCHANGED <<ctl, net, outcome, finished, consumed, delivered, stats>>
        BY <1>12, Zenon DEF ReleaseSides
      <3> QED
        BY <2>1, <3>1, <3>2, <3>3
    <2>3. CASE todo[d] = <<>>
      BY <1>12, <2>3 DEF ReleaseSides
    <2> QED
      BY <2>2, <2>3
  <1>13. CASE SetupCancelled
    BY <1>13 DEF SetupCancelled, Release
  <1>14. CASE Setup
    BY <1>14 DEF Setup
  <1>15. CASE SpawnOk
    BY <1>15 DEF SpawnOk
  <1>16. CASE SpawnError
    BY <1>16 DEF SpawnError, Release
  \* A direction that only followed the flag has a failed one beside it,
  \* which the result reports.
  <1>17. CASE Join
    <2>1. rres' = "ok" => ~finished
      BY <1>17 DEF Join
    <2>2. OkMeansClean'
      BY <1>17, <2>1 DEF Join
    <2> QED
      BY <1>17, <2>2 DEF Join
  <1>18. CASE Cancel
    BY <1>18 DEF Cancel
  <1>19. CASE HookRelease
    BY <1>19 DEF HookRelease, Release
  <1>20. ASSUME NEW s \in Sides, PeerSend(s) PROVE RelayInv'
    BY <1>20 DEF PeerSend
  <1>21. ASSUME NEW s \in Sides, PeerClose(s) PROVE RelayInv'
    BY <1>21 DEF PeerClose
  <1>22. ASSUME NEW s \in Sides, PeerFail(s) PROVE RelayInv'
    BY <1>22 DEF PeerFail
  <1>23. CASE UNCHANGED vars
    BY <1>23 DEF vars
  <1> HIDE DEF RelayInv
  <1> QED
    BY <1>1, <1>2, <1>3, <1>4, <1>5, <1>6, <1>7, <1>8, <1>9, <1>10, <1>11, <1>12, <1>13,
      <1>14, <1>15, <1>16, <1>17, <1>18, <1>19, <1>20, <1>21, <1>22, <1>23
      DEF Next, Thread, Copy, ReadStep, WriteStep

\* For every choice of shared and failing sides and every number of chunks,
\* the two copy loops lose, repeat and miscount nothing, whatever the order
\* in which threads, hook, canceller and peers take their steps; a clean end
\* is the peer's own; and success is two clean ends (common/stream.rs).
THEOREM RelayIsAlwaysExact == Spec => []RelayIsExact
  <1>1. RelayInv => RelayIsExact
    BY DEF RelayInv
  <1> QED
    BY <1>1, RelayStarts, RelayNext, PTL DEF Spec
=============================================================================
