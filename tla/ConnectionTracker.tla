--------------------------- MODULE ConnectionTracker ---------------------------
(***************************************************************************)
(* engine/connection_tracker.rs: the process-wide table of live            *)
(* connections, its byte counters and the speed window, with the inbound   *)
(* session that tracks a connection around its relay                       *)
(* (inbound/socks5.rs, inbound/http.rs, outbound/direct.rs).               *)
(*                                                                         *)
(* A session is a worker thread of an inbound listener; it is identified   *)
(* with the TrackedConnection it creates, ids being unique.  A flow is one *)
(* direction of a session's relay, a thread that reports every chunk it    *)
(* copied.  A closer calls close_all() or, when it is a resetter, reset(). *)
(* Each atomic and each map operation is a step.                           *)
(***************************************************************************)
EXTENDS Integers, FiniteSets, FiniteSetsExt

CONSTANTS
  Sessions,    \* connections
  Named,       \* the ones whose target is a name, for which the list wants an address
  Flows,       \* the directions of sessions in which something is copied
  Closers,     \* threads that call close_all()
  Resetters,   \* the ones among them that call reset()
  MaxChunks,   \* bound on the chunks a flow copies
  MaxLookups   \* MAX_DISPLAY_LOOKUPS

TrackerAssumption ==
  /\ IsFiniteSet(Sessions)
  /\ Named \subseteq Sessions
  /\ Resetters \subseteq Closers
  /\ Flows \subseteq Sessions \X {"up", "down"}
  /\ MaxChunks \in Nat
  /\ MaxLookups \in Nat \ {0}

Dirs == {"up", "down"}
Poller == <<"update_speed", "update_speed">>  \* the caller of update_speed()

VARIABLES
  connections,   \* ConnectionTracker.connections
  token,         \* TrackedConnection.cancel
  bytes,         \* TrackedConnection.upload_bytes / download_bytes
  total,         \* total_upload / total_download
  realtime,      \* realtime_upload / realtime_download
  window,        \* last_speed_update: the writers holding it, none or one
  toSwap,        \* counters the holder still has to swap out
  spc,           \* session: "idle", "tracked", "relay", "untrack", "done"
  fpc,           \* flow: "off", "copy", "total", "realtime", "window", "swap", "conn", "end"
  cpc,           \* closer: "idle", "remove", "cancel", "clear", "zero", "done"
  ids,           \* close_all: ids it still has to close
  removed,       \* close_all: the session it removed and has to cancel
  lookups,       \* DISPLAY_LOOKUPS_IN_FLIGHT
  lpc,           \* display lookup of a session: "off", "over", "spawn", "run", "end"
  reported       \* history: bytes moved out of the realtime counters

flow == <<bytes, total, realtime, window, toSwap, fpc, reported>>
look == <<lookups, lpc>>
closer == <<cpc, ids, removed>>
vars == <<connections, token, bytes, total, realtime, window, toSwap, spc, fpc, cpc, ids,
          removed, lookups, lpc, reported>>

TypeOK ==
  /\ connections \subseteq Sessions
  /\ token \in [Sessions -> BOOLEAN]
  /\ bytes \in [Flows -> Nat]
  /\ total \in [Dirs -> Nat]
  /\ realtime \in [Dirs -> Nat]
  /\ window \subseteq Flows \cup {Poller}
  /\ toSwap \subseteq Dirs
  /\ spc \in [Sessions -> {"idle", "tracked", "relay", "untrack", "done"}]
  /\ fpc \in [Flows -> {"off", "copy", "total", "realtime", "window", "swap", "conn", "end"}]
  /\ cpc \in [Closers -> {"idle", "remove", "cancel", "clear", "zero", "done"}]
  /\ ids \in [Closers -> SUBSET Sessions]
  /\ removed \in [Closers -> SUBSET Sessions]
  /\ lookups \in Nat
  /\ lpc \in [Sessions -> {"off", "over", "spawn", "run", "end"}]
  /\ reported \in [Dirs -> Nat]

Init ==
  /\ connections = {}
  /\ token = [s \in Sessions |-> FALSE]
  /\ bytes = [f \in Flows |-> 0]
  /\ total = [d \in Dirs |-> 0]
  /\ realtime = [d \in Dirs |-> 0]
  /\ window = {}
  /\ toSwap = {}
  /\ spc = [s \in Sessions |-> "idle"]
  /\ fpc = [f \in Flows |-> "off"]
  /\ cpc = [c \in Closers |-> "idle"]
  /\ ids = [c \in Closers |-> {}]
  /\ removed = [c \in Closers |-> {}]
  /\ lookups = 0
  /\ lpc = [s \in Sessions |-> "off"]
  /\ reported = [d \in Dirs |-> 0]

-----------------------------------------------------------------------------
(* The session                                                             *)

\* track(): the connection enters the table; total_connections is not kept.
Track(s) ==
  /\ spc[s] = "idle"
  /\ spc' = [spc EXCEPT ![s] = "tracked"]
  /\ connections' = connections \cup {s}
  /\ UNCHANGED <<token, flow, closer, look>>

\* The session thread has shed or spawned the lookup of its target, if any.
LookupLaunched(s) == s \in Named => lpc[s] \in {"run", "end"}

\* relay_tcp_with_connection failed to dial, or the token was cancelled before
\* the relay began: no byte is copied.
RelayRefused(s) ==
  /\ spc[s] = "tracked" /\ LookupLaunched(s)
  /\ spc' = [spc EXCEPT ![s] = "untrack"]
  /\ UNCHANGED <<connections, token, flow, closer, look>>

RelayBegin(s) ==
  /\ spc[s] = "tracked" /\ LookupLaunched(s)
  /\ ~token[s]
  /\ spc' = [spc EXCEPT ![s] = "relay"]
  /\ fpc' = [f \in Flows |-> IF f[1] = s THEN "copy" ELSE fpc[f]]
  /\ UNCHANGED <<connections, token, bytes, total, realtime, window, toSwap, reported, closer, look>>

\* relay_with joins both directions before it returns.
RelayEnd(s) ==
  /\ spc[s] = "relay"
  /\ \A f \in Flows : f[1] = s => fpc[f] = "end"
  /\ spc' = [spc EXCEPT ![s] = "untrack"]
  /\ UNCHANGED <<connections, token, flow, closer, look>>

Untrack(s) ==
  /\ spc[s] = "untrack"
  /\ spc' = [spc EXCEPT ![s] = "done"]
  /\ connections' = connections \ {s}
  /\ UNCHANGED <<token, flow, closer, look>>

-----------------------------------------------------------------------------
(* A flow's accounting callback                                            *)

GotoFlow(f, from, to) == fpc[f] = from /\ fpc' = [fpc EXCEPT ![f] = to]

\* A direction ends by itself or because the token tore the relay down.
FlowEnd(f) ==
  /\ GotoFlow(f, "copy", "end")
  /\ UNCHANGED <<connections, token, bytes, total, realtime, window, toSwap, reported, spc, closer, look>>

FlowCopy(f) ==
  /\ GotoFlow(f, "copy", "total")
  /\ bytes[f] < MaxChunks
  /\ UNCHANGED <<connections, token, bytes, total, realtime, window, toSwap, reported, spc, closer, look>>

AddTotal(f) ==
  /\ GotoFlow(f, "total", "realtime")
  /\ total' = [total EXCEPT ![f[2]] = @ + 1]
  /\ UNCHANGED <<connections, token, bytes, realtime, window, toSwap, reported, spc, closer, look>>

AddRealtime(f) ==
  /\ GotoFlow(f, "realtime", "window")
  /\ realtime' = [realtime EXCEPT ![f[2]] = @ + 1]
  /\ UNCHANGED <<connections, token, bytes, total, window, toSwap, reported, spc, closer, look>>

\* maybe_update_speed: the window is somebody else's, or it is too young.
WindowSkip(f) ==
  /\ GotoFlow(f, "window", "conn")
  /\ UNCHANGED <<connections, token, bytes, total, realtime, window, toSwap, reported, spc, closer, look>>

\* try_write succeeded and the window is at least 500 ms old.
WindowTake(f) ==
  /\ GotoFlow(f, "window", "swap")
  /\ window = {}
  /\ window' = {f}
  /\ toSwap' = Dirs
  /\ UNCHANGED <<connections, token, bytes, total, realtime, reported, spc, closer, look>>

\* update_speed(), which the status calls make: it waits for the window.
UpdateSpeed ==
  /\ window = {}
  /\ window' = {Poller}
  /\ toSwap' = Dirs
  /\ UNCHANGED <<connections, token, bytes, total, realtime, fpc, reported, spc, closer, look>>

NextSwap == IF "up" \in toSwap THEN "up" ELSE "down"

\* Fault: the counters are read where they should be swapped with zero.
ReadInsteadOfSwap(f) ==
  /\ f \in window /\ toSwap # {}
  /\ reported' = [reported EXCEPT ![NextSwap] = @ + realtime[NextSwap]]
  /\ toSwap' = toSwap \ {NextSwap}
  /\ UNCHANGED <<connections, token, bytes, total, realtime, window, fpc, spc, closer, look>>

\* The realtime counters are swapped out one after the other.
WindowSwap(f) ==
  /\ f \in window /\ toSwap # {}
  /\ reported' = [reported EXCEPT ![NextSwap] = @ + realtime[NextSwap]]
  /\ realtime' = [realtime EXCEPT ![NextSwap] = 0]
  /\ toSwap' = toSwap \ {NextSwap}
  /\ UNCHANGED <<connections, token, bytes, total, window, fpc, spc, closer, look>>

\* Fault: the holder ends with update_speed(), which locks the window again.
ReleaseRelocks(f) ==
  /\ f \in window /\ toSwap = {}
  /\ window = {}
  /\ window' = {}
  /\ fpc' = IF f = Poller THEN fpc ELSE [fpc EXCEPT ![f] = "conn"]
  /\ UNCHANGED <<connections, token, bytes, total, realtime, toSwap, reported, spc, closer, look>>

WindowRelease(f) ==
  /\ f \in window /\ toSwap = {}
  /\ window' = {}
  /\ fpc' = IF f = Poller THEN fpc ELSE [fpc EXCEPT ![f] = "conn"]
  /\ UNCHANGED <<connections, token, bytes, total, realtime, toSwap, reported, spc, closer, look>>

Window(f) == WindowSwap(f) \/ WindowRelease(f)

\* add_upload / add_download on the connection itself.
AddConn(f) ==
  /\ GotoFlow(f, "conn", "copy")
  /\ bytes' = [bytes EXCEPT ![f] = @ + 1]
  /\ UNCHANGED <<connections, token, total, realtime, window, toSwap, reported, spc, closer, look>>

Account(f) ==
  \/ AddTotal(f) \/ AddRealtime(f) \/ WindowSkip(f) \/ WindowTake(f)
  \/ Window(f) \/ AddConn(f)

-----------------------------------------------------------------------------
(* close_connection, close_all and reset                                   *)

\* The ids are collected first, then closed one at a time.
CloseAll(c) ==
  /\ cpc[c] = "idle"
  /\ cpc' = [cpc EXCEPT ![c] = "remove"]
  /\ ids' = [ids EXCEPT ![c] = connections]
  /\ UNCHANGED <<connections, token, spc, flow, removed, look>>

\* Fault: close_connection removes the entry and leaves the token alone.
RemoveOnly(c) ==
  /\ cpc[c] = "remove"
  /\ \E s \in ids[c] :
       /\ ids' = [ids EXCEPT ![c] = @ \ {s}]
       /\ connections' = connections \ {s}
       /\ UNCHANGED <<removed, cpc>>
  /\ UNCHANGED <<token, spc, flow, look>>

\* close_connection: the entry is removed from the table; an id that is no
\* longer there is skipped.
Remove(c) ==
  /\ cpc[c] = "remove"
  /\ \E s \in ids[c] :
       /\ ids' = [ids EXCEPT ![c] = @ \ {s}]
       /\ connections' = connections \ {s}
       /\ removed' = [removed EXCEPT ![c] = {s} \cap connections]
       /\ cpc' = [cpc EXCEPT ![c] = IF s \in connections THEN "cancel" ELSE "remove"]
  /\ UNCHANGED <<token, spc, flow, look>>

\* and its token is cancelled.
CancelRemoved(c) ==
  /\ cpc[c] = "cancel"
  /\ token' = [s \in Sessions |-> token[s] \/ s \in removed[c]]
  /\ removed' = [removed EXCEPT ![c] = {}]
  /\ cpc' = [cpc EXCEPT ![c] = "remove"]
  /\ UNCHANGED <<connections, spc, flow, ids, look>>

CloseAllReturns(c) ==
  /\ cpc[c] = "remove"
  /\ ids[c] = {}
  /\ cpc' = [cpc EXCEPT ![c] = IF c \in Resetters THEN "clear" ELSE "done"]
  /\ UNCHANGED <<connections, token, spc, flow, ids, removed, look>>

\* reset(): whatever is in the table by now is dropped from it.
ResetClear(c) ==
  /\ cpc[c] = "clear"
  /\ connections' = {}
  /\ cpc' = [cpc EXCEPT ![c] = "zero"]
  /\ UNCHANGED <<token, spc, flow, ids, removed, look>>

\* The counters are stored back to zero; the window's own time is not kept.
ResetZero(c) ==
  /\ cpc[c] = "zero"
  /\ total' = [d \in Dirs |-> 0]
  /\ realtime' = [d \in Dirs |-> 0]
  /\ cpc' = [cpc EXCEPT ![c] = "done"]
  /\ UNCHANGED <<connections, token, spc, bytes, window, toSwap, fpc, reported, ids, removed, look>>

Close(c) == Remove(c) \/ CancelRemoved(c) \/ CloseAllReturns(c) \/ ResetClear(c) \/ ResetZero(c)

-----------------------------------------------------------------------------
(* fill_destination_ip_in_background                                       *)

\* fetch_add decides: at the cap, the caller has to take its own count back.
LookupEnter(s) ==
  /\ s \in Named /\ spc[s] = "tracked" /\ lpc[s] = "off"
  /\ lookups' = lookups + 1
  /\ lpc' = [lpc EXCEPT ![s] = IF lookups >= MaxLookups THEN "over" ELSE "spawn"]
  /\ UNCHANGED <<connections, token, spc, flow, closer>>

LookupShed(s) ==
  /\ lpc[s] = "over"
  /\ lookups' = lookups - 1
  /\ lpc' = [lpc EXCEPT ![s] = "end"]
  /\ UNCHANGED <<connections, token, spc, flow, closer>>

LookupSpawn(s) ==
  /\ lpc[s] = "spawn"
  /\ lpc' = [lpc EXCEPT ![s] = "run"]
  /\ UNCHANGED <<connections, token, spc, lookups, flow, closer>>

\* Fault: the guard is created inside the thread, so a failed spawn leaks it.
SpawnErrorLeaks(s) ==
  /\ lpc[s] = "spawn"
  /\ lpc' = [lpc EXCEPT ![s] = "end"]
  /\ UNCHANGED <<connections, token, spc, lookups, flow, closer>>

\* A failed spawn drops the closure and, with it, the guard.
LookupSpawnError(s) ==
  /\ lpc[s] = "spawn"
  /\ lookups' = lookups - 1
  /\ lpc' = [lpc EXCEPT ![s] = "end"]
  /\ UNCHANGED <<connections, token, spc, flow, closer>>

\* The answer is written to a connection that may have ended meanwhile, and
\* the guard is dropped.
LookupDone(s) ==
  /\ lpc[s] = "run"
  /\ lookups' = lookups - 1
  /\ lpc' = [lpc EXCEPT ![s] = "end"]
  /\ UNCHANGED <<connections, token, spc, flow, closer>>

Lookup(s) == LookupShed(s) \/ LookupSpawn(s) \/ LookupSpawnError(s) \/ LookupDone(s)

-----------------------------------------------------------------------------
Next ==
  \/ \E s \in Sessions :
       \/ Track(s) \/ RelayRefused(s) \/ RelayBegin(s) \/ RelayEnd(s) \/ Untrack(s)
       \/ LookupEnter(s) \/ Lookup(s)
  \/ \E f \in Flows : FlowEnd(f) \/ FlowCopy(f) \/ Account(f)
  \/ UpdateSpeed \/ Window(Poller)
  \/ \E c \in Closers : CloseAll(c) \/ Close(c)

Spec == Init /\ [][Next]_vars

\* Threads that have begun run on.  A relay ends only when it is told to: the
\* peers of an untouched connection may stay silent for ever.
Heed(s) == RelayBegin(s) \/ (token[s] /\ RelayRefused(s))
Drain(f) == token[f[1]] /\ FlowEnd(f)
Fairness ==
  /\ \A s \in Sessions :
       /\ WF_vars(Heed(s))
       /\ WF_vars(RelayEnd(s)) /\ WF_vars(Untrack(s))
       /\ WF_vars(LookupEnter(s) \/ Lookup(s))
  /\ \A f \in Flows : WF_vars(Account(f)) /\ WF_vars(Drain(f))
  /\ WF_vars(Window(Poller))
  /\ \A c \in Closers : WF_vars(Close(c))

FairSpec == Spec /\ Fairness

-----------------------------------------------------------------------------
(* Properties                                                              *)

\* Some reset() has cleared the table; the counters are next.
ResetCleared == \E c \in Resetters : cpc[c] \in {"zero", "done"}

Between(d, S) == Cardinality({f \in Flows : f[2] = d /\ fpc[f] \in S})

\* The speed window neither loses nor doubles a byte: what was counted in
\* total is in the window, was reported from it, or is on its way, whoever
\* wins the try_write race (connection_tracker.rs:192-241).
WindowConserves ==
  ~ResetCleared =>
    \A d \in Dirs : total[d] = realtime[d] + reported[d] + Between(d, {"realtime"})

\* Only a session that still has to untrack is listed, and one that is not
\* listed was closed: until a reset() clears it, the list never hides a relay
\* that was not told to end, up to the gap between remove and cancel.
HiddenIsClosed ==
  /\ \A s \in connections : spc[s] \in {"tracked", "relay", "untrack"}
  /\ ~ResetCleared =>
       \A s \in Sessions :
         spc[s] \in {"tracked", "relay"} /\ s \notin connections
           => token[s] \/ \E c \in Closers : s \in removed[c]

\* At most MAX_DISPLAY_LOOKUPS lookup threads, and the counter is exact: it
\* counts the threads and the callers that are backing out.
LookupsBounded ==
  /\ Cardinality({s \in Sessions : lpc[s] \in {"spawn", "run"}}) <= MaxLookups
  /\ lookups = Cardinality({s \in Sessions : lpc[s] \in {"over", "spawn", "run"}})

\* What the tracker accounts for: the bytes, the list and the lookups.
TrackerAccounts == WindowConserves /\ HiddenIsClosed /\ LookupsBounded

\* A closed connection's session ends and leaves the table.
ClosedEnds == \A s \in Sessions : token[s] ~> spc[s] = "done"

Owed == \E s \in Sessions : token[s] /\ spc[s] # "done"

\* "Clear all connections, tearing down whatever still runs"
\* (connection_tracker.rs:326): after reset() no session that it dropped from
\* the table is still relaying with a live token.
ResetTearsDown ==
  \A s \in Sessions :
    spc[s] = "relay" /\ s \notin connections /\ (\A c \in Closers : cpc[c] \in {"idle", "done"})
      => token[s]
=============================================================================
