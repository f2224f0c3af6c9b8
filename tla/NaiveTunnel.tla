----------------------------- MODULE NaiveTunnel -----------------------------
(***************************************************************************)
(* The one-stream HTTP/2 CONNECT tunnel of the NaiveProxy outbound         *)
(* (engine/outbound/naive.rs): the verdict on the CONNECT, the frames the  *)
(* client answers or obeys, both flow-control windows in both directions,  *)
(* and the reads and writes of the relay thread that drives it.            *)
(*                                                                         *)
(* The server obeys RFC 9113.  Bytes are counted, the bytes of one         *)
(* direction being alike; what it sends waits on the wire, what the client *)
(* sends arrives at once.                                                  *)
(***************************************************************************)
EXTENDS Naturals, Integers, Sequences

CONSTANTS Window,     \* the initial window, INITIAL_WINDOW
          Threshold,  \* CREDIT_THRESHOLD
          NewWindows, \* the initial windows a SETTINGS may announce
          MaxDown,    \* bound of the bytes the server sends
          MaxUp,      \* bound of the bytes the caller writes
          MaxControl, \* bound of the other frames the server sends
          MaxRead     \* the largest buffer the caller reads into

VARIABLES wire,      \* frames on their way to the client
          server,    \* [head, ended, sent, stream, conn: what it may send;
                     \*  gotS, gotC: what the client may send, as it sees it]
          status,    \* of the response head, 0 before it
          ready,     \* undelivered DATA
          consumed,  \* DATA the caller has taken
          uncredited,
          sWin, cWin, \* stream_window and conn_window
          initial,    \* peer_initial_window
          closed,     \* peer_closed
          call,       \* what the relay thread is in: [op, at]
          written, controls, overrun

vars == <<wire, server, status, ready, consumed, uncredited, sWin, cWin, initial, closed, call,
          written, controls, overrun>>
sending == <<sWin, cWin, initial, written, overrun>>
receiving == <<status, ready, consumed, uncredited, closed>>

Min2(a, b) == IF a < b THEN a ELSE b
Frame(k, n, m, e) == [kind |-> k, n |-> n, pad |-> m, end |-> e]
Idle == [op |-> "idle", at |-> "-"]

\* H2Tunnel::connect has sent the preface, its SETTINGS and the CONNECT.
Init ==
    /\ wire = <<>>
    /\ server = [head |-> FALSE, ended |-> FALSE, sent |-> 0, stream |-> Window, conn |-> Window,
                 gotS |-> Window, gotC |-> Window]
    /\ status = 0
    /\ ready = 0 /\ consumed = 0 /\ uncredited = 0
    /\ sWin = Window /\ cWin = Window /\ initial = Window
    /\ closed = FALSE
    /\ call = [op |-> "connect", at |-> "pump"]
    /\ written = 0 /\ controls = 0 /\ overrun = FALSE

-----------------------------------------------------------------------------
(* The server.                                                             *)

Emit(f) == wire' = Append(wire, f)
ServerRest == UNCHANGED <<receiving, sending, call>>

ServerHead(code) ==
    /\ ~server.head /\ ~server.ended
    /\ Emit(Frame("headers", code, 0, FALSE))
    /\ server' = [server EXCEPT !.head = TRUE]
    /\ UNCHANGED controls /\ ServerRest

ServerData(n, pad, end) ==
    /\ server.head /\ ~server.ended
    /\ server.sent + n <= MaxDown /\ n + pad <= Min2(server.stream, server.conn)
    /\ Emit(Frame("data", n, pad, end))
    /\ server' = [server EXCEPT !.sent = @ + n, !.stream = @ - n - pad, !.conn = @ - n - pad, !.ended = end]
    /\ UNCHANGED controls /\ ServerRest

\* SETTINGS, WINDOW_UPDATE, PING; RST_STREAM, GOAWAY and the end of the
\* connection are the last thing it sends.
ServerControl(f) ==
    /\ ~server.ended /\ controls < MaxControl
    /\ controls' = controls + 1
    /\ Emit(f)
    /\ server' = CASE f.kind = "window" -> IF f.pad = 0 THEN [server EXCEPT !.gotC = @ + f.n]
                                                        ELSE [server EXCEPT !.gotS = @ + f.n]
                   [] f.kind \in {"reset", "goaway", "eof"} -> [server EXCEPT !.ended = TRUE]
                   [] OTHER -> server
    /\ ServerRest

Controls ==
    {Frame("settings", w, 0, FALSE) : w \in NewWindows}
    \cup {Frame("window", 1, s, FALSE) : s \in {0, 1}}
    \cup {Frame(k, 0, 0, FALSE) : k \in {"ping", "reset", "goaway", "eof"}}
    \cup {Frame("goaway", 1, 0, FALSE)}

-----------------------------------------------------------------------------
(* pump and handle.                                                        *)

\* Mutation: the threshold is past the window.
CreditLate(owed) ==
    IF owed > Window
      THEN /\ uncredited' = 0
           /\ server' = [server EXCEPT !.stream = @ + owed, !.conn = @ + owed]
      ELSE uncredited' = owed /\ UNCHANGED server

\* credit: both windows of the server are widened by what was owed.
Credit(owed) ==
    IF owed >= Threshold
      THEN /\ uncredited' = 0
           /\ server' = [server EXCEPT !.stream = @ + owed, !.conn = @ + owed]
      ELSE uncredited' = owed /\ UNCHANGED server

Pumping == call.at = "pump"

\* An error of handle leaves pump and the call; the relay ends with it.
Fail == call' = [op |-> "over", at |-> "-"]

\* The stream window moves by the difference, and the acknowledgement goes out.
OnSettings(f) ==
    /\ sWin' = sWin + (f.n - initial) /\ initial' = f.n
    /\ server' = [server EXCEPT !.gotS = @ + (f.n - initial)]
    /\ UNCHANGED <<receiving, cWin, call, written, overrun>>

OnWindowUpdate(f) ==
    /\ IF f.pad = 0 THEN cWin' = cWin + f.n /\ UNCHANGED sWin
                    ELSE sWin' = sWin + f.n /\ UNCHANGED cWin
    /\ UNCHANGED <<receiving, server, initial, call, written, overrun>>

OnHeaders(f) ==
    /\ status' = f.n
    /\ UNCHANGED <<ready, consumed, uncredited, closed, server, sending, call>>

\* The payload waits for the caller, the padding is owed at once.
OnData(f) ==
    /\ ready' = ready + f.n
    /\ Credit(uncredited + f.pad)
    /\ closed' = (closed \/ f.end)
    /\ UNCHANGED <<status, consumed, sending, call>>

OnReset == closed' = TRUE /\ UNCHANGED <<status, ready, consumed, uncredited, server, sending, call>>

\* A GOAWAY that covers this stream (n = 1) is an error, one that does not
\* closes the tunnel.
OnGoAway(f) ==
    IF f.n = 1 THEN Fail /\ UNCHANGED <<receiving, server, sending>> ELSE OnReset

Handle ==
    /\ Pumping /\ wire # <<>> /\ Head(wire).kind # "eof"
    /\ wire' = Tail(wire) /\ UNCHANGED controls
    /\ LET f == Head(wire)
       IN  CASE f.kind = "settings" -> OnSettings(f)
             [] f.kind = "window" -> OnWindowUpdate(f)
             [] f.kind = "headers" -> OnHeaders(f)
             [] f.kind = "data" -> OnData(f)
             [] f.kind = "reset" -> OnReset
             [] f.kind = "goaway" -> OnGoAway(f)
             [] OTHER -> UNCHANGED <<receiving, server, sending, call>>

\* next_frame reads nothing more: pump returns Ok.
PumpEof ==
    /\ Pumping /\ wire # <<>> /\ Head(wire).kind = "eof"
    /\ closed' = TRUE
    /\ call' = [call EXCEPT !.at = "pumped"]
    /\ UNCHANGED <<wire, server, status, ready, consumed, uncredited, sending, controls>>

\* Nothing to read until the socket's timeout: pump returns the would-block.
PumpBlocks ==
    /\ Pumping /\ wire = <<>>
    /\ call' = [call EXCEPT !.at = "blocked"]
    /\ UNCHANGED <<wire, server, receiving, sending, controls>>

-----------------------------------------------------------------------------
(* The calls.                                                              *)

\* connect: once pump is back a status decides; without one it is pumped again,
\* or the deadline has passed, or the tunnel is closed.
ConnectTurn(late) ==
    /\ call.op = "connect" /\ call.at \in {"pumped", "blocked"}
    /\ call' = IF status = 200 /\ ~closed THEN Idle
               ELSE IF status # 0 \/ closed \/ late THEN [op |-> "over", at |-> "-"]
               ELSE [call EXCEPT !.at = "pump"]
    /\ UNCHANGED <<wire, server, receiving, sending, controls>>

\* read: what is ready first, then the end, then the socket.
ReadReady(n) ==
    /\ call = Idle /\ ready > 0
    /\ n = Min2(ready, MaxRead)
    /\ ready' = ready - n /\ consumed' = consumed + n
    /\ Credit(uncredited + n)
    /\ UNCHANGED <<wire, status, closed, sending, call, controls>>
ReadEof ==
    /\ call = Idle /\ ready = 0 /\ closed
    /\ call' = [op |-> "over", at |-> "-"]
    /\ UNCHANGED <<wire, server, receiving, sending, controls>>
ReadPump ==
    /\ call = Idle /\ ready = 0 /\ ~closed
    /\ call' = [op |-> "read", at |-> "pump"]
    /\ UNCHANGED <<wire, server, receiving, sending, controls>>
\* pump() is back.  The would-block is the caller's, whatever came in before it.
ReadTurn ==
    /\ call.op = "read" /\ call.at \in {"pumped", "blocked"}
    /\ call' = Idle
    /\ UNCHANGED <<wire, server, receiving, sending, controls>>

\* Mutation: only the stream's window is looked at.
RoomOfStream(want) == IF sWin < 0 THEN 0 ELSE Min2(want, sWin)

Room(want) == LET w == Min2(sWin, cWin) IN IF w < 0 THEN 0 ELSE Min2(want, w)

WriteStart ==
    /\ call = Idle /\ written < MaxUp
    /\ call' = [op |-> "write", at |-> "room"]
    /\ UNCHANGED <<wire, server, receiving, sending, controls>>

\* As much as both windows take goes out, and the write returns short.
WriteData ==
    /\ call.op = "write" /\ call.at # "pump"
    /\ LET take == Room(MaxUp - written)
       IN  /\ take > 0
           /\ overrun' = (overrun \/ take > Min2(server.gotS, server.gotC))
           /\ server' = [server EXCEPT !.gotS = @ - take, !.gotC = @ - take]
           /\ sWin' = sWin - take /\ cWin' = cWin - take
           /\ written' = written + take
    /\ call' = Idle
    /\ UNCHANGED <<wire, receiving, initial, controls>>

\* No room: an error when the peer has closed or WRITE_BUDGET is over, else the
\* socket is read for a WINDOW_UPDATE.
WriteWaits(late) ==
    /\ call.op = "write" /\ call.at # "pump" /\ Room(MaxUp - written) = 0
    /\ call' = IF closed \/ late THEN [op |-> "over", at |-> "-"] ELSE [call EXCEPT !.at = "pump"]
    /\ UNCHANGED <<wire, server, receiving, sending, controls>>

ClientStep ==
    \/ Handle
    \/ PumpEof
    \/ PumpBlocks
    \/ \E late \in BOOLEAN : ConnectTurn(late) \/ WriteWaits(late)
    \/ \E n \in 1 .. MaxRead : ReadReady(n)
    \/ ReadEof
    \/ ReadPump
    \/ ReadTurn
    \/ WriteData

Next ==
    \/ ClientStep
    \/ WriteStart
    \/ \E c \in {200, 401} : ServerHead(c)
    \/ \E n \in 1 .. 2, p \in 0 .. 1, e \in BOOLEAN : ServerData(n, p, e)
    \/ \E f \in Controls : ServerControl(f)

\* The relay thread runs, every socket read is timed, both budgets run
\* out for good (hence SF: the loops look at them between two reads), and a server that
\* has room and bytes sends them.
Fairness ==
    /\ WF_vars(ClientStep)
    /\ SF_vars(ConnectTurn(TRUE)) /\ SF_vars(WriteWaits(TRUE))
    /\ WF_vars(\E n \in 1 .. 2 : ServerData(n, 0, FALSE))

Spec == Init /\ [][Next]_vars /\ Fairness

-----------------------------------------------------------------------------
(* Properties.                                                             *)

RECURSIVE Flying(_)
Flying(s) == IF s = <<>> THEN 0 ELSE Flying(Tail(s)) + Head(s).n * (IF Head(s).kind = "data" THEN 1 ELSE 0)
                                                     + (IF Head(s).kind = "data" THEN Head(s).pad ELSE 0)

(* naive.rs:117-119: no byte of the window the client grants is lost or    *)
(* given twice: what the server may send, what is on the wire, what the    *)
(* caller has not taken and what is owed make up the initial window, and   *)
(* a DATA frame of the client never exceeds what the server has granted,   *)
(* also when SETTINGS moves the window while DATA and updates are under    *)
(* way.                                                                    *)
WindowsAreKept ==
    /\ ~overrun
    /\ server.stream + Flying(wire) + ready + uncredited = Window
    /\ server.conn = server.stream

(* naive.rs:81-87: the threshold never starves the peer: a server that     *)
(* keeps the tunnel open gets all its bytes to a caller that keeps         *)
(* reading, and the dial ends.                                             *)
Owed == \/ call.op = "connect"
        \/ server.head /\ ~server.ended /\ call.op # "over" /\ consumed < MaxDown
TunnelFlows == <>[]~Owed

(* naive.rs:352: pump reads "until one arrives that the caller can use".   *)
UsableIsReturned ==
    call.at = "blocked" => /\ call.op = "connect" => status = 0
                           /\ call.op = "read" => ready = 0
                           /\ call.op = "write" => Room(1) = 0
=============================================================================
