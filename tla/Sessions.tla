-------------------------------- MODULE Sessions --------------------------------
(***************************************************************************)
(* The two long-lived requests of the dashboard, one session of each kind: *)
(*                                                                         *)
(* - handleExec, which bridges a web socket and the PTY of a docker exec   *)
(*   with three goroutines: the handler (socket to PTY), the reader (PTY   *)
(*   to socket) and the watcher, which closes the PTY's connection when    *)
(*   the context of the session ends;                                      *)
(* - handleLogs, which copies a container's log to an event stream.        *)
(*                                                                         *)
(* Sessions share nothing, so several are as many copies of one.  A peer   *)
(* may be slow for ever: a client that stays connected but neither reads   *)
(* nor writes, a shell that does not read its input.                       *)
(***************************************************************************)
EXTENDS Naturals

CONSTANT Shells   \* how many shells detectShell knows (5 in the code)

ASSUME ShellsAssumption == Shells \in Nat \ {0}

VARIABLES
    hpc,     \* handler: "idle", "probe", "attach", "bridge", "write"
    cand,    \* detectShell: the candidate being probed
    rpc,     \* reader: "off", "read", "write"
    wpc,     \* watcher: "off", "wait"
    ctx,     \* context of the session: TRUE while it is not done
    conn,    \* hijacked connection to docker: TRUE while open
    shell,   \* TRUE while the shell runs
    ws,      \* web socket: "open", "gone" when the client left, "closed" by the server
    inbox,   \* a message of the client not yet read: "none", "data", "resize"
    lpc,     \* log handler: "idle", "ask", "read", "write", "tell"
    lctx,    \* context of the log request: TRUE while it is not done
    lclient, \* TRUE while the client of the log stream is connected
    source   \* TRUE while docker can deliver more of the log

execVars == <<hpc, cand, rpc, wpc, ctx, conn, shell, ws, inbox>>
logVars  == <<lpc, lctx, lclient, source>>
vars == <<execVars, logVars>>

Init ==
    /\ hpc = "idle" /\ cand = 1 /\ rpc = "off" /\ wpc = "off"
    /\ ctx = FALSE /\ conn = FALSE /\ shell = FALSE
    /\ ws = "closed" /\ inbox = "none"
    /\ lpc = "idle" /\ lctx = FALSE /\ lclient = FALSE /\ source = FALSE

-----------------------------------------------------------------------------
(***************************************************************************)
(* The exec handler.                                                       *)
(***************************************************************************)

\* The upgrade, and a context with the 30 minute cap.  After the upgrade the
\* connection belongs to the handler: r.Context() no longer ends with the client.
ExecRequest ==
    /\ hpc = "idle" /\ rpc = "off" /\ wpc = "off"
    /\ hpc' = "probe" /\ cand' = 1
    /\ ctx' = TRUE /\ ws' = "open" /\ inbox' = "none"
    /\ UNCHANGED <<rpc, wpc, conn, shell, logVars>>

\* The deferred calls: exec.Close, cancel, ws.Close.
ExecReturn ==
    /\ hpc' = "idle"
    /\ conn' = FALSE /\ ctx' = FALSE /\ ws' = "closed"
    /\ inbox' = "none"

\* detectShell: a candidate that cannot be created, started or inspected, or that
\* exits with an error, is passed over...
ProbeFails ==
    /\ hpc = "probe" /\ cand < Shells
    /\ cand' = cand + 1
    /\ UNCHANGED <<hpc, rpc, wpc, ctx, conn, shell, ws, inbox, logVars>>

\* ... the first that works is used ...
ProbeWorks ==
    /\ hpc = "probe" /\ ctx
    /\ hpc' = "attach"
    /\ UNCHANGED <<cand, rpc, wpc, ctx, conn, shell, ws, inbox, logVars>>

\* ... and without one, or if the exec cannot be created or attached to, the error
\* is written to the socket and the handler returns.
ExecFails ==
    /\ hpc = "attach" \/ (hpc = "probe" /\ cand = Shells)
    /\ ExecReturn
    /\ UNCHANGED <<cand, rpc, wpc, shell, logVars>>

\* Mutant: nothing watches the context.
ExecAttach_NoWatcher ==
    /\ hpc = "attach" /\ ctx
    /\ hpc' = "bridge" /\ rpc' = "read" /\ wpc' = "off"
    /\ conn' = TRUE /\ shell' = TRUE
    /\ UNCHANGED <<cand, ctx, ws, inbox, logVars>>

\* ExecCreate and ExecAttach; the watcher and the reader start.
ExecAttach ==
    /\ hpc = "attach" /\ ctx
    /\ hpc' = "bridge" /\ rpc' = "read" /\ wpc' = "wait"
    /\ conn' = TRUE /\ shell' = TRUE
    /\ UNCHANGED <<cand, ctx, ws, inbox, logVars>>

\* ReadMessage returns a message.  A resize is passed on, its error ignored.
ReadResize ==
    /\ hpc = "bridge" /\ inbox = "resize"
    /\ inbox' = "none"
    /\ UNCHANGED <<hpc, cand, rpc, wpc, ctx, conn, shell, ws, logVars>>

ReadData ==
    /\ hpc = "bridge" /\ inbox = "data"
    /\ inbox' = "none" /\ hpc' = "write"
    /\ UNCHANGED <<cand, rpc, wpc, ctx, conn, shell, ws, logVars>>

\* ReadMessage fails: the client is gone.
ReadFails ==
    /\ hpc = "bridge" /\ inbox = "none" /\ ws = "gone"
    /\ ExecReturn
    /\ UNCHANGED <<cand, rpc, wpc, shell, logVars>>

\* The shell reads its input...
WriteDone ==
    /\ hpc = "write" /\ conn
    /\ hpc' = "bridge"
    /\ UNCHANGED <<cand, rpc, wpc, ctx, conn, shell, ws, inbox, logVars>>

\* Mutant: a failed write to the PTY is ignored.
WriteFails_Continue ==
    /\ hpc = "write" /\ (~conn \/ ~shell)
    /\ hpc' = "bridge"
    /\ UNCHANGED <<cand, rpc, wpc, ctx, conn, shell, ws, inbox, logVars>>

\* ... or the connection is closed, or its other end is.
WriteFails ==
    /\ hpc = "write" /\ (~conn \/ ~shell)
    /\ ExecReturn
    /\ UNCHANGED <<cand, rpc, wpc, shell, logVars>>

-----------------------------------------------------------------------------
(***************************************************************************)
(* The reader and the watcher.                                             *)
(***************************************************************************)
ReaderGets ==
    /\ rpc = "read" /\ conn
    /\ rpc' = "write"
    /\ UNCHANGED <<hpc, cand, wpc, ctx, conn, shell, ws, inbox, logVars>>

\* The connection is closed or at its end: the reader cancels the session.
ReaderFails ==
    /\ rpc = "read" /\ (~conn \/ ~shell)
    /\ ctx' = FALSE /\ rpc' = "off"
    /\ UNCHANGED <<hpc, cand, wpc, conn, shell, ws, inbox, logVars>>

ReaderWrites ==
    /\ rpc = "write" /\ ws = "open"
    /\ rpc' = "read"
    /\ UNCHANGED <<hpc, cand, wpc, ctx, conn, shell, ws, inbox, logVars>>

\* A failed write to the socket ends the reader, and nothing else.
ReaderWriteFails ==
    /\ rpc = "write" /\ ws # "open"
    /\ rpc' = "off"
    /\ UNCHANGED <<hpc, cand, wpc, ctx, conn, shell, ws, inbox, logVars>>

WatcherCloses ==
    /\ wpc = "wait" /\ ~ctx
    /\ conn' = FALSE /\ wpc' = "off"
    /\ UNCHANGED <<hpc, cand, rpc, ctx, shell, ws, inbox, logVars>>

\* Thirty minutes are over.
CapElapses ==
    /\ ctx
    /\ ctx' = FALSE
    /\ UNCHANGED <<hpc, cand, rpc, wpc, conn, shell, ws, inbox, logVars>>

-----------------------------------------------------------------------------
\* The client sends (one unread message at a time) or leaves; the shell ends.
ClientSends(m) ==
    /\ ws = "open" /\ inbox = "none"
    /\ inbox' = m
    /\ UNCHANGED <<hpc, cand, rpc, wpc, ctx, conn, shell, ws, logVars>>

ClientLeaves ==
    /\ ws = "open"
    /\ ws' = "gone"
    /\ UNCHANGED <<hpc, cand, rpc, wpc, ctx, conn, shell, inbox, logVars>>

ShellExits ==
    /\ shell
    /\ shell' = FALSE
    /\ UNCHANGED <<hpc, cand, rpc, wpc, ctx, conn, ws, inbox, logVars>>

-----------------------------------------------------------------------------
(***************************************************************************)
(* The log stream.                                                         *)
(***************************************************************************)
LogRequest ==
    /\ lpc = "idle"
    /\ lpc' = "ask" /\ lctx' = TRUE /\ lclient' = TRUE
    /\ UNCHANGED <<source, execVars>>

\* ContainerLogs with Follow; an error is told to the client.
LogFollows ==
    /\ lpc = "ask" /\ lctx
    /\ lpc' = "read" /\ source' = TRUE
    /\ UNCHANGED <<lctx, lclient, execVars>>

LogAskFails ==
    /\ lpc = "ask"
    /\ lpc' = "tell"
    /\ UNCHANGED <<lctx, lclient, source, execVars>>

\* StdCopy: read from docker, write to the client.
LogGets ==
    /\ lpc = "read" /\ source
    /\ lpc' = "write"
    /\ UNCHANGED <<lctx, lclient, source, execVars>>

LogReturn == lpc' = "idle" /\ lctx' = FALSE /\ lclient' = FALSE /\ source' = FALSE

\* Mutant: the request to docker does not use the context of the request.
LogReadEnds_NoContext ==
    /\ lpc = "read" /\ ~source
    /\ LogReturn
    /\ UNCHANGED execVars

\* The container stops, or the context of the request is done...
LogReadEnds ==
    /\ lpc = "read" /\ (~source \/ ~lctx)
    /\ LogReturn
    /\ UNCHANGED execVars

\* ... or docker fails.
LogReadFails ==
    /\ lpc = "read" /\ ~source /\ lctx
    /\ lpc' = "tell"
    /\ UNCHANGED <<lctx, lclient, source, execVars>>

LogWrites ==
    /\ lpc = "write" /\ lclient
    /\ lpc' = "read"
    /\ UNCHANGED <<lctx, lclient, source, execVars>>

\* sseWriter returns the error: StreamLogs does too, unless the context is done.
LogWriteFails ==
    /\ lpc = "write" /\ ~lclient
    /\ \/ lctx /\ lpc' = "tell" /\ source' = FALSE /\ UNCHANGED <<lctx, lclient>>
       \/ ~lctx /\ LogReturn
    /\ UNCHANGED execVars

\* The error is written to the client...
LogTells ==
    /\ lpc = "tell" /\ lclient
    /\ LogReturn
    /\ UNCHANGED execVars

\* ... or cannot be.
LogTellFails ==
    /\ lpc = "tell" /\ ~lclient
    /\ LogReturn
    /\ UNCHANGED execVars

\* The client leaves; net/http notices and ends the context of the request.
LogClientLeaves ==
    /\ lclient
    /\ lclient' = FALSE
    /\ UNCHANGED <<lpc, lctx, source, execVars>>

LogContextEnds ==
    /\ lctx /\ ~lclient
    /\ lctx' = FALSE
    /\ UNCHANGED <<lpc, lclient, source, execVars>>

LogSourceEnds ==
    /\ source
    /\ source' = FALSE
    /\ UNCHANGED <<lpc, lctx, lclient, execVars>>

-----------------------------------------------------------------------------
\* Steps that wait for nobody but the code itself, docker's answers to calls that
\* carry a context, and timers.
HandlerStep ==
    \/ ProbeFails \/ ProbeWorks \/ ExecFails \/ ExecAttach
    \/ ReadResize \/ ReadData \/ ReadFails \/ WriteFails

ReaderStep == ReaderFails \/ ReaderWriteFails

LogStep ==
    \/ LogFollows \/ LogAskFails \/ LogReadEnds \/ LogReadFails
    \/ LogWriteFails \/ LogTellFails

\* Steps that wait for a client, a shell or a container.
PeerStep ==
    \/ ExecRequest \/ (\E m \in {"data", "resize"} : ClientSends(m))
    \/ ClientLeaves \/ ShellExits \/ WriteDone \/ ReaderGets \/ ReaderWrites
    \/ LogRequest \/ LogGets \/ LogWrites \/ LogTells
    \/ LogClientLeaves \/ LogSourceEnds

Next ==
    \/ HandlerStep \/ ReaderStep \/ WatcherCloses \/ CapElapses
    \/ LogStep \/ LogContextEnds \/ PeerStep

Spec == Init /\ [][Next]_vars

\* Goroutines run, timers fire, a dropped connection is noticed.  Nothing is
\* assumed of clients, shells and containers.
FairSpec ==
    /\ Spec
    /\ WF_vars(HandlerStep) /\ WF_vars(ReaderStep) /\ WF_vars(WatcherCloses)
    /\ WF_vars(CapElapses) /\ WF_vars(LogStep) /\ WF_vars(LogContextEnds)

-----------------------------------------------------------------------------
(***************************************************************************)
(* Properties.                                                             *)
(***************************************************************************)

\* A session leaves nothing behind.  Once its handler has returned both goroutines
\* end, also one blocked on a client that does not read; and an attached connection
\* is closed although the handler may be blocked (server.go:764, 775-805).
SessionTornDown ==
    /\ hpc = "idle" ~> (rpc = "off" /\ wpc = "off")
    /\ conn ~> ~conn

\* A session ends by itself unless its client stays connected and sends no input
\* for ever: input typed into a dead session ends it, and so does leaving, also in
\* the middle of a write to a shell that does not read (server.go:808-826).
EndsUnlessSilent ==
    hpc # "idle" ~> (hpc = "idle" \/ [](ws = "open" /\ inbox # "data"))

\* A log stream ends when its client leaves, and when the container stops unless
\* the client stays and stops reading (server.go:397-402, client.go:75-93).
LogStreamEnds ==
    /\ (lpc # "idle" /\ ~lclient) ~> lpc = "idle"
    /\ (lpc \in {"read", "write"} /\ ~source) ~>
          (lpc = "idle" \/ [](lclient /\ lpc \in {"write", "tell"}))

-----------------------------------------------------------------------------
\* "Session timeout: 30 minutes" (docs/api.md:239), "so the blocked read/write
\* loops unblock" (server.go:780-781): every session ends.  The loop that reads the
\* socket does not see the context: with a silent client it stays.
SessionTimesOut == hpc # "idle" ~> hpc = "idle"
=============================================================================
