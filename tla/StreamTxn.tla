------------------------------ MODULE StreamTxn ------------------------------
(***************************************************************************)
(* Client transactions over the streaming RPC (src/client/client_txn.go)   *)
(* against the server (src/server/server.go) and its per-stream command    *)
(* handlers.                                                               *)
(*                                                                         *)
(* Each client goroutine holds one Txn of a fixed mode (update or view) on *)
(* the client's one connection.  Its first request opens a stream; later   *)
(* requests are written on that stream.  The first response is read with  *)
(* resp.GetFrame(), which reports an error when the stream closes; later   *)
(* responses are read from firstFrame.FrameCh(), which yields nil when the *)
(* stream closes.  The server reads each stream's frames in order: the     *)
(* first opens a KV transaction of the mode in its opaque bit, every frame *)
(* gets one response, Commit and Discard end the stream, and a stream      *)
(* whose peer went away is discarded.  The handlers and the KV engine are  *)
(* not under src/ and are modelled from the spec (section 4.5).            *)
(*                                                                         *)
(* The data is one key; a Set writes the writer's name, a Delete removes   *)
(* it.  The connection can fail once, and the server can be stopped.       *)
(***************************************************************************)
EXTENDS Naturals, Sequences, FiniteSets

CONSTANTS
  Clients,    \* client goroutines, one Txn each
  MaxCalls,   \* Txn method calls per client before Commit or Discard
  MaxLateErrors, \* writes on a stream that fail after the frame left
  None        \* absent key / no value

\* Opcodes; the server mux registers handlers for Handled only.
Cmds == {"Set", "Get", "Delete", "Scan", "Commit", "Discard"}
Handled == {"Set", "Exists", "Get", "Delete", "Scan"}
Writes == {"Set", "Delete"}

VARIABLES
  update,    \* update[c]: c's Txn is read-write (txn.update)
  cpc,       \* client state: "ready", "wait" (in getRespFrame), "done", "panic"
  cop,       \* the call c is in
  ncalls,    \* calls c has made
  sw,        \* txn.sw # nil: c's stream is open
  ff,        \* txn.firstFrame # nil
  cres,      \* what c's Commit returned: None, "ok" or "err"
  req,       \* frames c sent that the server has not read
  resp,      \* response frames to c that c has not read
  ended,     \* the server ended c's stream
  conn,      \* the connection is up
  phase,     \* server: "new", "running", "openFailed", "kvClosed" (Stop
             \* closed the KV), "stopped"
  sst,       \* server stream state: "none", "open", "closed", "nohandler"
  stx,       \* server KV transaction of the stream
  kv,        \* committed value of the key
  late       \* writes that reported an error after the frame left

vars == <<update, cpc, cop, ncalls, sw, ff, cres, req, resp, ended,
          conn, phase, sst, stx, kv, late>>

Frame == [cmd : Cmds, rw : BOOLEAN]
Resp == [cmd : Cmds, code : {0, 1}]
NoTx == [rw |-> FALSE, w |-> FALSE, val |-> None, read |-> FALSE, stale |-> FALSE]

TypeOK ==
  /\ update \in [Clients -> BOOLEAN]
  /\ cpc \in [Clients -> {"ready", "wait", "done", "panic"}]
  /\ cop \in [Clients -> Cmds \cup {None}]
  /\ ncalls \in [Clients -> 0..MaxCalls]
  /\ \A c \in Clients : req[c] \in Seq(Frame) /\ resp[c] \in Seq(Resp)
  /\ cres \in [Clients -> {None, "ok", "err"}]
  /\ sst \in [Clients -> {"none", "open", "closed", "nohandler"}]
  /\ kv \in Clients \cup {None}
  /\ phase \in {"new", "running", "openFailed", "kvClosed", "stopped"}

Init ==
  /\ update \in [Clients -> BOOLEAN]
  /\ cpc = [c \in Clients |-> "ready"] /\ cop = [c \in Clients |-> None]
  /\ ncalls = [c \in Clients |-> 0]
  /\ sw = [c \in Clients |-> FALSE] /\ ff = [c \in Clients |-> FALSE]
  /\ cres = [c \in Clients |-> None]
  /\ req = [c \in Clients |-> <<>>] /\ resp = [c \in Clients |-> <<>>]
  /\ ended = [c \in Clients |-> FALSE]
  /\ conn = TRUE /\ phase = "new"
  /\ sst = [c \in Clients |-> "none"] /\ stx = [c \in Clients |-> NoTx]
  /\ kv = None
  /\ late = 0

srv == <<phase, sst, stx, kv>>
-----------------------------------------------------------------------------
(* Client side: the Txn methods.                                           *)

IsNoopNever(c, cmd) == FALSE

\* request's early return: Commit and Discard are no-ops before a stream.
IsNoop(c, cmd) == ~sw[c] /\ cmd \in {"Commit", "Discard"}

\* The write on the stream (sw.EndWrite) or the StreamRequest succeeds: a
\* new stream needs the server listening (ListenAndServe).
CanSend(c) == conn /\ (IF sw[c] THEN ~ended[c] ELSE phase \in {"running", "kvClosed"})

\* request(cmd) succeeds: the frame is sent (the first one carries the
\* update bit), and the method blocks in getRespFrame.
Request(c, cmd) ==
  /\ ~IsNoop(c, cmd)
  /\ CanSend(c)
  /\ req' = [req EXCEPT ![c] = Append(@, [cmd |-> cmd, rw |-> update[c]])]
  /\ sw' = [sw EXCEPT ![c] = TRUE]
  /\ cpc' = [cpc EXCEPT ![c] = "wait"]
  /\ UNCHANGED <<ff, cres, late>>

\* request fails (the stream or connection is gone): the method returns
\* the error; Commit and Discard end the transaction with it.
RequestFails(c, cmd) ==
  /\ ~IsNoop(c, cmd)
  /\ ~CanSend(c)
  /\ cpc' = [cpc EXCEPT ![c] = IF cmd \in {"Commit", "Discard"} THEN "done" ELSE "ready"]
  /\ cres' = [cres EXCEPT ![c] = IF cmd = "Commit" THEN "err" ELSE @]
  /\ UNCHANGED <<req, sw, ff, late>>

\* sw.EndWrite on an open stream reports an error (a write timeout of the
\* connection's writer) although the frame was handed to the connection:
\* the method returns the error as above, and the server still reads the
\* frame and answers it.
RequestLateError(c, cmd) ==
  /\ ~IsNoop(c, cmd)
  /\ sw[c] /\ CanSend(c)
  /\ late < MaxLateErrors
  /\ late' = late + 1
  /\ req' = [req EXCEPT ![c] = Append(@, [cmd |-> cmd, rw |-> update[c]])]
  /\ cpc' = [cpc EXCEPT ![c] = IF cmd \in {"Commit", "Discard"} THEN "done" ELSE "ready"]
  /\ cres' = [cres EXCEPT ![c] = IF cmd = "Commit" THEN "err" ELSE @]
  /\ UNCHANGED <<sw, ff>>

\* A Txn method call: Set and Delete of a view Txn return
\* ErrMutateForROTxn before any request; Commit and Discard without a
\* stream return nil; otherwise request.
Call(c, cmd) ==
  /\ cpc[c] = "ready"
  /\ ncalls[c] < MaxCalls \/ cmd \in {"Commit", "Discard"}
  /\ cop' = [cop EXCEPT ![c] = cmd]
  /\ ncalls' = [ncalls EXCEPT ![c] = IF @ < MaxCalls THEN @ + 1 ELSE @]
  /\ \/ /\ cmd \in Writes /\ ~update[c]
        /\ UNCHANGED <<cpc, req, sw, ff, cres, late>>
     \/ /\ IsNoop(c, cmd)
        /\ cpc' = [cpc EXCEPT ![c] = "done"]
        /\ cres' = [cres EXCEPT ![c] = IF cmd = "Commit" THEN "ok" ELSE @]
        /\ UNCHANGED <<req, sw, ff, late>>
     \/ /\ cmd \in Writes => update[c]
        /\ Request(c, cmd) \/ RequestFails(c, cmd) \/ RequestLateError(c, cmd)
  /\ UNCHANGED <<update, resp, ended, conn, srv>>

Set(c) == Call(c, "Set")
Get(c) == Call(c, "Get")
Delete(c) == Call(c, "Delete")
Commit(c) == Call(c, "Commit")
Discard(c) == Call(c, "Discard")

\* Scan returns at once when option.Limit <= 0.
Scan(c, limit) ==
  IF limit > 0 THEN Call(c, "Scan")
  ELSE /\ cpc[c] = "ready" /\ ncalls[c] < MaxCalls
       /\ ncalls' = [ncalls EXCEPT ![c] = @ + 1]
       /\ UNCHANGED <<update, cpc, cop, sw, ff, cres, req, resp, ended,
                      conn, late, srv>>

\* parseCommitResp: a non-zero code is the commit's error.
ParseCommitResp(r) == IF r.code = 0 THEN "ok" ELSE "err"

\* The method returns with the outcome of its call.
Return(c, out) ==
  /\ cpc' = [cpc EXCEPT ![c] = IF cop[c] \in {"Commit", "Discard"} THEN "done" ELSE "ready"]
  /\ cres' = [cres EXCEPT ![c] = IF cop[c] = "Commit" THEN out ELSE @]

\* getRespFrame and the parse of the frame.  A frame is waiting: it is the
\* response.  The stream is closed and nothing is waiting: GetFrame reports
\* an error for the first response; FrameCh yields nil for later ones, which
\* Discard ignores and every other parse dereferences.
Receive(c) ==
  /\ cpc[c] = "wait"
  /\ \/ /\ resp[c] # <<>>
        /\ LET r == Head(resp[c]) IN
             /\ resp' = [resp EXCEPT ![c] = Tail(@)]
             /\ ff' = [ff EXCEPT ![c] = TRUE]
             /\ Return(c, IF cop[c] = "Commit" THEN ParseCommitResp(r)
                          ELSE IF r.code = 0 THEN "ok" ELSE "err")
     \/ /\ resp[c] = <<>>
        /\ ended[c] \/ ~conn
        /\ UNCHANGED <<resp, ff>>
        /\ IF ~ff[c] \/ cop[c] = "Discard" THEN Return(c, "err")
           ELSE cpc' = [cpc EXCEPT ![c] = "panic"] /\ UNCHANGED cres
  /\ UNCHANGED <<update, cop, ncalls, sw, req, ended, conn, late, srv>>
-----------------------------------------------------------------------------
(* Server side: the stream handlers, the connection and Stop.              *)

ReplyCodeOffByOne(c, cmd, code) ==
  resp' = [resp EXCEPT ![c] = IF conn THEN Append(@, [cmd |-> cmd, code |-> code + 1]) ELSE @]
ReplyNoError(c, cmd, code) ==
  resp' = [resp EXCEPT ![c] = IF conn /\ code = 0 THEN Append(@, [cmd |-> cmd, code |-> 0]) ELSE @]

\* The handler's response frame, sent when the connection is up.
Reply(c, cmd, code) ==
  resp' = [resp EXCEPT ![c] = IF conn THEN Append(@, [cmd |-> cmd, code |-> code]) ELSE @]

\* The KV transaction of an open stream handles one command.
Handle(c, t, cmd) ==
  LET kvUp == phase = "running"
  IN CASE cmd \in Writes ->
            /\ stx' = [stx EXCEPT ![c] = IF t.rw /\ kvUp
                          THEN [t EXCEPT !.w = TRUE, !.val = IF cmd = "Set" THEN c ELSE None]
                          ELSE t]
            /\ Reply(c, cmd, IF t.rw /\ kvUp THEN 0 ELSE 1)
            /\ sst' = [sst EXCEPT ![c] = "open"]
            /\ UNCHANGED <<ended, kv>>
       [] cmd \in {"Get", "Scan"} ->
            /\ stx' = [stx EXCEPT ![c] = [t EXCEPT !.read = TRUE]]
            /\ Reply(c, cmd, IF kvUp THEN 0 ELSE 1)
            /\ sst' = [sst EXCEPT ![c] = "open"]
            /\ UNCHANGED <<ended, kv>>
       [] cmd = "Commit" ->
            LET ok == kvUp /\ ~(t.read /\ t.stale)
            IN /\ kv' = IF ok /\ t.w THEN t.val ELSE kv
               /\ stx' = [d \in Clients |->
                           IF d = c THEN NoTx
                           ELSE IF ok /\ t.w /\ sst[d] = "open"
                                  THEN [stx[d] EXCEPT !.stale = TRUE]
                           ELSE stx[d]]
               /\ Reply(c, cmd, IF ok THEN 0 ELSE 1)
               /\ sst' = [sst EXCEPT ![c] = "closed"]
               /\ ended' = [ended EXCEPT ![c] = TRUE]
       [] cmd = "Discard" ->
            /\ stx' = [stx EXCEPT ![c] = NoTx]
            /\ Reply(c, cmd, 0)
            /\ sst' = [sst EXCEPT ![c] = "closed"]
            /\ ended' = [ended EXCEPT ![c] = TRUE]
            /\ UNCHANGED <<kv>>

\* The server reads the next frame of c's stream.  The first frame goes to
\* the mux: without a handler for its opcode the stream gets no answer;
\* with one, a KV transaction of the frame's mode is opened for it.
Serve(c) ==
  /\ conn /\ req[c] # <<>> /\ sst[c] \in {"none", "open"}
  /\ LET f == Head(req[c]) IN
       /\ req' = [req EXCEPT ![c] = Tail(@)]
       /\ IF sst[c] = "none" /\ f.cmd \notin Handled
            THEN /\ sst' = [sst EXCEPT ![c] = "nohandler"]
                 /\ UNCHANGED <<stx, resp, ended, kv>>
          ELSE IF sst[c] = "none"
            THEN Handle(c, [NoTx EXCEPT !.rw = f.rw], f.cmd)
          ELSE Handle(c, stx[c], f.cmd)
  /\ UNCHANGED <<update, cpc, cop, ncalls, sw, ff, cres, conn, phase, late>>

\* The peer is gone: the stream's transaction is discarded.
PeerClosed(c) ==
  /\ ~conn /\ sst[c] = "open"
  /\ sst' = [sst EXCEPT ![c] = "closed"]
  /\ stx' = [stx EXCEPT ![c] = NoTx]
  /\ UNCHANGED <<update, cpc, cop, ncalls, sw, ff, cres, req, resp, ended,
                 conn, phase, kv, late>>

\* The connection fails: frames in flight to the server are lost.
ConnFail ==
  /\ conn
  /\ conn' = FALSE
  /\ req' = [c \in Clients |-> <<>>]
  /\ UNCHANGED <<update, cpc, cop, ncalls, sw, ff, cres, resp, ended,
                 phase, sst, stx, kv, late>>

\* Start: kvdb.Open; when it fails Start returns the error and never
\* listens, otherwise ListenAndServe serves the connection.
Start ==
  /\ phase = "new"
  /\ phase' \in {"running", "openFailed"}
  /\ UNCHANGED <<update, cpc, cop, ncalls, sw, ff, cres, req, resp, ended,
                 conn, sst, stx, kv, late>>

\* Stop: kvdb.Close() first, then qserver.Shutdown(), which closes the
\* connections.
StopCloseKV ==
  /\ phase = "running"
  /\ phase' = "kvClosed"
  /\ UNCHANGED <<update, cpc, cop, ncalls, sw, ff, cres, req, resp, ended,
                 conn, sst, stx, kv, late>>

StopShutdown ==
  /\ phase = "kvClosed"
  /\ phase' = "stopped"
  /\ conn' = FALSE
  /\ req' = [c \in Clients |-> <<>>]
  /\ UNCHANGED <<update, cpc, cop, ncalls, sw, ff, cres, resp, ended,
                 sst, stx, kv, late>>

Next ==
  \/ \E c \in Clients :
       \/ Set(c) \/ Get(c) \/ Delete(c) \/ Commit(c) \/ Discard(c)
       \/ \E limit \in {0, 1} : Scan(c, limit)
       \/ Receive(c) \/ Serve(c) \/ PeerClosed(c)
  \/ Start \/ ConnFail \/ StopCloseKV \/ StopShutdown

Fairness ==
  /\ \A c \in Clients : WF_vars(Receive(c)) /\ WF_vars(Serve(c)) /\ WF_vars(PeerClosed(c))

Spec == Init /\ [][Next]_vars /\ Fairness
-----------------------------------------------------------------------------
(* Properties.                                                             *)

\* A Txn method never dereferences a nil frame: after the first response,
\* getRespFrame reads FrameCh(), which yields nil once the stream or the
\* connection closes, and parseCommitResp (and the other parses) read its
\* Payload.
NoNilFrameDeref == \A c \in Clients : cpc[c] # "panic"

\* No stream opens with an opcode the server mux has no handler for: the
\* noop check in request keeps Commit and Discard from opening a stream.
FirstFrameHasHandler == \A c \in Clients : sst[c] # "nohandler"

\* Every Txn call blocked in getRespFrame returns, by a response, by the
\* stream closing, or by the connection failing, including across Stop.
EveryCallReturns == \A c \in Clients : cpc[c] = "wait" ~> cpc[c] # "wait"
=============================================================================
