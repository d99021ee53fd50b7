------------------------------- MODULE MtpUsb -------------------------------
(***************************************************************************)
(* The MTP responder's two threads over one USB connection: the main       *)
(* thread, which handles what arrives on endpoint 0 (usb_gadget.c), and the*)
(* io thread, which reads a command, runs it and answers (umtprd.c, mtp.c, *)
(* mtp_operations/).  They share ctx->stop, cancel_req and                 *)
(* transferring_file_data; only some of their accesses are under           *)
(* cancel_mutex.  A host sends commands one at a time, cancels transfers,  *)
(* and is unplugged and plugged in again.                                  *)
(*                                                                         *)
(* A read or write of a bulk endpoint blocks until the host takes part; a  *)
(* signal or the end of the connection makes a blocked one fail, and one   *)
(* begun without a connection waits for the next.                          *)
(***************************************************************************)
EXTENDS Integers, Sequences

CONSTANTS
  Blocks,    \* packets of the one object that is read and written
  MaxTx,     \* bound: transactions
  MaxFaults  \* bound: cancels, disconnections and errors

ASSUME MtpUsbAssumption == Blocks \in Nat \ {0} /\ MaxTx \in Nat /\ MaxFaults \in Nat

VARIABLES
  eps,       \* the endpoints opened: "none", "part" or "all"
  link,      \* the function is enabled
  events,    \* queue of endpoint 0
  ep0,       \* where the main thread is
  io,        \* where the io thread is: pc, transaction, packets, and the response, or
             \* "stale": the block to be sent is not what the object holds
  fail,      \* the io thread's blocked call has been made to fail
  started,   \* ~ ctx->thread_not_started
  stop,      \* ctx->stop
  cancel,    \* ctx->cancel_req
  trans,     \* ctx->transferring_file_data
  cmutex,    \* ctx->cancel_mutex is held by the main thread
  db,        \* ctx->fs_db # 0: a session is open
  lock,      \* ctx->inotify_mutex: "free", "io", or "orphan" of a cancelled thread
  file,      \* the object's contents, as the packets written: <<tx, i>>
  offer,     \* the packet the host is trying to send, <<>> or <<packet>>
  host,      \* the host: phase, transaction, operation, packets of the object got, response
  holed,     \* history: the transfers of which the card lost a part, unreported
  cut,       \* history: the io thread was not started, or ended with no DISABLE handled
  faults     \* bound: faults so far

ctl == <<stop, cancel, trans, cmutex>>
hostv == <<offer, host>>
card == <<file, holed, faults>>
vars == <<eps, link, events, ep0, io, fail, started, stop, cancel, trans, cmutex, db, lock, file, offer, host, holed, cut, faults>>

Dead == [pc |-> "dead", tx |-> 0, n |-> 0, code |-> "none"]
At(pc) == [io EXCEPT !.pc = pc]
Blocked == io.pc \in {"read", "putread", "getwrite", "resp"}   \* in read_usb or write_usb
InOp == io.pc \in {"gettest", "getwrite", "getend", "getcheck", "puttest", "putread", "putend", "putcheck"}
Fault == faults < MaxFaults /\ faults' = faults + 1

\* A read or write of the card comes short or fails, and its result is not looked at.
CardLoses(tx) == Fault /\ holed' = holed \cup {tx}
CardWorks == UNCHANGED <<holed, faults>>

Init ==
  /\ eps = "none" /\ link = FALSE /\ events = <<>> /\ ep0 = "init" /\ io = Dead /\ fail = FALSE
  /\ started = FALSE /\ stop = FALSE /\ cancel = 0 /\ trans = FALSE /\ cmutex = FALSE
  /\ db = FALSE /\ lock = "free" /\ file = <<>> /\ offer = <<>>
  /\ host = [phase |-> "idle", tx |-> 0, op |-> "none", got |-> 0, result |-> "none"]
  /\ holed = {} /\ cut = FALSE /\ faults = 0

-----------------------------------------------------------------------------
(* The io thread.                                                          *)

\* io_thread's loop.
Top ==
  /\ io.pc = "top"
  /\ io' = IF stop THEN [io EXCEPT !.pc = "dead"] ELSE [Dead EXCEPT !.pc = "read"]
  /\ UNCHANGED <<eps, link, events, ep0, fail, started, ctl, db, lock, file, hostv, holed, cut, faults>>

Respond(tx, code) == io' = [pc |-> "resp", tx |-> tx, n |-> 0, code |-> code]

\* What the host does when its packet has been taken.
Taken(p) ==
  /\ offer' = IF p.kind \in {"put", "data"} /\ p.i < Blocks /\ host.phase = "wait"
              THEN <<[kind |-> "data", tx |-> p.tx, i |-> p.i + 1]>> ELSE <<>>
  /\ UNCHANGED host

\* process_in_packet on a packet that mtp_incoming_packet has read.  SendObject's
\* command is answered by its data phase; the first data packet opens the file, a
\* later one has no header and is taken for an unknown operation.
Dispatch(p) ==
  \/ /\ p.kind = "open"
     /\ db' = TRUE
     /\ Respond(p.tx, IF db THEN "already" ELSE "ok")
     /\ UNCHANGED <<trans, lock, card>>
  \/ /\ p.kind = "close"
     /\ db' = FALSE
     /\ Respond(p.tx, IF db THEN "ok" ELSE "notopen")
     /\ UNCHANGED <<trans, lock, card>>
  \/ /\ p.kind = "data" /\ p.i > 1
     /\ Respond(0, "unsupported")
     /\ UNCHANGED <<trans, db, lock, card>>
  \/ /\ p.kind \in {"get", "put", "data"} /\ p.i <= 1 /\ ~ db
     /\ Respond(p.tx, "notopen")
     /\ UNCHANGED <<trans, db, lock, card>>
  \/ /\ p.kind = "get" /\ db /\ lock = "free"
     /\ lock' = "io" /\ trans' = TRUE
     /\ io' = [pc |-> "gettest", tx |-> p.tx, n |-> 0, code |-> "none"]
     /\ UNCHANGED <<db, card>>
  \/ /\ p.kind = "put" /\ db /\ lock = "free"
     /\ io' = At("top")
     /\ UNCHANGED <<trans, db, lock, card>>
  \/ /\ p.kind = "data" /\ p.i = 1 /\ db /\ lock = "free"
     /\ lock' = "io" /\ trans' = TRUE
     /\ \/ file' = <<<<p.tx, p.i>>>> /\ CardWorks
        \/ file' = <<>> /\ CardLoses(p.tx)
     /\ io' = [pc |-> IF p.i < Blocks THEN "puttest" ELSE "putend", tx |-> p.tx, n |-> p.i, code |-> "none"]
     /\ UNCHANGED db
  \* the object cannot be opened
  \/ /\ p.kind \in {"get", "data"} /\ p.i <= 1 /\ db /\ lock = "free" /\ Fault
     /\ Respond(p.tx, IF p.kind = "get" THEN "incomplete" ELSE "general")
     /\ UNCHANGED <<trans, db, lock, file, holed>>

ReadCommand ==
  /\ io.pc = "read" /\ eps = "all" /\ link /\ ~ fail /\ offer # <<>>
  /\ Dispatch(offer[1])
  /\ Taken(offer[1])
  /\ UNCHANGED <<eps, link, events, ep0, fail, started, stop, cancel, cmutex, cut>>

\* A read error, or an endpoint that is not open, ends the thread.
ReadFailed ==
  /\ io.pc = "read" /\ (fail \/ eps = "part")
  /\ fail' = FALSE /\ stop' = TRUE /\ io' = At("top")
  /\ cut' = (cut \/ link)
  /\ UNCHANGED <<eps, link, events, ep0, started, cancel, trans, cmutex, db, lock, file, hostv, holed, faults>>

\* SendObject: the loop over the packets of more than one buffer.
PutTest ==
  /\ io.pc = "puttest"
  /\ io' = At(IF cancel = 0 THEN "putread" ELSE "putend")
  /\ UNCHANGED <<eps, link, events, ep0, fail, started, ctl, db, lock, file, hostv, holed, cut, faults>>

\* Whatever arrives is data; a packet that does not fill the buffer is the last.
PutRead ==
  /\ io.pc = "putread"
  /\ \/ /\ ~ fail /\ link /\ offer # <<>>
        /\ \/ file' = Append(file, <<offer[1].tx, offer[1].i>>) /\ CardWorks
           \/ file' = file /\ CardLoses(io.tx)
        /\ io' = At(IF offer[1].kind = "data" /\ offer[1].i < Blocks THEN "puttest" ELSE "putend")
        /\ Taken(offer[1])
        /\ UNCHANGED fail
     \/ /\ fail
        /\ fail' = FALSE
        /\ io' = At("putend")
        /\ UNCHANGED <<card, hostv>>
  /\ UNCHANGED <<eps, link, events, ep0, started, ctl, db, lock, cut>>

PutEnd ==
  /\ io.pc = "putend"
  /\ trans' = FALSE /\ io' = At("putcheck")
  /\ UNCHANGED <<eps, link, events, ep0, fail, started, stop, cancel, cmutex, db, lock, file, hostv, holed, cut, faults>>

\* cancel_req is read and cleared without cancel_mutex; a read error that was
\* no cancel is answered OK.
PutCheck ==
  /\ io.pc = "putcheck"
  /\ lock' = "free"
  /\ IF cancel # 0 THEN cancel' = 0 /\ io' = At("top")
     ELSE Respond(io.tx, "ok") /\ UNCHANGED cancel
  /\ UNCHANGED <<eps, link, events, ep0, fail, started, stop, trans, cmutex, db, file, hostv, holed, cut, faults>>

\* send_file_data: a block is read from the card, and written unless cancelled.  A
\* read that comes short leaves what was in the buffer before.
GetTest ==
  /\ io.pc = "gettest"
  /\ \E code \in {"none", "stale"} :
       /\ io' = [io EXCEPT !.pc = IF cancel = 0 THEN "getwrite" ELSE "getend", !.code = code]
       /\ IF code = "none" THEN CardWorks ELSE CardLoses(io.tx)
  /\ UNCHANGED <<eps, link, events, ep0, fail, started, ctl, db, lock, file, hostv, cut>>

\* The card cannot be read: transferring_file_data stays set.
GetCardError ==
  /\ io.pc = "gettest" /\ Fault
  /\ lock' = "free" /\ Respond(io.tx, "incomplete")
  /\ UNCHANGED <<eps, link, events, ep0, fail, started, ctl, db, file, hostv, holed, cut>>

\* write_usb's result is not looked at.
GetWrite ==
  /\ io.pc = "getwrite"
  /\ \/ /\ ~ fail /\ link /\ host.phase = "wait"
        /\ host' = [host EXCEPT !.got = IF host.tx = io.tx /\ io.code # "stale" THEN @ + 1 ELSE @]
        /\ UNCHANGED <<fail, offer>>
     \/ fail /\ fail' = FALSE /\ UNCHANGED hostv
  /\ io' = [io EXCEPT !.n = @ + 1, !.pc = IF io.n + 1 < Blocks /\ cancel = 0 THEN "gettest" ELSE "getend"]
  /\ UNCHANGED <<eps, link, events, ep0, started, ctl, db, lock, file, holed, cut, faults>>

GetEnd ==
  /\ io.pc = "getend"
  /\ trans' = FALSE /\ io' = At("getcheck")
  /\ UNCHANGED <<eps, link, events, ep0, fail, started, stop, cancel, cmutex, db, lock, file, hostv, holed, cut, faults>>

\* Mutant: a cancelled transfer is answered OK.
GetCheckOk ==
  /\ io.pc = "getcheck" /\ ~ cmutex
  /\ lock' = "free" /\ cancel' = 0 /\ Respond(io.tx, "ok")
  /\ UNCHANGED <<eps, link, events, ep0, fail, started, stop, trans, cmutex, db, file, hostv, holed, cut, faults>>

\* Under cancel_mutex; GetObject then releases the database.
GetCheck ==
  /\ io.pc = "getcheck" /\ ~ cmutex
  /\ lock' = "free"
  /\ IF cancel # 0 THEN cancel' = 0 /\ io' = At("top")
     ELSE Respond(io.tx, "ok") /\ UNCHANGED cancel
  /\ UNCHANGED <<eps, link, events, ep0, fail, started, stop, trans, cmutex, db, file, hostv, holed, cut, faults>>

\* The response, unless a cancel is pending.  The host drops one that is not
\* its transaction's.
Response ==
  /\ io.pc = "resp"
  /\ \/ /\ cancel # 0 /\ UNCHANGED <<fail, hostv>>
     \/ /\ fail /\ fail' = FALSE /\ UNCHANGED hostv
     \/ /\ cancel = 0 /\ ~ fail /\ link /\ host.phase = "wait"
        /\ host' = IF host.tx = io.tx THEN [host EXCEPT !.phase = "idle", !.result = io.code] ELSE host
        /\ offer' = IF host.tx = io.tx THEN <<>> ELSE offer
        /\ UNCHANGED fail
  /\ io' = At("top")
  /\ UNCHANGED <<eps, link, events, ep0, started, ctl, db, lock, file, holed, cut, faults>>

IoStep == \/ Top \/ ReadCommand \/ ReadFailed \/ PutTest \/ PutRead \/ PutEnd \/ PutCheck
          \/ GetTest \/ GetWrite \/ GetEnd \/ GetCheck \/ Response

-----------------------------------------------------------------------------
(* The main thread: handle_ffs_ep0.                                        *)

\* init_usb_mtp_gadget: buffers, the device, descriptors and strings ...
InitGadget ==
  /\ ep0 = "init"
  /\ ep0' = "loop"
  /\ UNCHANGED <<eps, link, events, io, fail, started, ctl, db, lock, file, hostv, holed, cut, faults>>

\* ... or, when one of these fails, deinit and the end of the program.
InitFailed ==
  /\ ep0 = "init" /\ Fault
  /\ ep0' = "gone"
  /\ UNCHANGED <<eps, link, events, io, fail, started, ctl, db, lock, file, hostv, holed, cut>>

Loop ==
  /\ ep0 = "loop"
  /\ ep0' = IF stop THEN "leave" ELSE "select"
  /\ UNCHANGED <<eps, link, events, io, fail, started, ctl, db, lock, file, hostv, holed, cut, faults>>

Event(kind) == ep0 = "select" /\ events # <<>> /\ Head(events) = kind /\ events' = Tail(events)

\* Only EP_DESCRIPTOR_IN is looked at: endpoints opened in part are taken for open.
Enable ==
  /\ Event("enable")
  /\ eps' = IF eps = "none" THEN "all" ELSE eps
  /\ stop' = FALSE /\ started' = TRUE
  /\ io' = IF started THEN io ELSE [Dead EXCEPT !.pc = "top"]
  /\ ep0' = "loop"
  /\ UNCHANGED <<link, fail, cancel, trans, cmutex, db, lock, file, hostv, holed, cut, faults>>

\* init_eps cannot open an endpoint.
EnableFailed ==
  /\ Event("enable") /\ eps = "none" /\ Fault
  /\ eps' \in {"none", "part"}
  /\ cut' = TRUE /\ ep0' = "loop"
  /\ UNCHANGED <<link, io, fail, started, ctl, db, lock, file, hostv, holed>>

Disable ==
  /\ Event("disable")
  /\ stop' = TRUE
  /\ ep0' = "join"
  /\ UNCHANGED <<eps, link, io, fail, started, cancel, trans, cmutex, db, lock, file, hostv, holed, cut, faults>>

\* Mutant: the database is dropped without waiting for the io thread.
DisabledUnjoined ==
  /\ ep0 = "join"
  /\ started' = FALSE /\ stop' = FALSE /\ db' = FALSE
  /\ ep0' = "loop"
  /\ UNCHANGED <<eps, link, events, io, fail, cancel, trans, cmutex, lock, file, hostv, holed, cut, faults>>

\* Mutant: thread_not_started is left alone after the join.
DisabledForever ==
  /\ ep0 = "join" /\ (started => io.pc = "dead") /\ lock = "free"
  /\ stop' = FALSE /\ db' = FALSE
  /\ ep0' = "loop"
  /\ UNCHANGED <<eps, link, events, io, fail, started, cancel, trans, cmutex, lock, file, hostv, holed, cut, faults>>

\* The join, then the database under inotify_mutex.
Disabled ==
  /\ ep0 = "join" /\ (started => io.pc = "dead") /\ lock = "free"
  /\ started' = FALSE /\ stop' = FALSE /\ db' = FALSE
  /\ ep0' = "loop"
  /\ UNCHANGED <<eps, link, events, io, fail, cancel, trans, cmutex, lock, file, hostv, holed, cut, faults>>

\* MTP_REQ_CANCEL, under cancel_mutex: the flag is read and the other set ...
CancelTest ==
  /\ Event("cancel")
  /\ IF trans THEN ep0' = "kill" /\ cmutex' = TRUE /\ cancel' = 2
     ELSE ep0' = "loop" /\ cancel' = 0 /\ UNCHANGED cmutex
  /\ UNCHANGED <<eps, link, io, fail, started, stop, trans, db, lock, file, hostv, holed, cut, faults>>

\* ... and the io thread interrupted, if it is in a call.
CancelKill ==
  /\ ep0 = "kill"
  /\ cmutex' = FALSE
  /\ fail' = (fail \/ Blocked)
  /\ ep0' = "loop"
  /\ UNCHANGED <<eps, link, events, io, started, stop, cancel, trans, db, lock, file, hostv, holed, cut, faults>>

\* MTP_REQ_GET_DEVICE_STATUS: busy once, then OK.
Status ==
  /\ Event("status")
  /\ IF cancel = 2 THEN cancel' = 1 ELSE cancel' = IF trans THEN cancel ELSE 0
  /\ host' = IF host.phase = "polling" THEN [host EXCEPT !.phase = IF cancel = 2 THEN "cancelling" ELSE "idle"] ELSE host
  /\ ep0' = "loop"
  /\ UNCHANGED <<eps, link, io, fail, started, stop, trans, cmutex, db, lock, file, offer, holed, cut, faults>>

\* Endpoint 0 cannot be read, or the first event has not come in 40 s.
Ep0Error ==
  /\ ep0 = "select" /\ Fault
  /\ ep0' = "leave"
  /\ UNCHANGED <<eps, link, events, io, fail, started, ctl, db, lock, file, hostv, holed, cut>>

\* deinit_usb_mtp_gadget, deinit_fs_db, and another round of main_thread's loop.
\* pthread_cancel strikes a thread in a call, with the lock it holds.
Leave ==
  /\ ep0 = "leave" /\ (started => io.pc = "dead" \/ Blocked)
  /\ lock' = IF lock = "io" THEN "orphan" ELSE lock
  /\ io' = Dead /\ fail' = FALSE /\ started' = FALSE /\ stop' = FALSE /\ db' = FALSE
  /\ link' = FALSE /\ events' = <<>> /\ offer' = <<>>
  /\ host' = [host EXCEPT !.phase = "idle", !.result = "none"]
  /\ ep0' = "init" /\ eps' = "none"
  /\ UNCHANGED <<cancel, trans, cmutex, file, holed, cut, faults>>

Ep0Step == InitGadget \/ Loop \/ Enable \/ Disable \/ Disabled \/ CancelTest \/ CancelKill \/ Status \/ Leave

-----------------------------------------------------------------------------
(* The host and the cable.                                                 *)

\* FunctionFS drops what is queued when the function is enabled or disabled.
\* An enumeration takes longer than a handler that waits for nothing.
Plug ==
  /\ ~ link /\ ep0 \notin {"init", "gone", "kill"}
  /\ link' = TRUE /\ events' = <<"enable">>
  /\ cut' = (cut \/ events # <<>>)
  /\ UNCHANGED <<eps, ep0, io, fail, started, ctl, db, lock, file, hostv, holed, faults>>

Unplug ==
  /\ link /\ Fault
  /\ link' = FALSE /\ events' = <<"disable">>
  /\ fail' = (fail \/ Blocked)
  /\ offer' = <<>> /\ host' = [host EXCEPT !.phase = "idle", !.result = "none"]
  /\ UNCHANGED <<eps, ep0, io, started, ctl, db, lock, file, holed, cut>>

\* A setup request drops an earlier one and waits behind an enable or a disable.
Setup(kind) == IF events # <<>> /\ events[1] \in {"enable", "disable"} THEN <<events[1], kind>> ELSE <<kind>>

Begin(op) ==
  /\ link /\ host.phase = "idle" /\ host.tx < MaxTx
  /\ host' = [phase |-> "wait", tx |-> host.tx + 1, op |-> op, got |-> 0, result |-> "none"]
  /\ offer' = <<[kind |-> op, tx |-> host.tx + 1, i |-> 0]>>
  /\ UNCHANGED <<eps, link, events, ep0, io, fail, started, ctl, db, lock, file, holed, cut, faults>>

HostCancel ==
  /\ link /\ host.phase = "wait" /\ host.op \in {"get", "put"} /\ Fault
  /\ events' = Setup("cancel")
  /\ offer' = <<>> /\ host' = [host EXCEPT !.phase = "cancelling", !.op = "none"]
  /\ UNCHANGED <<eps, link, ep0, io, fail, started, ctl, db, lock, file, holed, cut>>

Poll ==
  /\ link /\ host.phase = "cancelling"
  /\ events' = Setup("status")
  /\ host' = [host EXCEPT !.phase = "polling"]
  /\ UNCHANGED <<eps, link, ep0, io, fail, started, ctl, db, lock, file, offer, holed, cut, faults>>

Next == IoStep \/ GetCardError \/ Ep0Step \/ InitFailed \/ EnableFailed \/ Ep0Error
        \/ Plug \/ Unplug \/ HostCancel \/ Poll
        \/ \E op \in {"open", "close", "get", "put"} : Begin(op)

\* Both threads run; a host that has cancelled asks for the status.
Fairness == WF_vars(IoStep) /\ WF_vars(Ep0Step) /\ WF_vars(Poll)
Spec == Init /\ [][Next]_vars /\ Fairness

-----------------------------------------------------------------------------
\* Types, and the locks: inotify_mutex is held exactly during a transfer, so no
\* way out of an operation forgets it; only a thread that was cancelled keeps it.
TypeOK ==
  /\ io.pc \in {"dead", "top", "read", "resp"} \/ InOp
  /\ cancel \in 0 .. 2 /\ ep0 \in {"init", "gone", "loop", "select", "join", "kill", "leave"}
  /\ (lock = "io") <=> InOp
  /\ cmutex <=> ep0 = "kill"

\* An answer OK that the host takes for a transfer it has not cancelled means the
\* whole object: cancels of other transfers, lost signals, disconnections and reads
\* of the card that are seen to fail may lose the answer, never part of the data.
\* What defeats this is a write of that transfer that fails or comes short, or a
\* read that comes short: neither is looked at, and the answer is OK all the same.
OkIsWhole ==
  (host.phase = "idle" /\ host.result = "ok" /\ host.tx \notin holed) =>
    /\ host.op = "get" => host.got = Blocks
    /\ host.op = "put" => file = [i \in 1 .. Blocks |-> <<host.tx, i>>]

\* The database is dropped by the io thread itself, or when that thread is over.
DropIsSafe == [][(db /\ ~ db') => (io.pc \in {"dead", "read"} \/ lock' = "orphan" \/ ep0 = "leave")]_vars

\* A connection is served: the io thread comes to wait for the host, whatever
\* became of the connection before.  What defeats this: a signal that ends the
\* thread between two commands, a DISABLE that an ENABLE overtakes, endpoints that
\* cannot be opened, and a lock taken by a cancelled thread.
Served == link ~> (~ link \/ (started /\ Blocked) \/ cut \/ lock = "orphan")

\* Every way out of a transfer leaves the locks right, and an OK the data, unless the
\* card lost a part of it unseen (mtp_op_SendObject, send_file_data, the cancel request).
TransferIsSound == TypeOK /\ OkIsWhole
=============================================================================
