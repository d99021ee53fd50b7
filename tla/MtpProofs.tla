----------------------------- MODULE MtpProofs -----------------------------
(***************************************************************************)
(* What MtpUsb promises of a transfer, for an object of any number of      *)
(* packets and any number of transactions and faults: an OK that the host  *)
(* takes means the whole object, the locks are as they should be on every  *)
(* way out of an operation, and the database is dropped only when no       *)
(* operation can be using it.                                              *)
(*                                                                         *)
(* And what MtpFiles promises of the object database, for any names, any   *)
(* hash of them and any number of changes: a file has one handle, the last *)
(* event about a name tells what has become of it, and once the events are *)
(* handled the entries, the card and what the host knows agree.            *)
(***************************************************************************)
EXTENDS MtpUsb, MtpFiles, FiniteSetTheorems, SequenceTheorems, WellFoundedInduction, TLAPS

-----------------------------------------------------------------------------
(* TRANSFERS.  The inductive invariant.                                    *)

Phases == {"idle", "wait", "cancelling", "polling"}
Ops == {"none", "open", "close", "get", "put"}
Codes == {"none", "stale", "ok", "already", "notopen", "unsupported", "incomplete", "general"}
Transfer == {"gettest", "getwrite", "getend", "getcheck", "puttest", "putread", "putend", "putcheck"}
Pcs == {"dead", "top", "read", "resp"} \cup Transfer
Places == {"init", "gone", "loop", "select", "join", "kill", "leave"}
Hosts == [phase : Phases, tx : Nat, op : Ops, got : Nat, result : Codes]
Ios == [pc : Pcs, tx : Nat, n : Nat, code : Codes]
Packets == [kind : {"open", "close", "get", "put", "data"}, tx : Nat, i : Nat]

\* The request a host in the phase ph may have queued.
ReqOf(ph) == IF ph = "cancelling" THEN {"cancel"} ELSE IF ph = "polling" THEN {"status"} ELSE {}
Conn == {"enable", "disable"}

\* Endpoint 0's queue: an enable or disable, then a request of the host as it
\* now is.  A request does not outlive the phase it was made in, so no cancel and
\* no status is handled while the host waits for an answer.
Queue(q, ph) ==
  \/ q = <<>>
  \/ \E e \in Conn \cup ReqOf(ph) : q = <<e>>
  \/ \E e \in Conn, r \in ReqOf(ph) : q = <<e, r>>

\* A packet on offer is the next one of the transaction the host waits for.
PacketOf(p, h) ==
  /\ p \in Packets /\ p.tx = h.tx
  /\ \/ p.i = 0 /\ p.kind = h.op /\ h.got = 0
     \/ p.i \in 1 .. Blocks /\ p.kind = "data" /\ h.op = "put"
Offered(o, h) == o = <<>> \/ (h.phase = "wait" /\ PacketOf(o[1], h) /\ o = <<o[1]>>)

\* The io thread works on the transaction whose answer the host waits for.
Mine(t, h) == h.phase = "wait" /\ h.tx = t.tx

\* The first n packets of the object sent by transaction tx.
Part(tx, n) == [i \in 1 .. n |-> <<tx, i>>]

Typed ==
  /\ host \in Hosts /\ io \in Ios
  /\ cancel \in 0 .. 2 /\ ep0 \in Places /\ lock \in {"free", "io", "orphan"}

\* The host has no result while it waits, and the io thread is never ahead of it.
Numbered ==
  /\ host.phase # "idle" => host.result = "none"
  /\ host.phase = "wait" => host.tx > 0
  /\ io.tx <= host.tx
  /\ io.pc = "read" => io.tx = 0

\* The locks, and a thread that has not been started is not running.
Locks ==
  /\ (lock = "io") <=> (io.pc \in Transfer)
  /\ cmutex <=> (ep0 = "kill")
  /\ ~ started => io.pc = "dead"

\* The signal of a cancel is on its way only while the host is cancelling, and a
\* call it fails is not one of a transfer that the host still waits for.
Signals ==
  /\ ep0 = "kill" => (host.phase \in {"cancelling", "polling"} \/ (host.phase = "idle" /\ ~ link))
  /\ fail => io.pc \in {"dead", "top", "read", "resp"} \/ ~ Mine(io, host)

\* GetObject: as many packets got as sent, so all of them at the end unless cancelled
\* or holed.
Getting ==
  Mine(io, host) =>
    /\ io.pc \in {"gettest", "getwrite"} => host.op = "get" /\ io.n < Blocks /\ offer = <<>>
    /\ io.pc \in {"gettest", "getwrite"} /\ host.tx \notin holed => host.got = io.n
    /\ io.pc = "getwrite" /\ host.tx \notin holed => io.code = "none"
    /\ io.pc \in {"getend", "getcheck"} => host.op = "get"
    /\ io.pc \in {"getend", "getcheck"} /\ host.tx \notin holed => host.got = Blocks \/ cancel # 0

\* SendObject: the file is what was sent so far unless it is holed, and the next packet
\* is on offer.
Putting ==
  Mine(io, host) =>
    /\ io.pc \in {"puttest", "putread"} => host.op = "put" /\ offer # <<>> /\ offer[1].kind = "data"
    /\ io.pc \in {"puttest", "putread"} /\ host.tx \notin holed => file = Part(host.tx, offer[1].i - 1)
    /\ io.pc \in {"putend", "putcheck"} => host.op = "put"
    /\ io.pc \in {"putend", "putcheck"} /\ host.tx \notin holed => file = Part(host.tx, Blocks) \/ cancel # 0

Whole(h, f, H) == h.tx \notin H => (h.op = "get" => h.got = Blocks) /\ (h.op = "put" => f = Part(h.tx, Blocks))

\* An OK about to be given, or given, is for the whole object.
Answered ==
  /\ (Mine(io, host) /\ io.pc = "resp" /\ io.code = "ok") => Whole(host, file, holed)
  /\ (host.phase = "idle" /\ host.result = "ok") => Whole(host, file, holed)

UsbInv ==
  /\ Typed /\ Numbered /\ Locks /\ Signals
  /\ Queue(events, host.phase) /\ Offered(offer, host)
  /\ Getting /\ Putting /\ Answered

-----------------------------------------------------------------------------
(* The queue of endpoint 0.                                                *)

\* Taking the first event: what is left is still a queue for the same host.
LEMMA QueueTaken ==
  ASSUME NEW q, NEW ph, Queue(q, ph), q # <<>>
  PROVE  /\ Queue(Tail(q), ph)
         /\ Head(q) \in Conn \cup ReqOf(ph)
         /\ Head(q) \notin Conn => Tail(q) = <<>>
<1>1. CASE \E e \in Conn \cup ReqOf(ph) : q = <<e>>
  <2> PICK e \in Conn \cup ReqOf(ph) : q = <<e>>
    BY <1>1
  <2>1. Head(q) = e /\ Tail(q) = <<>>
    OBVIOUS
  <2> QED
    BY <2>1 DEF Queue
<1>2. CASE \E e \in Conn, r \in ReqOf(ph) : q = <<e, r>>
  <2> PICK e \in Conn, r \in ReqOf(ph) : q = <<e, r>>
    BY <1>2
  <2>1. Head(q) = e /\ Tail(q) = <<r>>
    OBVIOUS
  <2>2. Queue(<<r>>, ph)
    BY DEF Queue
  <2> QED
    BY <2>1, <2>2
<1> QED
  BY <1>1, <1>2 DEF Queue

\* A host that waits or rests has no request queued, so the queue suits any phase.
LEMMA QueueOfNone ==
  ASSUME NEW q, NEW ph \in {"idle", "wait"}, NEW new, Queue(q, ph)
  PROVE  Queue(q, new)
  BY DEF Queue, ReqOf

\* What the connection queues suits any host.
LEMMA QueueAnew ==
  ASSUME NEW ph
  PROVE  Queue(<<>>, ph) /\ Queue(<<"enable">>, ph) /\ Queue(<<"disable">>, ph)
  BY DEF Queue, Conn

\* A request replaces the one queued before it.
LEMMA QueueSetup ==
  ASSUME NEW kind, NEW ph, NEW new, Queue(events, ph), kind \in ReqOf(new)
  PROVE  Queue(Setup(kind), new)
<1>1. CASE events # <<>> /\ events[1] \in Conn
  BY <1>1 DEF Queue, Setup, Conn
<1>2. CASE ~ (events # <<>> /\ events[1] \in Conn)
  BY <1>2 DEF Queue, Setup, Conn
<1> QED
  BY <1>1, <1>2

-----------------------------------------------------------------------------
(* The io thread's steps.                                                  *)

\* io_thread starts a round with no transaction, or ends.
LEMMA TopKeeps == UsbInv /\ Top => UsbInv'
<1> SUFFICES ASSUME UsbInv, Top PROVE UsbInv'
  OBVIOUS
<1>1. Typed'
  BY DEF UsbInv, Top, Dead, ctl, hostv, Typed, Hosts, Ios, Phases, Ops, Codes, Pcs, Transfer, Places
<1>2. Numbered'
  BY DEF UsbInv, Top, Dead, ctl, hostv, Typed, Numbered, Hosts, Ios
<1>3. Locks'
  BY DEF UsbInv, Top, Dead, ctl, hostv, Typed, Locks, Hosts, Ios, Transfer
<1>4. Signals'
  BY DEF UsbInv, Top, Dead, ctl, hostv, Typed, Numbered, Locks, Signals, Mine, Hosts, Ios
<1>5. (Queue(events, host.phase))'
  BY QueueOfNone DEF UsbInv, Top, Dead, ctl, hostv, Typed, Hosts
<1>6. (Offered(offer, host))'
  BY DEF UsbInv, Top, Dead, ctl, hostv, Typed, Offered, PacketOf, Hosts
<1>7. Getting'
  BY DEF UsbInv, Top, Dead, ctl, hostv, Typed, Numbered, Signals, Getting, Mine, Hosts, Ios
<1>8. Putting'
  BY DEF UsbInv, Top, Dead, ctl, hostv, Typed, Numbered, Signals, Putting, Mine, Hosts, Ios
<1>9. Answered'
  BY DEF UsbInv, Top, Dead, ctl, hostv, Typed, Numbered, Getting, Putting, Answered, Whole, Mine, Hosts, Ios
<1> QED
  BY <1>1, <1>2, <1>3, <1>4, <1>5, <1>6, <1>7, <1>8, <1>9 DEF UsbInv

\* A failed read of a command loses no transfer.
LEMMA ReadFailedKeeps == UsbInv /\ ReadFailed => UsbInv'
<1> SUFFICES ASSUME UsbInv, ReadFailed PROVE UsbInv'
  OBVIOUS
<1>1. Typed'
  BY DEF UsbInv, ReadFailed, At, ctl, hostv, Typed, Hosts, Ios, Phases, Ops, Codes, Pcs, Transfer, Places
<1>2. Numbered'
  BY DEF UsbInv, ReadFailed, At, ctl, hostv, Typed, Numbered, Hosts, Ios
<1>3. Locks'
  BY DEF UsbInv, ReadFailed, At, ctl, hostv, Typed, Locks, Hosts, Ios, Transfer
<1>4. Signals'
  BY DEF UsbInv, ReadFailed, At, ctl, hostv, Typed, Numbered, Locks, Signals, Mine, Hosts, Ios
<1>5. (Queue(events, host.phase))'
  BY QueueOfNone DEF UsbInv, ReadFailed, At, ctl, hostv, Typed, Hosts
<1>6. (Offered(offer, host))'
  BY DEF UsbInv, ReadFailed, At, ctl, hostv, Typed, Offered, PacketOf, Hosts
<1>7. Getting'
  BY DEF UsbInv, ReadFailed, At, ctl, hostv, Typed, Numbered, Signals, Getting, Mine, Hosts, Ios
<1>8. Putting'
  BY DEF UsbInv, ReadFailed, At, ctl, hostv, Typed, Numbered, Signals, Putting, Mine, Hosts, Ios
<1>9. Answered'
  BY DEF UsbInv, ReadFailed, At, ctl, hostv, Typed, Numbered, Getting, Putting, Answered, Whole, Mine, Hosts, Ios
<1> QED
  BY <1>1, <1>2, <1>3, <1>4, <1>5, <1>6, <1>7, <1>8, <1>9 DEF UsbInv

\* The host's next packet, when one has been taken, is one of the same transaction.
LEMMA TakenOffers ==
  ASSUME UsbInv, offer # <<>>, Taken(offer[1])
  PROVE  Offered(offer', host')
<1>1. PacketOf(offer[1], host) /\ host' = host /\ host.phase = "wait"
  BY DEF UsbInv, Offered, Taken
<1> DEFINE p == offer[1]
<1>2. CASE p.kind \in {"put", "data"} /\ p.i < Blocks
  <2> DEFINE q == [kind |-> "data", tx |-> p.tx, i |-> p.i + 1]
  <2>1. offer' = <<q>>
    BY <1>1, <1>2 DEF Taken
  <2>2. p.tx = host.tx /\ p.tx \in Nat /\ p.i \in Nat /\ host.op = "put"
    BY <1>1, <1>2 DEF PacketOf, Packets, UsbInv, Typed, Hosts, Ops
  <2>3. p.i + 1 \in 1 .. Blocks /\ p.i + 1 \in Nat
    BY <1>2, <2>2, MtpUsbAssumption
  <2> HIDE DEF p
  <2>4. PacketOf(q, host)
    BY <2>2, <2>3 DEF PacketOf, Packets
  <2> QED
    BY <1>1, <2>1, <2>4 DEF Offered
<1>3. CASE ~ (p.kind \in {"put", "data"} /\ p.i < Blocks)
  BY <1>3 DEF Taken, Offered
<1> QED
  BY <1>2, <1>3

\* process_in_packet: the first packet of a transfer takes the lock and starts the
\* count.
LEMMA ReadCommandKeeps == UsbInv /\ ReadCommand => UsbInv'
<1> SUFFICES ASSUME UsbInv, ReadCommand PROVE UsbInv'
  OBVIOUS
<1> DEFINE p == offer[1]
<1>0. /\ io.pc = "read" /\ ~ fail /\ offer # <<>> /\ Dispatch(p) /\ Taken(p) /\ host' = host
      /\ UNCHANGED <<eps, link, events, ep0, fail, started, stop, cancel, cmutex, cut>>
  BY DEF ReadCommand, Taken
<1>p. PacketOf(p, host) /\ host.phase = "wait" /\ host.tx > 0 /\ host \in Hosts
  BY <1>0 DEF UsbInv, Offered, Numbered, Typed
<1>k. /\ p.tx = host.tx /\ p.i \in Nat /\ host.tx \in Nat
      /\ p.kind \in {"open", "close", "get", "put"} => p.kind = host.op
      /\ p.kind = "data" => host.op = "put"
  BY <1>p DEF PacketOf, Packets, Hosts, Ops
<1>g. p.kind = "get" => host.got = 0 /\ offer' = <<>>
  BY <1>0, <1>p DEF PacketOf, Taken
<1>o. Offered(offer', host')
  BY <1>0, TakenOffers
<1>l. lock # "io"
  BY <1>0 DEF UsbInv, Locks, Transfer
<1>d. \/ \E code \in Codes, tx \in {0, host.tx} :
           /\ io' = [pc |-> "resp", tx |-> tx, n |-> 0, code |-> code]
           /\ (code = "ok" => p.kind \in {"open", "close"})
           /\ UNCHANGED <<trans, lock, file, holed>>
      \/ /\ p.kind = "get" /\ lock' = "io" /\ file' = file /\ holed' = holed
         /\ io' = [pc |-> "gettest", tx |-> host.tx, n |-> 0, code |-> "none"]
      \/ /\ io' = At("top") /\ UNCHANGED <<trans, lock, file, holed>>
      \/ /\ p.kind = "data" /\ p.i = 1 /\ lock' = "io" /\ (host.tx \notin holed' => file' = <<<<p.tx, p.i>>>>)
         /\ io' = [pc |-> IF p.i < Blocks THEN "puttest" ELSE "putend", tx |-> host.tx, n |-> p.i, code |-> "none"]
  BY <1>0, <1>k DEF Dispatch, Respond, Codes, card, CardLoses, CardWorks, Fault
<1> HIDE DEF p
<1>s. Signals' /\ Queue(events, host.phase)'
  BY <1>0 DEF UsbInv, Signals
<1>a. (host.phase = "idle" /\ host.result = "ok")' => Whole(host', file', holed')
  BY <1>0, <1>p
<1>1. ASSUME NEW code \in Codes, NEW tx \in {0, host.tx},
             io' = [pc |-> "resp", tx |-> tx, n |-> 0, code |-> code],
             code = "ok" => p.kind \in {"open", "close"},
             UNCHANGED <<trans, lock, file, holed>>
      PROVE  UsbInv'
  <2>1. Typed'
    BY <1>0, <1>1, <1>k DEF UsbInv, Typed, Ios, Pcs
  <2>2. Numbered'
    BY <1>0, <1>1, <1>k DEF UsbInv, Numbered
  <2>3. Locks'
    BY <1>0, <1>1, <1>l DEF UsbInv, Locks, Transfer
  <2>4. Getting' /\ Putting'
    BY <1>1 DEF Getting, Putting
  <2>5. Answered'
    BY <1>0, <1>1, <1>a, <1>k DEF Answered, Whole
  <2> QED
    BY <1>o, <1>s, <2>1, <2>2, <2>3, <2>4, <2>5 DEF UsbInv
<1>2. ASSUME p.kind = "get", lock' = "io", file' = file, holed' = holed,
             io' = [pc |-> "gettest", tx |-> host.tx, n |-> 0, code |-> "none"]
      PROVE  UsbInv'
  <2>1. Typed'
    BY <1>0, <1>2, <1>k DEF UsbInv, Typed, Ios, Pcs, Transfer, Codes
  <2>2. Numbered'
    BY <1>0, <1>2, <1>k DEF UsbInv, Numbered
  <2>3. Locks'
    BY <1>0, <1>2 DEF UsbInv, Locks, Transfer
  <2>4. Getting' /\ Putting'
    BY <1>0, <1>2, <1>g, <1>k, MtpUsbAssumption DEF Getting, Putting
  <2>5. Answered'
    BY <1>2, <1>a DEF Answered
  <2> QED
    BY <1>o, <1>s, <2>1, <2>2, <2>3, <2>4, <2>5 DEF UsbInv
<1>3. ASSUME io' = At("top"), UNCHANGED <<trans, lock, file, holed>>
      PROVE  UsbInv'
  <2>1. Typed'
    BY <1>0, <1>3, <1>k DEF UsbInv, Typed, Ios, Pcs, At
  <2>2. Numbered'
    BY <1>0, <1>3, <1>k DEF UsbInv, Typed, Ios, Numbered, At
  <2>3. Locks'
    BY <1>0, <1>3, <1>l DEF UsbInv, Typed, Ios, Locks, Transfer, At
  <2>4. Getting' /\ Putting'
    BY <1>3 DEF UsbInv, Typed, Ios, Getting, Putting, At
  <2>5. Answered'
    BY <1>0, <1>3, <1>a, <1>k DEF UsbInv, Typed, Ios, Answered, Whole, At
  <2> QED
    BY <1>o, <1>s, <2>1, <2>2, <2>3, <2>4, <2>5 DEF UsbInv
<1>4. ASSUME p.kind = "data", p.i = 1, lock' = "io", host.tx \notin holed' => file' = <<<<p.tx, p.i>>>>,
             io' = [pc |-> IF p.i < Blocks THEN "puttest" ELSE "putend", tx |-> host.tx, n |-> p.i, code |-> "none"]
      PROVE  UsbInv'
  <2>f. <<<<p.tx, p.i>>>> = Part(host.tx, 1)
    BY <1>4, <1>k DEF Part
  <2>o. p.i < Blocks => offer' = <<[kind |-> "data", tx |-> p.tx, i |-> 2]>>
    BY <1>0, <1>4, <1>p DEF Taken
  <2>1. Typed'
    BY <1>0, <1>4, <1>k DEF UsbInv, Typed, Ios, Pcs, Transfer, Codes
  <2>2. Numbered'
    BY <1>0, <1>4, <1>k DEF UsbInv, Numbered
  <2>3. Locks'
    BY <1>0, <1>4 DEF UsbInv, Locks, Transfer
  <2>4. Getting'
    BY <1>4 DEF Getting
  <2>5. Putting'
    <3>1. CASE p.i < Blocks
      <4>1. offer' # <<>> /\ offer'[1].kind = "data" /\ offer'[1].i - 1 = 1
        BY <2>o, <3>1
      <4>2. io'.pc = "puttest" /\ host'.op = "put" /\ host'.tx = host.tx
        BY <1>0, <1>4, <1>k, <3>1
      <4>3. host.tx \notin holed' => file' = Part(host.tx, 1)
        BY <1>4, <2>f
      <4> QED
        BY <4>1, <4>2, <4>3 DEF Putting
    <3>2. CASE ~ (p.i < Blocks)
      <4>1. Blocks = 1
        BY <1>4, <3>2, MtpUsbAssumption
      <4> QED
        BY <1>0, <1>4, <1>k, <2>f, <3>2, <4>1 DEF Putting
    <3> QED
      BY <3>1, <3>2
  <2>6. Answered'
    BY <1>4, <1>a DEF Answered
  <2> QED
    BY <1>o, <1>s, <2>1, <2>2, <2>3, <2>4, <2>5, <2>6 DEF UsbInv
<1> QED
  BY <1>d, <1>1, <1>2, <1>3, <1>4

\* A cancel seen here is still pending when the answer is decided.
LEMMA PutTestKeeps == UsbInv /\ PutTest => UsbInv'
<1> SUFFICES ASSUME UsbInv, PutTest PROVE UsbInv'
  OBVIOUS
<1>1. Typed'
  BY DEF UsbInv, PutTest, At, ctl, hostv, Typed, Hosts, Ios, Phases, Ops, Codes, Pcs, Transfer, Places
<1>2. Numbered'
  BY DEF UsbInv, PutTest, At, ctl, hostv, Typed, Numbered, Hosts, Ios
<1>3. Locks'
  BY DEF UsbInv, PutTest, At, ctl, hostv, Typed, Locks, Hosts, Ios, Transfer
<1>4. Signals'
  BY DEF UsbInv, PutTest, At, ctl, hostv, Typed, Numbered, Locks, Signals, Mine, Hosts, Ios
<1>5. (Queue(events, host.phase))'
  BY QueueOfNone DEF UsbInv, PutTest, At, ctl, hostv, Typed, Hosts
<1>6. (Offered(offer, host))'
  BY DEF UsbInv, PutTest, At, ctl, hostv, Typed, Offered, PacketOf, Hosts
<1>7. Getting'
  BY DEF UsbInv, PutTest, At, ctl, hostv, Typed, Numbered, Signals, Getting, Mine, Hosts, Ios
<1>8. Putting'
  BY DEF UsbInv, PutTest, At, ctl, hostv, Typed, Numbered, Signals, Putting, Mine, Hosts, Ios
<1>9. Answered'
  BY DEF UsbInv, PutTest, At, ctl, hostv, Typed, Numbered, Getting, Putting, Answered, Whole, Mine, Hosts, Ios
<1> QED
  BY <1>1, <1>2, <1>3, <1>4, <1>5, <1>6, <1>7, <1>8, <1>9 DEF UsbInv

\* A packet adds to the file what the host sent next; a failed read is never of a
\* transfer the host waits for.
LEMMA PutReadKeeps == UsbInv /\ PutRead => UsbInv'
<1> SUFFICES ASSUME UsbInv, PutRead PROVE UsbInv'
  OBVIOUS
<1>0. /\ io.pc = "putread" /\ io \in Ios /\ host' = host /\ host \in Hosts
      /\ UNCHANGED <<eps, link, events, ep0, started, ctl, db, lock, cut>>
  BY DEF UsbInv, Typed, PutRead, Taken, hostv
<1>q. Queue(events, host.phase)'
  BY <1>0 DEF UsbInv
<1>1. ASSUME ~ fail, offer # <<>>, fail' = fail,
             holed' = holed \/ holed' = holed \cup {io.tx},
             io.tx \in holed' \/ file' = Append(file, <<offer[1].tx, offer[1].i>>),
             io' = At(IF offer[1].kind = "data" /\ offer[1].i < Blocks THEN "puttest" ELSE "putend"),
             Taken(offer[1])
      PROVE  UsbInv'
  <2> DEFINE p == offer[1]
  <2>o. Offered(offer', host')
    BY <1>1, TakenOffers
  <2>p. PacketOf(p, host) /\ host.phase = "wait" /\ host.tx \in Nat
    BY <1>0, <1>1 DEF UsbInv, Offered, Hosts
  <2>t. p.tx = host.tx /\ p.i \in Nat
    BY <2>p DEF PacketOf, Packets
  <2>1. Typed'
    BY <1>0, <1>1 DEF UsbInv, Typed, Ios, Pcs, Transfer, At, ctl
  <2>2. Numbered'
    BY <1>0, <1>1 DEF UsbInv, Numbered, Ios, At
  <2>3. Locks'
    BY <1>0, <1>1 DEF UsbInv, Locks, Ios, Transfer, At, ctl
  <2>4. Signals'
    BY <1>0, <1>1 DEF UsbInv, Signals
  <2>5. Getting'
    BY <1>0, <1>1 DEF Getting, At, Ios
  <2>6. Putting'
    <3> SUFFICES ASSUME Mine(io', host')
                 PROVE  /\ io'.pc \in {"puttest", "putread"} =>
                             /\ host'.op = "put" /\ offer' # <<>> /\ offer'[1].kind = "data"
                             /\ host'.tx \notin holed' => file' = Part(host'.tx, offer'[1].i - 1)
                        /\ io'.pc \in {"putend", "putcheck"} =>
                             host'.op = "put" /\ (host'.tx \notin holed' => file' = Part(host'.tx, Blocks) \/ cancel' # 0)
      BY DEF Putting
    <3>1. Mine(io, host)
      BY <1>0, <1>1 DEF Mine, At, Ios
    <3>2. host.op = "put" /\ p.kind = "data" /\ (host.tx \notin holed => file = Part(host.tx, p.i - 1))
      BY <1>0, <3>1 DEF UsbInv, Putting
    <3>3. p.i \in 1 .. Blocks
      BY <2>p, <3>2 DEF PacketOf
    <3>4. ASSUME host.tx \notin holed' PROVE file' = Part(host.tx, p.i)
      <4> DEFINE n == p.i
                 tx == host.tx
      <4>1. n \in Nat \ {0}
        BY <3>3, MtpUsbAssumption
      <4>2. file' = Append(Part(tx, n - 1), <<tx, n>>)
        BY <1>1, <2>t, <3>1, <3>2, <3>4 DEF Mine
      <4> HIDE DEF n, tx
      <4>3. Append(Part(tx, n - 1), <<tx, n>>) = Part(tx, n)
        BY <4>1 DEF Part
      <4> QED
        BY <4>2, <4>3 DEF n, tx
    <3>5. CASE p.i < Blocks
      <4>1. offer' = <<[kind |-> "data", tx |-> p.tx, i |-> p.i + 1]>> /\ io'.pc = "puttest"
        BY <1>0, <1>1, <2>p, <3>2, <3>5 DEF Taken, At, Ios
      <4>2. offer'[1].i - 1 = p.i /\ offer'[1].kind = "data" /\ offer' # <<>>
        BY <4>1, <2>t
      <4> QED
        BY <1>0, <3>2, <3>4, <4>1, <4>2
    <3>6. CASE ~ (p.i < Blocks)
      <4>1. p.i = Blocks
        BY <3>3, <3>6, MtpUsbAssumption
      <4>2. io'.pc = "putend"
        BY <1>0, <1>1, <3>6 DEF At, Ios
      <4> QED
        BY <1>0, <3>2, <3>4, <4>1, <4>2
    <3> QED
      BY <3>5, <3>6
  <2>7. Answered'
    BY <1>0, <1>1, <2>p DEF Answered, At, Ios
  <2> QED
    BY <1>q, <2>o, <2>1, <2>2, <2>3, <2>4, <2>5, <2>6, <2>7 DEF UsbInv
<1>2. ASSUME fail, ~ fail', io' = At("putend"), UNCHANGED <<card, hostv>>
      PROVE  UsbInv'
  <2>m. ~ Mine(io', host')
    BY <1>0, <1>2 DEF UsbInv, Signals, Mine, At, Ios
  <2>1. Typed'
    BY <1>0, <1>2 DEF UsbInv, Typed, Ios, Pcs, Transfer, At, ctl
  <2>2. Numbered'
    BY <1>0, <1>2 DEF UsbInv, Numbered, Ios, At
  <2>3. Locks'
    BY <1>0, <1>2 DEF UsbInv, Locks, Ios, Transfer, At, ctl
  <2>4. Signals'
    BY <1>0, <1>2 DEF UsbInv, Signals
  <2>5. Getting' /\ Putting'
    BY <2>m DEF Getting, Putting
  <2>6. Answered'
    BY <1>0, <1>2, <2>m DEF UsbInv, Answered, card
  <2>7. Offered(offer, host)'
    BY <1>2 DEF UsbInv, hostv
  <2> QED
    BY <1>q, <2>1, <2>2, <2>3, <2>4, <2>5, <2>6, <2>7 DEF UsbInv
<1> QED
  BY <1>1, <1>2 DEF PutRead, CardWorks, CardLoses

\* The end of the transfer changes neither the file nor a pending cancel.
LEMMA PutEndKeeps == UsbInv /\ PutEnd => UsbInv'
<1> SUFFICES ASSUME UsbInv, PutEnd PROVE UsbInv'
  OBVIOUS
<1>1. Typed'
  BY DEF UsbInv, PutEnd, At, ctl, hostv, Typed, Hosts, Ios, Phases, Ops, Codes, Pcs, Transfer, Places
<1>2. Numbered'
  BY DEF UsbInv, PutEnd, At, ctl, hostv, Typed, Numbered, Hosts, Ios
<1>3. Locks'
  BY DEF UsbInv, PutEnd, At, ctl, hostv, Typed, Locks, Hosts, Ios, Transfer
<1>4. Signals'
  BY DEF UsbInv, PutEnd, At, ctl, hostv, Typed, Numbered, Locks, Signals, Mine, Hosts, Ios
<1>5. (Queue(events, host.phase))'
  BY QueueOfNone DEF UsbInv, PutEnd, At, ctl, hostv, Typed, Hosts
<1>6. (Offered(offer, host))'
  BY DEF UsbInv, PutEnd, At, ctl, hostv, Typed, Offered, PacketOf, Hosts
<1>7. Getting'
  BY DEF UsbInv, PutEnd, At, ctl, hostv, Typed, Numbered, Signals, Getting, Mine, Hosts, Ios
<1>8. Putting'
  BY DEF UsbInv, PutEnd, At, ctl, hostv, Typed, Numbered, Signals, Putting, Mine, Hosts, Ios
<1>9. Answered'
  BY DEF UsbInv, PutEnd, At, ctl, hostv, Typed, Numbered, Getting, Putting, Answered, Whole, Mine, Hosts, Ios
<1> QED
  BY <1>1, <1>2, <1>3, <1>4, <1>5, <1>6, <1>7, <1>8, <1>9 DEF UsbInv

\* SendObject answers OK only when no cancel cut the loop short.
LEMMA PutCheckKeeps == UsbInv /\ PutCheck => UsbInv'
<1> SUFFICES ASSUME UsbInv, PutCheck PROVE UsbInv'
  OBVIOUS
<1>1. Typed'
  BY DEF UsbInv, PutCheck, At, Respond, ctl, hostv, Typed, Hosts, Ios, Phases, Ops, Codes, Pcs, Transfer, Places
<1>2. Numbered'
  BY DEF UsbInv, PutCheck, At, Respond, ctl, hostv, Typed, Numbered, Hosts, Ios
<1>3. Locks'
  BY DEF UsbInv, PutCheck, At, Respond, ctl, hostv, Typed, Locks, Hosts, Ios, Transfer
<1>4. Signals'
  BY DEF UsbInv, PutCheck, At, Respond, ctl, hostv, Typed, Numbered, Locks, Signals, Mine, Hosts, Ios
<1>5. (Queue(events, host.phase))'
  BY QueueOfNone DEF UsbInv, PutCheck, At, Respond, ctl, hostv, Typed, Hosts
<1>6. (Offered(offer, host))'
  BY DEF UsbInv, PutCheck, At, Respond, ctl, hostv, Typed, Offered, PacketOf, Hosts
<1>7. Getting'
  BY DEF UsbInv, PutCheck, At, Respond, ctl, hostv, Typed, Numbered, Signals, Getting, Mine, Hosts, Ios
<1>8. Putting'
  BY DEF UsbInv, PutCheck, At, Respond, ctl, hostv, Typed, Numbered, Signals, Putting, Mine, Hosts, Ios
<1>9. Answered'
  BY DEF UsbInv, PutCheck, At, Respond, ctl, hostv, Typed, Numbered, Getting, Putting, Answered, Whole, Mine, Hosts, Ios
<1> QED
  BY <1>1, <1>2, <1>3, <1>4, <1>5, <1>6, <1>7, <1>8, <1>9 DEF UsbInv

\* A cancel seen here is still pending when the answer is decided.
LEMMA GetTestKeeps == UsbInv /\ GetTest => UsbInv'
<1> SUFFICES ASSUME UsbInv, GetTest PROVE UsbInv'
  OBVIOUS
<1>1. Typed'
  <2>1. PICK code \in {"none", "stale"} : io' = [io EXCEPT !.pc = IF cancel = 0 THEN "getwrite" ELSE "getend", !.code = code]
    BY DEF GetTest
  <2>2. io' \in Ios
    BY <2>1 DEF UsbInv, Typed, Ios, Pcs, Transfer, Codes
  <2> QED
    BY <2>2 DEF UsbInv, GetTest, ctl, hostv, Typed
<1>2. Numbered'
  BY DEF UsbInv, GetTest, CardWorks, CardLoses, Fault, ctl, hostv, Typed, Numbered, Hosts, Ios
<1>3. Locks'
  BY DEF UsbInv, GetTest, CardWorks, CardLoses, Fault, ctl, hostv, Typed, Locks, Hosts, Ios, Transfer
<1>4. Signals'
  BY DEF UsbInv, GetTest, CardWorks, CardLoses, Fault, ctl, hostv, Typed, Numbered, Locks, Signals, Mine, Hosts, Ios
<1>5. (Queue(events, host.phase))'
  BY QueueOfNone DEF UsbInv, GetTest, CardWorks, CardLoses, Fault, ctl, hostv, Typed, Hosts
<1>6. (Offered(offer, host))'
  BY DEF UsbInv, GetTest, CardWorks, CardLoses, Fault, ctl, hostv, Typed, Offered, PacketOf, Hosts
<1>7. Getting'
  BY DEF UsbInv, GetTest, CardWorks, CardLoses, Fault, ctl, hostv, Typed, Numbered, Signals, Getting, Mine, Hosts, Ios
<1>8. Putting'
  BY DEF UsbInv, GetTest, CardWorks, CardLoses, Fault, ctl, hostv, Typed, Numbered, Signals, Putting, Mine, Hosts, Ios
<1>9. Answered'
  BY DEF UsbInv, GetTest, CardWorks, CardLoses, Fault, ctl, hostv, Typed, Numbered, Getting, Putting, Answered, Whole, Mine, Hosts, Ios
<1> QED
  BY <1>1, <1>2, <1>3, <1>4, <1>5, <1>6, <1>7, <1>8, <1>9 DEF UsbInv

\* GetObject gives the lock back and answers that the transfer is incomplete.
LEMMA GetCardErrorKeeps == UsbInv /\ GetCardError => UsbInv'
<1> SUFFICES ASSUME UsbInv, GetCardError PROVE UsbInv'
  OBVIOUS
<1>1. Typed'
  BY DEF UsbInv, GetCardError, Fault, Respond, ctl, hostv, Typed, Hosts, Ios, Phases, Ops, Codes, Pcs, Transfer, Places
<1>2. Numbered'
  BY DEF UsbInv, GetCardError, Fault, Respond, ctl, hostv, Typed, Numbered, Hosts, Ios
<1>3. Locks'
  BY DEF UsbInv, GetCardError, Fault, Respond, ctl, hostv, Typed, Locks, Hosts, Ios, Transfer
<1>4. Signals'
  BY DEF UsbInv, GetCardError, Fault, Respond, ctl, hostv, Typed, Numbered, Locks, Signals, Mine, Hosts, Ios
<1>5. (Queue(events, host.phase))'
  BY QueueOfNone DEF UsbInv, GetCardError, Fault, Respond, ctl, hostv, Typed, Hosts
<1>6. (Offered(offer, host))'
  BY DEF UsbInv, GetCardError, Fault, Respond, ctl, hostv, Typed, Offered, PacketOf, Hosts
<1>7. Getting'
  BY DEF UsbInv, GetCardError, Fault, Respond, ctl, hostv, Typed, Numbered, Signals, Getting, Mine, Hosts, Ios
<1>8. Putting'
  BY DEF UsbInv, GetCardError, Fault, Respond, ctl, hostv, Typed, Numbered, Signals, Putting, Mine, Hosts, Ios
<1>9. Answered'
  BY DEF UsbInv, GetCardError, Fault, Respond, ctl, hostv, Typed, Numbered, Getting, Putting, Answered, Whole, Mine, Hosts, Ios
<1> QED
  BY <1>1, <1>2, <1>3, <1>4, <1>5, <1>6, <1>7, <1>8, <1>9 DEF UsbInv

\* A packet written is a packet got; a failed write is never of a transfer the host
\* waits for.
LEMMA GetWriteKeeps == UsbInv /\ GetWrite => UsbInv'
<1> SUFFICES ASSUME UsbInv, GetWrite PROVE UsbInv'
  OBVIOUS
<1>0. /\ io.pc = "getwrite" /\ io \in Ios /\ host \in Hosts
      /\ io' = [io EXCEPT !.n = @ + 1, !.pc = IF io.n + 1 < Blocks /\ cancel = 0 THEN "gettest" ELSE "getend"]
  BY DEF UsbInv, Typed, GetWrite
<1>h. \/ ~ fail /\ host.phase = "wait" /\ host' = [host EXCEPT !.got = IF host.tx = io.tx /\ io.code # "stale" THEN @ + 1 ELSE @]
      \/ fail /\ host' = host
  BY DEF GetWrite, hostv
<1>1. Typed'
  <2>1. host' \in Hosts
    <3>1. host.got \in Nat /\ host.got + 1 \in Nat
      BY <1>0 DEF Hosts
    <3> QED
      BY <1>0, <1>h, <3>1 DEF Hosts
  <2>2. io' \in Ios
    <3>1. io.n + 1 \in Nat
      BY <1>0 DEF Ios
    <3> QED
      BY <1>0, <3>1 DEF Ios, Pcs, Transfer
  <2> QED
    BY <2>1, <2>2 DEF UsbInv, Typed, GetWrite, ctl
<1>2. Numbered'
  BY DEF UsbInv, GetWrite, ctl, hostv, Typed, Numbered, Hosts, Ios
<1>3. Locks'
  BY DEF UsbInv, GetWrite, ctl, hostv, Typed, Locks, Hosts, Ios, Transfer
<1>4. Signals'
  BY DEF UsbInv, GetWrite, ctl, hostv, Typed, Numbered, Locks, Signals, Mine, Hosts, Ios
<1>5. (Queue(events, host.phase))'
  BY QueueOfNone DEF UsbInv, GetWrite, ctl, hostv, Typed, Hosts
<1>6. Offered(offer, host)'
  <2>1. offer' = offer
    BY DEF GetWrite, hostv
  <2>2. CASE host.phase = "wait" /\ host.tx = io.tx /\ ~ fail
    BY <1>0, <2>1, <2>2 DEF UsbInv, Getting, Mine, Offered
  <2>3. CASE ~ (host.phase = "wait" /\ host.tx = io.tx /\ ~ fail)
    <3>1. host' = host
      BY <1>0, <1>h, <2>3 DEF Hosts
    <3> QED
      BY <2>1, <3>1 DEF UsbInv
  <2> QED
    BY <2>2, <2>3
<1>7. Getting'
  <2> SUFFICES ASSUME Mine(io', host')
               PROVE  /\ io'.pc \in {"gettest", "getwrite"} => host'.op = "get" /\ io'.n < Blocks /\ offer' = <<>>
                      /\ io'.pc \in {"gettest", "getwrite"} /\ host'.tx \notin holed' => host'.got = io'.n
                      /\ io'.pc # "getwrite"
                      /\ io'.pc \in {"getend", "getcheck"} => host'.op = "get"
                      /\ io'.pc \in {"getend", "getcheck"} /\ host'.tx \notin holed' => host'.got = Blocks \/ cancel' # 0
    BY DEF Getting
  <2>1. Mine(io, host)
    BY <1>0, <1>h DEF Mine, Ios, Hosts
  <2>2. /\ ~ fail /\ host.op = "get" /\ io.n < Blocks /\ offer = <<>>
        /\ host.tx \notin holed => host.got = io.n /\ io.code = "none"
    BY <1>0, <2>1 DEF UsbInv, Getting, Signals
  <2>3. host'.op = "get" /\ host'.tx = host.tx /\ (io.code = "none" => host'.got = host.got + 1)
    BY <1>0, <1>h, <2>1, <2>2 DEF Hosts, Mine
  <2>4. io'.n = io.n + 1 /\ io'.pc = IF io.n + 1 < Blocks /\ cancel = 0 THEN "gettest" ELSE "getend"
    BY <1>0 DEF Ios
  <2>5. \A n \in Nat : n < Blocks /\ ~ (n + 1 < Blocks) => n + 1 = Blocks
    BY MtpUsbAssumption
  <2>6. io.n \in Nat /\ cancel' = cancel /\ offer' = offer /\ holed' = holed
    BY <1>0 DEF Ios, GetWrite, ctl, hostv
  <2> QED
    BY <2>2, <2>3, <2>4, <2>5, <2>6
<1>8. Putting'
  BY DEF UsbInv, GetWrite, ctl, hostv, Typed, Numbered, Signals, Putting, Mine, Hosts, Ios
<1>9. Answered'
  BY DEF UsbInv, GetWrite, ctl, hostv, Typed, Numbered, Getting, Putting, Answered, Whole, Mine, Hosts, Ios
<1> QED
  BY <1>1, <1>2, <1>3, <1>4, <1>5, <1>6, <1>7, <1>8, <1>9 DEF UsbInv

\* The end of the transfer does not change a pending cancel.
LEMMA GetEndKeeps == UsbInv /\ GetEnd => UsbInv'
<1> SUFFICES ASSUME UsbInv, GetEnd PROVE UsbInv'
  OBVIOUS
<1>1. Typed'
  BY DEF UsbInv, GetEnd, At, ctl, hostv, Typed, Hosts, Ios, Phases, Ops, Codes, Pcs, Transfer, Places
<1>2. Numbered'
  BY DEF UsbInv, GetEnd, At, ctl, hostv, Typed, Numbered, Hosts, Ios
<1>3. Locks'
  BY DEF UsbInv, GetEnd, At, ctl, hostv, Typed, Locks, Hosts, Ios, Transfer
<1>4. Signals'
  BY DEF UsbInv, GetEnd, At, ctl, hostv, Typed, Numbered, Locks, Signals, Mine, Hosts, Ios
<1>5. (Queue(events, host.phase))'
  BY QueueOfNone DEF UsbInv, GetEnd, At, ctl, hostv, Typed, Hosts
<1>6. (Offered(offer, host))'
  BY DEF UsbInv, GetEnd, At, ctl, hostv, Typed, Offered, PacketOf, Hosts
<1>7. Getting'
  BY DEF UsbInv, GetEnd, At, ctl, hostv, Typed, Numbered, Signals, Getting, Mine, Hosts, Ios
<1>8. Putting'
  BY DEF UsbInv, GetEnd, At, ctl, hostv, Typed, Numbered, Signals, Putting, Mine, Hosts, Ios
<1>9. Answered'
  BY DEF UsbInv, GetEnd, At, ctl, hostv, Typed, Numbered, Getting, Putting, Answered, Whole, Mine, Hosts, Ios
<1> QED
  BY <1>1, <1>2, <1>3, <1>4, <1>5, <1>6, <1>7, <1>8, <1>9 DEF UsbInv

\* send_file_data answers OK only when no cancel cut the loop short.
LEMMA GetCheckKeeps == UsbInv /\ GetCheck => UsbInv'
<1> SUFFICES ASSUME UsbInv, GetCheck PROVE UsbInv'
  OBVIOUS
<1>1. Typed'
  BY DEF UsbInv, GetCheck, At, Respond, ctl, hostv, Typed, Hosts, Ios, Phases, Ops, Codes, Pcs, Transfer, Places
<1>2. Numbered'
  BY DEF UsbInv, GetCheck, At, Respond, ctl, hostv, Typed, Numbered, Hosts, Ios
<1>3. Locks'
  BY DEF UsbInv, GetCheck, At, Respond, ctl, hostv, Typed, Locks, Hosts, Ios, Transfer
<1>4. Signals'
  BY DEF UsbInv, GetCheck, At, Respond, ctl, hostv, Typed, Numbered, Locks, Signals, Mine, Hosts, Ios
<1>5. (Queue(events, host.phase))'
  BY QueueOfNone DEF UsbInv, GetCheck, At, Respond, ctl, hostv, Typed, Hosts
<1>6. (Offered(offer, host))'
  BY DEF UsbInv, GetCheck, At, Respond, ctl, hostv, Typed, Offered, PacketOf, Hosts
<1>7. Getting'
  BY DEF UsbInv, GetCheck, At, Respond, ctl, hostv, Typed, Numbered, Signals, Getting, Mine, Hosts, Ios
<1>8. Putting'
  BY DEF UsbInv, GetCheck, At, Respond, ctl, hostv, Typed, Numbered, Signals, Putting, Mine, Hosts, Ios
<1>9. Answered'
  BY DEF UsbInv, GetCheck, At, Respond, ctl, hostv, Typed, Numbered, Getting, Putting, Answered, Whole, Mine, Hosts, Ios
<1> QED
  BY <1>1, <1>2, <1>3, <1>4, <1>5, <1>6, <1>7, <1>8, <1>9 DEF UsbInv

\* The host takes the answer of its own transaction, and stops offering packets.
LEMMA ResponseKeeps == UsbInv /\ Response => UsbInv'
<1> SUFFICES ASSUME UsbInv, Response PROVE UsbInv'
  OBVIOUS
<1>1. Typed'
  BY DEF UsbInv, Response, At, ctl, hostv, Typed, Hosts, Ios, Phases, Ops, Codes, Pcs, Transfer, Places
<1>2. Numbered'
  BY DEF UsbInv, Response, At, ctl, hostv, Typed, Numbered, Hosts, Ios
<1>3. Locks'
  BY DEF UsbInv, Response, At, ctl, hostv, Typed, Locks, Hosts, Ios, Transfer
<1>4. Signals'
  BY DEF UsbInv, Response, At, ctl, hostv, Typed, Numbered, Locks, Signals, Mine, Hosts, Ios
<1>5. (Queue(events, host.phase))'
  BY QueueOfNone DEF UsbInv, Response, At, ctl, hostv, Typed, Hosts
<1>6. (Offered(offer, host))'
  BY DEF UsbInv, Response, At, ctl, hostv, Typed, Offered, PacketOf, Hosts
<1>7. Getting'
  BY DEF UsbInv, Response, At, ctl, hostv, Typed, Numbered, Signals, Getting, Mine, Hosts, Ios
<1>8. Putting'
  BY DEF UsbInv, Response, At, ctl, hostv, Typed, Numbered, Signals, Putting, Mine, Hosts, Ios
<1>9. Answered'
  BY DEF UsbInv, Response, At, ctl, hostv, Typed, Numbered, Getting, Putting, Answered, Whole, Mine, Hosts, Ios
<1> QED
  BY <1>1, <1>2, <1>3, <1>4, <1>5, <1>6, <1>7, <1>8, <1>9 DEF UsbInv

-----------------------------------------------------------------------------
(* The main thread's steps.                                                *)

\* The main thread's own progress touches neither transfer nor queue.
LEMMA InitGadgetKeeps == UsbInv /\ InitGadget => UsbInv'
<1> SUFFICES ASSUME UsbInv, InitGadget PROVE UsbInv'
  OBVIOUS
<1>1. Typed'
  BY DEF UsbInv, InitGadget, ctl, hostv, Typed, Hosts, Ios, Phases, Ops, Codes, Pcs, Transfer, Places
<1>2. Numbered'
  BY DEF UsbInv, InitGadget, ctl, hostv, Typed, Numbered, Hosts, Ios
<1>3. Locks'
  BY DEF UsbInv, InitGadget, ctl, hostv, Typed, Locks, Hosts, Ios, Transfer
<1>4. Signals'
  BY DEF UsbInv, InitGadget, ctl, hostv, Typed, Numbered, Locks, Signals, Mine, Hosts, Ios
<1>5. (Queue(events, host.phase))'
  BY QueueOfNone DEF UsbInv, InitGadget, ctl, hostv, Typed, Hosts
<1>6. (Offered(offer, host))'
  BY DEF UsbInv, InitGadget, ctl, hostv, Typed, Offered, PacketOf, Hosts
<1>7. Getting'
  BY DEF UsbInv, InitGadget, ctl, hostv, Typed, Numbered, Signals, Getting, Mine, Hosts, Ios
<1>8. Putting'
  BY DEF UsbInv, InitGadget, ctl, hostv, Typed, Numbered, Signals, Putting, Mine, Hosts, Ios
<1>9. Answered'
  BY DEF UsbInv, InitGadget, ctl, hostv, Typed, Numbered, Getting, Putting, Answered, Whole, Mine, Hosts, Ios
<1> QED
  BY <1>1, <1>2, <1>3, <1>4, <1>5, <1>6, <1>7, <1>8, <1>9 DEF UsbInv

\* The end of the program touches neither transfer nor queue.
LEMMA InitFailedKeeps == UsbInv /\ InitFailed => UsbInv'
<1> SUFFICES ASSUME UsbInv, InitFailed PROVE UsbInv'
  OBVIOUS
<1>1. Typed'
  BY DEF UsbInv, InitFailed, Fault, ctl, hostv, Typed, Hosts, Ios, Phases, Ops, Codes, Pcs, Transfer, Places
<1>2. Numbered'
  BY DEF UsbInv, InitFailed, Fault, ctl, hostv, Typed, Numbered, Hosts, Ios
<1>3. Locks'
  BY DEF UsbInv, InitFailed, Fault, ctl, hostv, Typed, Locks, Hosts, Ios, Transfer
<1>4. Signals'
  BY DEF UsbInv, InitFailed, Fault, ctl, hostv, Typed, Numbered, Locks, Signals, Mine, Hosts, Ios
<1>5. (Queue(events, host.phase))'
  BY QueueOfNone DEF UsbInv, InitFailed, Fault, ctl, hostv, Typed, Hosts
<1>6. (Offered(offer, host))'
  BY DEF UsbInv, InitFailed, Fault, ctl, hostv, Typed, Offered, PacketOf, Hosts
<1>7. Getting'
  BY DEF UsbInv, InitFailed, Fault, ctl, hostv, Typed, Numbered, Signals, Getting, Mine, Hosts, Ios
<1>8. Putting'
  BY DEF UsbInv, InitFailed, Fault, ctl, hostv, Typed, Numbered, Signals, Putting, Mine, Hosts, Ios
<1>9. Answered'
  BY DEF UsbInv, InitFailed, Fault, ctl, hostv, Typed, Numbered, Getting, Putting, Answered, Whole, Mine, Hosts, Ios
<1> QED
  BY <1>1, <1>2, <1>3, <1>4, <1>5, <1>6, <1>7, <1>8, <1>9 DEF UsbInv

\* The main thread's own progress touches neither transfer nor queue.
LEMMA LoopKeeps == UsbInv /\ Loop => UsbInv'
<1> SUFFICES ASSUME UsbInv, Loop PROVE UsbInv'
  OBVIOUS
<1>1. Typed'
  BY DEF UsbInv, Loop, ctl, hostv, Typed, Hosts, Ios, Phases, Ops, Codes, Pcs, Transfer, Places
<1>2. Numbered'
  BY DEF UsbInv, Loop, ctl, hostv, Typed, Numbered, Hosts, Ios
<1>3. Locks'
  BY DEF UsbInv, Loop, ctl, hostv, Typed, Locks, Hosts, Ios, Transfer
<1>4. Signals'
  BY DEF UsbInv, Loop, ctl, hostv, Typed, Numbered, Locks, Signals, Mine, Hosts, Ios
<1>5. (Queue(events, host.phase))'
  BY QueueOfNone DEF UsbInv, Loop, ctl, hostv, Typed, Hosts
<1>6. (Offered(offer, host))'
  BY DEF UsbInv, Loop, ctl, hostv, Typed, Offered, PacketOf, Hosts
<1>7. Getting'
  BY DEF UsbInv, Loop, ctl, hostv, Typed, Numbered, Signals, Getting, Mine, Hosts, Ios
<1>8. Putting'
  BY DEF UsbInv, Loop, ctl, hostv, Typed, Numbered, Signals, Putting, Mine, Hosts, Ios
<1>9. Answered'
  BY DEF UsbInv, Loop, ctl, hostv, Typed, Numbered, Getting, Putting, Answered, Whole, Mine, Hosts, Ios
<1> QED
  BY <1>1, <1>2, <1>3, <1>4, <1>5, <1>6, <1>7, <1>8, <1>9 DEF UsbInv

\* A thread is started only where there is none.
LEMMA EnableKeeps == UsbInv /\ Enable => UsbInv'
<1> SUFFICES ASSUME UsbInv, Enable PROVE UsbInv'
  OBVIOUS
<1>0. events # <<>> /\ Head(events) = "enable" /\ events' = Tail(events)
  BY DEF Enable, Event
<1>1. Typed'
  BY DEF UsbInv, Enable, Event, Dead, ctl, hostv, Typed, Hosts, Ios, Phases, Ops, Codes, Pcs, Transfer, Places
<1>2. Numbered'
  BY DEF UsbInv, Enable, Event, Dead, ctl, hostv, Typed, Numbered, Hosts, Ios
<1>3. Locks'
  BY DEF UsbInv, Enable, Event, Dead, ctl, hostv, Typed, Locks, Hosts, Ios, Transfer
<1>4. Signals'
  BY DEF UsbInv, Enable, Event, Dead, ctl, hostv, Typed, Numbered, Locks, Signals, Mine, Hosts, Ios
<1>5. (Queue(events, host.phase))'
  BY <1>0, QueueTaken DEF UsbInv, Enable, Event, Dead, ctl, hostv
<1>6. (Offered(offer, host))'
  BY DEF UsbInv, Enable, Event, Dead, ctl, hostv, Typed, Offered, PacketOf, Hosts
<1>7. Getting'
  BY DEF UsbInv, Enable, Event, Dead, ctl, hostv, Typed, Numbered, Signals, Getting, Mine, Hosts, Ios
<1>8. Putting'
  BY DEF UsbInv, Enable, Event, Dead, ctl, hostv, Typed, Numbered, Signals, Putting, Mine, Hosts, Ios
<1>9. Answered'
  BY DEF UsbInv, Enable, Event, Dead, ctl, hostv, Typed, Numbered, Getting, Putting, Answered, Whole, Mine, Hosts, Ios
<1> QED
  BY <1>1, <1>2, <1>3, <1>4, <1>5, <1>6, <1>7, <1>8, <1>9 DEF UsbInv

\* Without endpoints no thread is started.
LEMMA EnableFailedKeeps == UsbInv /\ EnableFailed => UsbInv'
<1> SUFFICES ASSUME UsbInv, EnableFailed PROVE UsbInv'
  OBVIOUS
<1>0. events # <<>> /\ Head(events) = "enable" /\ events' = Tail(events)
  BY DEF EnableFailed, Event
<1>1. Typed'
  BY DEF UsbInv, EnableFailed, Event, Fault, ctl, hostv, Typed, Hosts, Ios, Phases, Ops, Codes, Pcs, Transfer, Places
<1>2. Numbered'
  BY DEF UsbInv, EnableFailed, Event, Fault, ctl, hostv, Typed, Numbered, Hosts, Ios
<1>3. Locks'
  BY DEF UsbInv, EnableFailed, Event, Fault, ctl, hostv, Typed, Locks, Hosts, Ios, Transfer
<1>4. Signals'
  BY DEF UsbInv, EnableFailed, Event, Fault, ctl, hostv, Typed, Numbered, Locks, Signals, Mine, Hosts, Ios
<1>5. (Queue(events, host.phase))'
  BY <1>0, QueueTaken DEF UsbInv, EnableFailed, Event, Fault, ctl, hostv
<1>6. (Offered(offer, host))'
  BY DEF UsbInv, EnableFailed, Event, Fault, ctl, hostv, Typed, Offered, PacketOf, Hosts
<1>7. Getting'
  BY DEF UsbInv, EnableFailed, Event, Fault, ctl, hostv, Typed, Numbered, Signals, Getting, Mine, Hosts, Ios
<1>8. Putting'
  BY DEF UsbInv, EnableFailed, Event, Fault, ctl, hostv, Typed, Numbered, Signals, Putting, Mine, Hosts, Ios
<1>9. Answered'
  BY DEF UsbInv, EnableFailed, Event, Fault, ctl, hostv, Typed, Numbered, Getting, Putting, Answered, Whole, Mine, Hosts, Ios
<1> QED
  BY <1>1, <1>2, <1>3, <1>4, <1>5, <1>6, <1>7, <1>8, <1>9 DEF UsbInv

\* The thread is asked to stop and still counts as started.
LEMMA DisableKeeps == UsbInv /\ Disable => UsbInv'
<1> SUFFICES ASSUME UsbInv, Disable PROVE UsbInv'
  OBVIOUS
<1>0. events # <<>> /\ Head(events) = "disable" /\ events' = Tail(events)
  BY DEF Disable, Event
<1>1. Typed'
  BY DEF UsbInv, Disable, Event, ctl, hostv, Typed, Hosts, Ios, Phases, Ops, Codes, Pcs, Transfer, Places
<1>2. Numbered'
  BY DEF UsbInv, Disable, Event, ctl, hostv, Typed, Numbered, Hosts, Ios
<1>3. Locks'
  BY DEF UsbInv, Disable, Event, ctl, hostv, Typed, Locks, Hosts, Ios, Transfer
<1>4. Signals'
  BY DEF UsbInv, Disable, Event, ctl, hostv, Typed, Numbered, Locks, Signals, Mine, Hosts, Ios
<1>5. (Queue(events, host.phase))'
  BY <1>0, QueueTaken DEF UsbInv, Disable, Event, ctl, hostv
<1>6. (Offered(offer, host))'
  BY DEF UsbInv, Disable, Event, ctl, hostv, Typed, Offered, PacketOf, Hosts
<1>7. Getting'
  BY DEF UsbInv, Disable, Event, ctl, hostv, Typed, Numbered, Signals, Getting, Mine, Hosts, Ios
<1>8. Putting'
  BY DEF UsbInv, Disable, Event, ctl, hostv, Typed, Numbered, Signals, Putting, Mine, Hosts, Ios
<1>9. Answered'
  BY DEF UsbInv, Disable, Event, ctl, hostv, Typed, Numbered, Getting, Putting, Answered, Whole, Mine, Hosts, Ios
<1> QED
  BY <1>1, <1>2, <1>3, <1>4, <1>5, <1>6, <1>7, <1>8, <1>9 DEF UsbInv

\* The thread is over when it is no longer counted as started.
LEMMA DisabledKeeps == UsbInv /\ Disabled => UsbInv'
<1> SUFFICES ASSUME UsbInv, Disabled PROVE UsbInv'
  OBVIOUS
<1>1. Typed'
  BY DEF UsbInv, Disabled, ctl, hostv, Typed, Hosts, Ios, Phases, Ops, Codes, Pcs, Transfer, Places
<1>2. Numbered'
  BY DEF UsbInv, Disabled, ctl, hostv, Typed, Numbered, Hosts, Ios
<1>3. Locks'
  BY DEF UsbInv, Disabled, ctl, hostv, Typed, Locks, Hosts, Ios, Transfer
<1>4. Signals'
  BY DEF UsbInv, Disabled, ctl, hostv, Typed, Numbered, Locks, Signals, Mine, Hosts, Ios
<1>5. (Queue(events, host.phase))'
  BY QueueOfNone DEF UsbInv, Disabled, ctl, hostv, Typed, Hosts
<1>6. (Offered(offer, host))'
  BY DEF UsbInv, Disabled, ctl, hostv, Typed, Offered, PacketOf, Hosts
<1>7. Getting'
  BY DEF UsbInv, Disabled, ctl, hostv, Typed, Numbered, Signals, Getting, Mine, Hosts, Ios
<1>8. Putting'
  BY DEF UsbInv, Disabled, ctl, hostv, Typed, Numbered, Signals, Putting, Mine, Hosts, Ios
<1>9. Answered'
  BY DEF UsbInv, Disabled, ctl, hostv, Typed, Numbered, Getting, Putting, Answered, Whole, Mine, Hosts, Ios
<1> QED
  BY <1>1, <1>2, <1>3, <1>4, <1>5, <1>6, <1>7, <1>8, <1>9 DEF UsbInv

\* A cancel is handled while its host is cancelling, so it is not of a transfer the
\* host waits for.
LEMMA CancelTestKeeps == UsbInv /\ CancelTest => UsbInv'
<1> SUFFICES ASSUME UsbInv, CancelTest PROVE UsbInv'
  OBVIOUS
<1>0. events # <<>> /\ Head(events) = "cancel" /\ events' = Tail(events)
  BY DEF CancelTest, Event
<1>p. host.phase = "cancelling" /\ events' = <<>>
  BY <1>0, QueueTaken DEF UsbInv, Conn, ReqOf
<1>1. Typed'
  BY <1>p DEF UsbInv, CancelTest, Event, ctl, hostv, Typed, Hosts, Ios, Phases, Ops, Codes, Pcs, Transfer, Places
<1>2. Numbered'
  BY <1>p DEF UsbInv, CancelTest, Event, ctl, hostv, Typed, Numbered, Hosts, Ios
<1>3. Locks'
  BY <1>p DEF UsbInv, CancelTest, Event, ctl, hostv, Typed, Locks, Hosts, Ios, Transfer
<1>4. Signals'
  BY <1>p DEF UsbInv, CancelTest, Event, ctl, hostv, Typed, Numbered, Locks, Signals, Mine, Hosts, Ios
<1>5. (Queue(events, host.phase))'
  BY <1>p, QueueAnew
<1>6. (Offered(offer, host))'
  BY <1>p DEF UsbInv, CancelTest, Event, ctl, hostv, Typed, Offered, PacketOf, Hosts
<1>7. Getting'
  BY <1>p DEF UsbInv, CancelTest, Event, ctl, hostv, Typed, Numbered, Signals, Getting, Mine, Hosts, Ios
<1>8. Putting'
  BY <1>p DEF UsbInv, CancelTest, Event, ctl, hostv, Typed, Numbered, Signals, Putting, Mine, Hosts, Ios
<1>9. Answered'
  BY <1>p DEF UsbInv, CancelTest, Event, ctl, hostv, Typed, Numbered, Getting, Putting, Answered, Whole, Mine, Hosts, Ios
<1> QED
  BY <1>1, <1>2, <1>3, <1>4, <1>5, <1>6, <1>7, <1>8, <1>9 DEF UsbInv

\* The signal may strike any call, but not one of a transfer the host waits for.
LEMMA CancelKillKeeps == UsbInv /\ CancelKill => UsbInv'
<1> SUFFICES ASSUME UsbInv, CancelKill PROVE UsbInv'
  OBVIOUS
<1>1. Typed'
  BY DEF UsbInv, CancelKill, Blocked, ctl, hostv, Typed, Hosts, Ios, Phases, Ops, Codes, Pcs, Transfer, Places
<1>2. Numbered'
  BY DEF UsbInv, CancelKill, Blocked, ctl, hostv, Typed, Numbered, Hosts, Ios
<1>3. Locks'
  BY DEF UsbInv, CancelKill, Blocked, ctl, hostv, Typed, Locks, Hosts, Ios, Transfer
<1>4. Signals'
  BY DEF UsbInv, CancelKill, Blocked, ctl, hostv, Typed, Numbered, Locks, Signals, Mine, Hosts, Ios
<1>5. (Queue(events, host.phase))'
  BY QueueOfNone DEF UsbInv, CancelKill, Blocked, ctl, hostv, Typed, Hosts
<1>6. (Offered(offer, host))'
  BY DEF UsbInv, CancelKill, Blocked, ctl, hostv, Typed, Offered, PacketOf, Hosts
<1>7. Getting'
  BY DEF UsbInv, CancelKill, Blocked, ctl, hostv, Typed, Numbered, Signals, Getting, Mine, Hosts, Ios
<1>8. Putting'
  BY DEF UsbInv, CancelKill, Blocked, ctl, hostv, Typed, Numbered, Signals, Putting, Mine, Hosts, Ios
<1>9. Answered'
  BY DEF UsbInv, CancelKill, Blocked, ctl, hostv, Typed, Numbered, Getting, Putting, Answered, Whole, Mine, Hosts, Ios
<1> QED
  BY <1>1, <1>2, <1>3, <1>4, <1>5, <1>6, <1>7, <1>8, <1>9 DEF UsbInv

\* A status is handled while its host is polling, so a pending cancel is not cleared
\* under a transfer the host waits for.
LEMMA StatusKeeps == UsbInv /\ Status => UsbInv'
<1> SUFFICES ASSUME UsbInv, Status PROVE UsbInv'
  OBVIOUS
<1>0. events # <<>> /\ Head(events) = "status" /\ events' = Tail(events)
  BY DEF Status, Event
<1>p. host.phase = "polling" /\ events' = <<>>
  BY <1>0, QueueTaken DEF UsbInv, Conn, ReqOf
<1>1. Typed'
  BY <1>p DEF UsbInv, Status, Event, ctl, hostv, Typed, Hosts, Ios, Phases, Ops, Codes, Pcs, Transfer, Places
<1>2. Numbered'
  BY <1>p DEF UsbInv, Status, Event, ctl, hostv, Typed, Numbered, Hosts, Ios
<1>3. Locks'
  BY <1>p DEF UsbInv, Status, Event, ctl, hostv, Typed, Locks, Hosts, Ios, Transfer
<1>4. Signals'
  BY <1>p DEF UsbInv, Status, Event, ctl, hostv, Typed, Numbered, Locks, Signals, Mine, Hosts, Ios
<1>5. (Queue(events, host.phase))'
  BY <1>p, QueueAnew
<1>6. (Offered(offer, host))'
  BY <1>p DEF UsbInv, Status, Event, ctl, hostv, Typed, Offered, PacketOf, Hosts
<1>7. Getting'
  BY <1>p DEF UsbInv, Status, Event, ctl, hostv, Typed, Numbered, Signals, Getting, Mine, Hosts, Ios
<1>8. Putting'
  BY <1>p DEF UsbInv, Status, Event, ctl, hostv, Typed, Numbered, Signals, Putting, Mine, Hosts, Ios
<1>9. Answered'
  BY <1>p DEF UsbInv, Status, Event, ctl, hostv, Typed, Numbered, Getting, Putting, Answered, Whole, Mine, Hosts, Ios
<1> QED
  BY <1>1, <1>2, <1>3, <1>4, <1>5, <1>6, <1>7, <1>8, <1>9 DEF UsbInv

\* An error of endpoint 0 touches neither transfer nor queue.
LEMMA Ep0ErrorKeeps == UsbInv /\ Ep0Error => UsbInv'
<1> SUFFICES ASSUME UsbInv, Ep0Error PROVE UsbInv'
  OBVIOUS
<1>1. Typed'
  BY DEF UsbInv, Ep0Error, Fault, ctl, hostv, Typed, Hosts, Ios, Phases, Ops, Codes, Pcs, Transfer, Places
<1>2. Numbered'
  BY DEF UsbInv, Ep0Error, Fault, ctl, hostv, Typed, Numbered, Hosts, Ios
<1>3. Locks'
  BY DEF UsbInv, Ep0Error, Fault, ctl, hostv, Typed, Locks, Hosts, Ios, Transfer
<1>4. Signals'
  BY DEF UsbInv, Ep0Error, Fault, ctl, hostv, Typed, Numbered, Locks, Signals, Mine, Hosts, Ios
<1>5. (Queue(events, host.phase))'
  BY QueueOfNone DEF UsbInv, Ep0Error, Fault, ctl, hostv, Typed, Hosts
<1>6. (Offered(offer, host))'
  BY DEF UsbInv, Ep0Error, Fault, ctl, hostv, Typed, Offered, PacketOf, Hosts
<1>7. Getting'
  BY DEF UsbInv, Ep0Error, Fault, ctl, hostv, Typed, Numbered, Signals, Getting, Mine, Hosts, Ios
<1>8. Putting'
  BY DEF UsbInv, Ep0Error, Fault, ctl, hostv, Typed, Numbered, Signals, Putting, Mine, Hosts, Ios
<1>9. Answered'
  BY DEF UsbInv, Ep0Error, Fault, ctl, hostv, Typed, Numbered, Getting, Putting, Answered, Whole, Mine, Hosts, Ios
<1> QED
  BY <1>1, <1>2, <1>3, <1>4, <1>5, <1>6, <1>7, <1>8, <1>9 DEF UsbInv

\* The cancelled thread takes its lock with it, and the host gives up.
LEMMA LeaveKeeps == UsbInv /\ Leave => UsbInv'
<1> SUFFICES ASSUME UsbInv, Leave PROVE UsbInv'
  OBVIOUS
<1>1. Typed'
  BY DEF UsbInv, Leave, Dead, Blocked, ctl, hostv, Typed, Hosts, Ios, Phases, Ops, Codes, Pcs, Transfer, Places
<1>2. Numbered'
  BY DEF UsbInv, Leave, Dead, Blocked, ctl, hostv, Typed, Numbered, Hosts, Ios
<1>3. Locks'
  BY DEF UsbInv, Leave, Dead, Blocked, ctl, hostv, Typed, Locks, Hosts, Ios, Transfer
<1>4. Signals'
  BY DEF UsbInv, Leave, Dead, Blocked, ctl, hostv, Typed, Numbered, Locks, Signals, Mine, Hosts, Ios
<1>5. (Queue(events, host.phase))'
  BY QueueAnew DEF UsbInv, Leave, Dead, Blocked, ctl, hostv
<1>6. (Offered(offer, host))'
  BY DEF UsbInv, Leave, Dead, Blocked, ctl, hostv, Typed, Offered, PacketOf, Hosts
<1>7. Getting'
  BY DEF UsbInv, Leave, Dead, Blocked, ctl, hostv, Typed, Numbered, Signals, Getting, Mine, Hosts, Ios
<1>8. Putting'
  BY DEF UsbInv, Leave, Dead, Blocked, ctl, hostv, Typed, Numbered, Signals, Putting, Mine, Hosts, Ios
<1>9. Answered'
  BY DEF UsbInv, Leave, Dead, Blocked, ctl, hostv, Typed, Numbered, Getting, Putting, Answered, Whole, Mine, Hosts, Ios
<1> QED
  BY <1>1, <1>2, <1>3, <1>4, <1>5, <1>6, <1>7, <1>8, <1>9 DEF UsbInv

-----------------------------------------------------------------------------
(* The host's and the cable's steps.                                       *)

\* What an earlier connection queued is gone.
LEMMA PlugKeeps == UsbInv /\ Plug => UsbInv'
<1> SUFFICES ASSUME UsbInv, Plug PROVE UsbInv'
  OBVIOUS
<1>1. Typed'
  BY DEF UsbInv, Plug, ctl, hostv, Typed, Hosts, Ios, Phases, Ops, Codes, Pcs, Transfer, Places
<1>2. Numbered'
  BY DEF UsbInv, Plug, ctl, hostv, Typed, Numbered, Hosts, Ios
<1>3. Locks'
  BY DEF UsbInv, Plug, ctl, hostv, Typed, Locks, Hosts, Ios, Transfer
<1>4. Signals'
  BY DEF UsbInv, Plug, ctl, hostv, Typed, Numbered, Locks, Signals, Mine, Hosts, Ios
<1>5. (Queue(events, host.phase))'
  BY QueueAnew DEF UsbInv, Plug, ctl, hostv
<1>6. (Offered(offer, host))'
  BY DEF UsbInv, Plug, ctl, hostv, Typed, Offered, PacketOf, Hosts
<1>7. Getting'
  BY DEF UsbInv, Plug, ctl, hostv, Typed, Numbered, Signals, Getting, Mine, Hosts, Ios
<1>8. Putting'
  BY DEF UsbInv, Plug, ctl, hostv, Typed, Numbered, Signals, Putting, Mine, Hosts, Ios
<1>9. Answered'
  BY DEF UsbInv, Plug, ctl, hostv, Typed, Numbered, Getting, Putting, Answered, Whole, Mine, Hosts, Ios
<1> QED
  BY <1>1, <1>2, <1>3, <1>4, <1>5, <1>6, <1>7, <1>8, <1>9 DEF UsbInv

\* The host gives up, so a call that fails is not one of a transfer it waits for.
LEMMA UnplugKeeps == UsbInv /\ Unplug => UsbInv'
<1> SUFFICES ASSUME UsbInv, Unplug PROVE UsbInv'
  OBVIOUS
<1>1. Typed'
  <2>1. host' \in Hosts
    BY DEF UsbInv, Unplug, Typed, Hosts, Phases, Codes
  <2> QED
    BY <2>1 DEF UsbInv, Unplug, Typed, ctl
<1>2. Numbered'
  BY DEF UsbInv, Unplug, Fault, Blocked, ctl, hostv, Typed, Numbered, Hosts, Ios
<1>3. Locks'
  BY DEF UsbInv, Unplug, Fault, Blocked, ctl, hostv, Typed, Locks, Hosts, Ios, Transfer
<1>4. Signals'
  BY DEF UsbInv, Unplug, Fault, Blocked, ctl, hostv, Typed, Numbered, Locks, Signals, Mine, Hosts, Ios
<1>5. (Queue(events, host.phase))'
  BY QueueAnew DEF UsbInv, Unplug, Fault, Blocked, ctl, hostv
<1>6. (Offered(offer, host))'
  BY DEF UsbInv, Unplug, Fault, Blocked, ctl, hostv, Typed, Offered, PacketOf, Hosts
<1>7. Getting'
  BY DEF UsbInv, Unplug, Fault, Blocked, ctl, hostv, Typed, Numbered, Signals, Getting, Mine, Hosts, Ios
<1>8. Putting'
  BY DEF UsbInv, Unplug, Fault, Blocked, ctl, hostv, Typed, Numbered, Signals, Putting, Mine, Hosts, Ios
<1>9. Answered'
  BY DEF UsbInv, Unplug, Fault, Blocked, ctl, hostv, Typed, Numbered, Getting, Putting, Answered, Whole, Mine, Hosts, Ios
<1> QED
  BY <1>1, <1>2, <1>3, <1>4, <1>5, <1>6, <1>7, <1>8, <1>9 DEF UsbInv

\* A new transaction is not the one the io thread is at work on.
LEMMA BeginKeeps ==
  ASSUME NEW cmd \in {"open", "close", "get", "put"}
  PROVE  UsbInv /\ Begin(cmd) => UsbInv'
<1> SUFFICES ASSUME UsbInv, Begin(cmd) PROVE UsbInv'
  OBVIOUS
<1> DEFINE tx == host.tx + 1
<1>0. /\ host.phase = "idle" /\ host \in Hosts /\ link /\ io \in Ios
      /\ host' = [phase |-> "wait", tx |-> tx, op |-> cmd, got |-> 0, result |-> "none"]
      /\ offer' = <<[kind |-> cmd, tx |-> tx, i |-> 0]>>
      /\ UNCHANGED <<eps, link, events, ep0, io, fail, started, ctl, db, lock, file, holed, cut, faults>>
  BY DEF UsbInv, Typed, Begin
<1>n. tx \in Nat /\ tx > 0 /\ io.tx <= tx /\ io.tx # tx
  BY <1>0 DEF UsbInv, Numbered, Hosts, Ios
<1> HIDE DEF tx
<1>m. ~ Mine(io', host')
  BY <1>0, <1>n DEF Mine
<1>1. Typed'
  BY <1>0, <1>n DEF UsbInv, Typed, Hosts, Phases, Ops, Codes, ctl
<1>2. Numbered'
  BY <1>0, <1>n DEF UsbInv, Numbered
<1>3. Locks'
  BY <1>0 DEF UsbInv, Locks, ctl
<1>4. Signals'
  BY <1>0, <1>m DEF UsbInv, Signals
<1>5. Queue(events, host.phase)'
  BY <1>0, QueueOfNone DEF UsbInv
<1>6. Offered(offer, host)'
  <2>1. PacketOf([kind |-> cmd, tx |-> tx, i |-> 0], host')
    BY <1>0, <1>n DEF PacketOf, Packets
  <2> QED
    BY <1>0, <2>1 DEF Offered
<1>7. Getting' /\ Putting'
  BY <1>m DEF Getting, Putting
<1>8. Answered'
  BY <1>0, <1>m DEF Answered
<1> QED
  BY <1>1, <1>2, <1>3, <1>4, <1>5, <1>6, <1>7, <1>8 DEF UsbInv

\* The host no longer waits; its cancel replaces an earlier request.
LEMMA HostCancelKeeps == UsbInv /\ HostCancel => UsbInv'
<1> SUFFICES ASSUME UsbInv, HostCancel PROVE UsbInv'
  OBVIOUS
<1>1. Typed'
  <2>1. host' \in Hosts
    BY DEF UsbInv, HostCancel, Typed, Hosts, Phases, Ops
  <2> QED
    BY <2>1 DEF UsbInv, HostCancel, Typed, ctl
<1>2. Numbered'
  BY DEF UsbInv, HostCancel, Fault, ctl, hostv, Typed, Numbered, Hosts, Ios
<1>3. Locks'
  BY DEF UsbInv, HostCancel, Fault, ctl, hostv, Typed, Locks, Hosts, Ios, Transfer
<1>4. Signals'
  BY DEF UsbInv, HostCancel, Fault, ctl, hostv, Typed, Numbered, Locks, Signals, Mine, Hosts, Ios
<1>5. (Queue(events, host.phase))'
  BY QueueSetup, QueueOfNone DEF UsbInv, HostCancel, Fault, ctl, hostv, ReqOf
<1>6. (Offered(offer, host))'
  BY DEF UsbInv, HostCancel, Fault, ctl, hostv, Typed, Offered, PacketOf, Hosts
<1>7. Getting'
  BY DEF UsbInv, HostCancel, Fault, ctl, hostv, Typed, Numbered, Signals, Getting, Mine, Hosts, Ios
<1>8. Putting'
  BY DEF UsbInv, HostCancel, Fault, ctl, hostv, Typed, Numbered, Signals, Putting, Mine, Hosts, Ios
<1>9. Answered'
  BY DEF UsbInv, HostCancel, Fault, ctl, hostv, Typed, Numbered, Getting, Putting, Answered, Whole, Mine, Hosts, Ios
<1> QED
  BY <1>1, <1>2, <1>3, <1>4, <1>5, <1>6, <1>7, <1>8, <1>9 DEF UsbInv

\* The status request replaces the cancel, handled or not.
LEMMA PollKeeps == UsbInv /\ Poll => UsbInv'
<1> SUFFICES ASSUME UsbInv, Poll PROVE UsbInv'
  OBVIOUS
<1>1. Typed'
  BY DEF UsbInv, Poll, ctl, hostv, Typed, Hosts, Ios, Phases, Ops, Codes, Pcs, Transfer, Places
<1>2. Numbered'
  BY DEF UsbInv, Poll, ctl, hostv, Typed, Numbered, Hosts, Ios
<1>3. Locks'
  BY DEF UsbInv, Poll, ctl, hostv, Typed, Locks, Hosts, Ios, Transfer
<1>4. Signals'
  BY DEF UsbInv, Poll, ctl, hostv, Typed, Numbered, Locks, Signals, Mine, Hosts, Ios
<1>5. (Queue(events, host.phase))'
  BY QueueSetup, QueueOfNone DEF UsbInv, Poll, ctl, hostv, ReqOf
<1>6. (Offered(offer, host))'
  BY DEF UsbInv, Poll, ctl, hostv, Typed, Offered, PacketOf, Hosts
<1>7. Getting'
  BY DEF UsbInv, Poll, ctl, hostv, Typed, Numbered, Signals, Getting, Mine, Hosts, Ios
<1>8. Putting'
  BY DEF UsbInv, Poll, ctl, hostv, Typed, Numbered, Signals, Putting, Mine, Hosts, Ios
<1>9. Answered'
  BY DEF UsbInv, Poll, ctl, hostv, Typed, Numbered, Getting, Putting, Answered, Whole, Mine, Hosts, Ios
<1> QED
  BY <1>1, <1>2, <1>3, <1>4, <1>5, <1>6, <1>7, <1>8, <1>9 DEF UsbInv
-----------------------------------------------------------------------------
(* The theorems.                                                           *)

\* Nothing has happened yet.
LEMMA UsbInvInit == Init => UsbInv
<1> SUFFICES ASSUME Init PROVE UsbInv
  OBVIOUS
<1>1. Typed
  BY DEF Init, Typed, Hosts, Ios, Dead, Phases, Ops, Codes, Pcs, Places
<1>2. Numbered /\ Locks /\ Signals
  BY DEF Init, Dead, Numbered, Locks, Signals, Transfer
<1>3. Queue(events, host.phase) /\ Offered(offer, host)
  BY DEF Init, Queue, Offered
<1>4. Getting /\ Putting /\ Answered
  BY DEF Init, Mine, Getting, Putting, Answered
<1> QED
  BY <1>1, <1>2, <1>3, <1>4 DEF UsbInv

\* Every step of either thread, of the host and of the cable keeps the invariant.
LEMMA UsbInvNext == UsbInv /\ [Next]_vars => UsbInv'
<1> SUFFICES ASSUME UsbInv, [Next]_vars PROVE UsbInv'
  OBVIOUS
<1>1. CASE IoStep
  BY <1>1, TopKeeps, ReadCommandKeeps, ReadFailedKeeps, PutTestKeeps, PutReadKeeps, PutEndKeeps, PutCheckKeeps,
     GetTestKeeps, GetWriteKeeps, GetEndKeeps, GetCheckKeeps, ResponseKeeps DEF IoStep
<1>2. CASE Ep0Step
  BY <1>2, InitGadgetKeeps, LoopKeeps, EnableKeeps, DisableKeeps, DisabledKeeps, CancelTestKeeps,
     CancelKillKeeps, StatusKeeps, LeaveKeeps DEF Ep0Step
<1>3. CASE GetCardError \/ InitFailed \/ EnableFailed \/ Ep0Error
  BY <1>3, GetCardErrorKeeps, InitFailedKeeps, EnableFailedKeeps, Ep0ErrorKeeps
<1>4. CASE Plug \/ Unplug \/ HostCancel \/ Poll
  BY <1>4, PlugKeeps, UnplugKeeps, HostCancelKeeps, PollKeeps
<1>5. CASE \E cmd \in {"open", "close", "get", "put"} : Begin(cmd)
  BY <1>5, BeginKeeps
<1>6. CASE UNCHANGED vars
  BY <1>6 DEF vars, UsbInv, Typed, Numbered, Locks, Signals, Getting, Putting, Answered
<1> QED
  BY <1>1, <1>2, <1>3, <1>4, <1>5, <1>6 DEF Next

\* The invariant holds whatever the threads, the host and the cable do.
THEOREM UsbCorrect == Spec => []UsbInv
<1> QED
  BY UsbInvInit, UsbInvNext, PTL DEF Spec

\* Each way out of mtp_op_SendObject, send_file_data and the cancel request leaves
\* inotify_mutex and cancel_mutex right, and an OK that the host takes for a transfer
\* it has not cancelled means the whole object, for an object of any size and any
\* number of cancels, disconnections and card errors, unless a write of that transfer
\* failed or a read came short: the code looks at neither.
THEOREM TransfersAreSound == Spec => []TransferIsSound
<1>1. UsbInv => TransferIsSound
  <2> SUFFICES ASSUME UsbInv PROVE TransferIsSound
    OBVIOUS
  <2>1. TypeOK
    BY DEF UsbInv, Typed, Ios, Pcs, Transfer, Locks, Places, TypeOK, InOp
  <2>2. OkIsWhole
    BY DEF UsbInv, Answered, Whole, Part, OkIsWhole
  <2> QED
    BY <2>1, <2>2 DEF TransferIsSound
<1> QED
  BY <1>1, UsbCorrect, PTL

\* The database goes only between two commands of the io thread, or when that thread
\* has ended: a DISABLE joins it first (handle_ffs_ep0), and what is not started is
\* not running.
THEOREM DropsAreSafe == Spec => DropIsSafe
<1>1. UsbInv /\ [Next]_vars =>
        [(db /\ ~ db') => (io.pc \in {"dead", "read"} \/ lock' = "orphan" \/ ep0 = "leave")]_vars
  <2> SUFFICES ASSUME UsbInv, Next, db, ~ db'
               PROVE  io.pc \in {"dead", "read"} \/ ep0 = "leave"
    OBVIOUS
  <2>1. CASE IoStep
    BY <2>1 DEF IoStep, Top, ReadCommand, ReadFailed, PutTest, PutRead, PutEnd, PutCheck, GetTest, GetWrite,
                GetEnd, GetCheck, Response
  <2>2. CASE Ep0Step
    BY <2>2 DEF Ep0Step, InitGadget, Loop, Enable, Disable, Disabled, CancelTest, CancelKill, Status, Leave,
                UsbInv, Locks
  <2>3. CASE GetCardError \/ InitFailed \/ EnableFailed \/ Ep0Error
    BY <2>3 DEF GetCardError, InitFailed, EnableFailed, Ep0Error
  <2>4. CASE Plug \/ Unplug \/ HostCancel \/ Poll
    BY <2>4 DEF Plug, Unplug, HostCancel, Poll
  <2>5. CASE \E cmd \in {"open", "close", "get", "put"} : Begin(cmd)
    BY <2>5 DEF Begin
  <2> QED
    BY <2>1, <2>2, <2>3, <2>4, <2>5 DEF Next
<1> QED
  BY <1>1, UsbCorrect, PTL DEF Spec, DropIsSafe

-----------------------------------------------------------------------------
(* Sets of numbers.                                                        *)

LEMMA NatMin ==
  ASSUME NEW T, T \subseteq Nat, T # {}
  PROVE  \E x \in T : \A y \in T : x <= y
<1>1. PICK x \in T : \A y \in T : ~(<<y, x>> \in OpToRel(<, Nat))
  BY NatLessThanWellFounded, WFMin
<1>2. \A y \in T : y \in Nat /\ x \in Nat
  OBVIOUS
<1>3. ASSUME NEW y \in T PROVE x <= y
  <2>1. <<y, x>> \in OpToRel(<, Nat) <=> y < x
    BY <1>2 DEF OpToRel
  <2>2. ~(y < x)
    BY <1>1, <2>1, Zenon
  <2> QED
    BY <1>2, <2>2
<1> QED
  BY <1>3

\* A set that holds 0, and n with n - 1, holds every n up to L.
LEMMA UpTo ==
  ASSUME NEW L \in Nat, NEW S, 0 \in S, \A n \in 1..L : n - 1 \in S => n \in S
  PROVE  \A n \in 0..L : n \in S
<1> SUFFICES ASSUME {n \in 0..L : n \notin S} # {} PROVE FALSE
  OBVIOUS
<1> DEFINE Bad == {n \in 0..L : n \notin S}
<1>1. Bad \subseteq Nat
  OBVIOUS
<1>2. PICK m \in Bad : \A y \in Bad : m <= y
  BY <1>1, NatMin
<1>3. m \in 1..L /\ m - 1 \in 0..L
  OBVIOUS
<1>4. m - 1 \in S
  BY <1>2, <1>3
<1> QED
  BY <1>3, <1>4

-----------------------------------------------------------------------------
(* THE OBJECT DATABASE.  The inductive invariant: the card.                *)

\* A card, and the tree of its nodes: nothing lies below a file or too deep, and no two nodes share
\* an inode.
Shaped(f) ==
  /\ f \in [disk : {f.disk}, queue : {f.queue}, watch : {f.watch}, inos : {f.inos}, wds : {f.wds}]
  /\ f.inos \in Nat /\ f.wds \in Nat
Tree(f) ==
  /\ DOMAIN f.disk \subseteq Paths /\ IsFiniteSet(DOMAIN f.disk)
  /\ \A p \in DOMAIN f.disk :
       /\ f.disk[p] \in [dir : BOOLEAN, ino : 1 .. f.inos]
       /\ f.disk[p].dir => Len(p) < MaxDepth
       /\ IsDir(f, Front(p))
  /\ \A p, q \in DOMAIN f.disk : f.disk[p].ino = f.disk[q].ino => p = q
Card(f) == Shaped(f) /\ Tree(f)

\* One watch for a folder, with a descriptor of its own, and the events.
Folders(f) == {<<>>} \cup {p \in DOMAIN f.disk : f.disk[p].dir}
EventsOf(f) == [wd : 1 .. f.wds, kind : {"create", "delete"}, name : Names]
Watches(f) ==
  /\ DOMAIN f.watch \subseteq {Ino(f, p) : p \in Folders(f)}
  /\ \A i \in DOMAIN f.watch : f.watch[i] \in 1 .. f.wds
  /\ \A i, j \in DOMAIN f.watch : f.watch[i] = f.watch[j] => i = j
  /\ f.queue \in Seq(EventsOf(f))

-----------------------------------------------------------------------------
(* Paths.                                                                  *)

LEMMA PathsAre == \A p : p \in Paths <=> p \in Seq(Names) /\ Len(p) \in 1 .. MaxDepth
<1>1. ASSUME NEW p, p \in Paths PROVE p \in Seq(Names) /\ Len(p) \in 1 .. MaxDepth
  <2>1. PICK n \in 1 .. MaxDepth : p \in [1 .. n -> Names]
    BY <1>1 DEF Paths
  <2> QED
    BY <2>1 DEF MaxDepth
<1>2. ASSUME NEW p, p \in Seq(Names), Len(p) \in 1 .. MaxDepth PROVE p \in Paths
  <2>1. p \in [1 .. Len(p) -> Names]
    BY <1>2
  <2> QED
    BY <1>2, <2>1 DEF Paths
<1> QED
  BY <1>1, <1>2

\* A path is its folder's and a name.
LEMMA FolderAndName ==
  ASSUME NEW p \in Seq(Names), p # <<>>
  PROVE  /\ Front(p) \in Seq(Names) /\ Last(p) \in Names
         /\ p = Append(Front(p), Last(p)) /\ Len(Front(p)) = Len(p) - 1
<1>1. Len(p) \in Nat \ {0}
  OBVIOUS
<1>2. Front(p) \in Seq(Names) /\ Len(Front(p)) = Len(p) - 1
  <2>1. \A i \in 1 .. Len(p) - 1 : p[i] \in Names
    BY <1>1
  <2> DEFINE k == Len(p) - 1
  <2>2. k \in Int /\ 1 \in Int /\ Front(p) = SubSeq(p, 1, k)
    BY <1>1 DEF Front
  <2> HIDE DEF k
  <2>3. SubSeq(p, 1, k) \in Seq(Names) /\ Len(SubSeq(p, 1, k)) = IF 1 <= k THEN k - 1 + 1 ELSE 0
    BY <2>1, <2>2, SubSeqProperties DEF k
  <2>4. Len(SubSeq(p, 1, k)) = k
    <3>1. k \in Nat
      BY <1>1 DEF k
    <3> QED
      BY <2>3, <3>1
  <2> QED
    BY <2>2, <2>3, <2>4 DEF k
<1>3. Last(p) \in Names
  BY <1>1 DEF Last
<1>4. \A i \in 1 .. Len(p) - 1 : Front(p)[i] = p[i]
  BY <1>1 DEF Front
<1>5. p = Append(Front(p), Last(p))
  BY <1>1, <1>2, <1>4 DEF Last
<1> QED
  BY <1>2, <1>3, <1>5

LEMMA InFolder ==
  ASSUME NEW p \in Seq(Names), NEW n \in Names
  PROVE  /\ Append(p, n) \in Seq(Names) /\ Append(p, n) # <<>> /\ Len(Append(p, n)) = Len(p) + 1
         /\ Front(Append(p, n)) = p /\ Last(Append(p, n)) = n
<1>1. Append(p, n) \in Seq(Names) /\ Len(Append(p, n)) = Len(p) + 1 /\ Len(p) \in Nat
  OBVIOUS
<1>2. Last(Append(p, n)) = n
  BY <1>1 DEF Last
<1>3. Front(Append(p, n)) = SubSeq(Append(p, n), 1, Len(p))
  BY <1>1 DEF Front
<1>4. SubSeq(Append(p, n), 1, Len(p)) = p
  BY <1>1
<1> QED
  BY <1>1, <1>2, <1>3, <1>4

-----------------------------------------------------------------------------
(* What a change of the card does to its tree.                             *)

LEMMA Nodes ==
  ASSUME NEW f, Card(f), NEW p \in DOMAIN f.disk
  PROVE  /\ p \in Seq(Names) /\ Len(p) \in 1 .. MaxDepth /\ p # <<>>
         /\ Front(p) \in Seq(Names) /\ Last(p) \in Names /\ p = Append(Front(p), Last(p))
         /\ Len(Front(p)) = Len(p) - 1
         /\ f.disk[p].dir \in BOOLEAN /\ f.disk[p].ino \in 1 .. f.inos /\ f.inos \in Nat
         /\ f.disk[p].dir => Len(p) < MaxDepth
         /\ Front(p) # <<>> => Front(p) \in DOMAIN f.disk /\ f.disk[Front(p)].dir
<1>1. p \in Seq(Names) /\ Len(p) \in 1 .. MaxDepth
  BY PathsAre DEF Card, Tree
<1>2. p # <<>>
  BY SMTT(30), <1>1 DEF MaxDepth
<1> QED
  BY <1>1, <1>2, FolderAndName DEF Card, Tree, Shaped, IsDir

\* Two paths are in one folder or neither is below the other: what lies below a node is in it.
LEMMA BelowIsKids ==
  ASSUME NEW f, Card(f), NEW p \in Seq(Names), p # <<>>, p \in DOMAIN f.disk \/ IsDir(f, Front(p))
  PROVE  Below(f, p) = {Append(p, n) : n \in Kids(f, p)}
<1>1. Len(p) \in Nat /\ Len(p) >= 1
  OBVIOUS
<1>2. ASSUME NEW q \in Below(f, p) PROVE q \in {Append(p, n) : n \in Kids(f, p)}
  <2>1. q \in DOMAIN f.disk /\ q # p /\ Len(q) >= Len(p) /\ SubSeq(q, 1, Len(p)) = p
    BY <1>2 DEF Below, Passes
  <2>2. q \in Seq(Names) /\ Len(q) \in 1 .. 2 /\ q = Append(Front(q), Last(q)) /\ Last(q) \in Names
    BY <2>1, Nodes DEF MaxDepth
  <2>3. Len(q) # Len(p)
    <3> SUFFICES ASSUME Len(q) = Len(p) PROVE FALSE
      OBVIOUS
    <3>1. SubSeq(q, 1, Len(q)) = q
      BY <2>2, SubSeqFull
    <3> QED
      BY <2>1, <3>1
  <2>4. Len(p) = 1 /\ Len(q) = 2
    <3>1. \A a \in Nat, b \in 1 .. 2 : b >= a /\ b # a /\ a >= 1 => a = 1 /\ b = 2
      OBVIOUS
    <3> QED
      BY <1>1, <2>1, <2>2, <2>3, <3>1
  <2>5. Front(q) = p
    BY <2>1, <2>4 DEF Front
  <2> QED
    BY <2>1, <2>2, <2>5 DEF Kids
<1>3. ASSUME NEW n \in Kids(f, p) PROVE Append(p, n) \in Below(f, p)
  <2>1. n \in Names /\ Append(p, n) \in DOMAIN f.disk
    BY DEF Kids
  <2>2. Len(Append(p, n)) = Len(p) + 1 /\ Front(Append(p, n)) = p
    BY <2>1, InFolder
  <2>3. SubSeq(Append(p, n), 1, Len(p)) = p
    BY <1>1, <2>2 DEF Front
  <2>4. Append(p, n) # p /\ Len(Append(p, n)) >= Len(p)
    BY <1>1, <2>2
  <2> QED
    BY <2>1, <2>3, <2>4 DEF Below, Passes
<1> QED
  BY <1>2, <1>3

\* An event changes the queue only.
LEMMA ToldIs ==
  ASSUME NEW f, Shaped(f), NEW p, NEW kind
  PROVE  /\ Shaped(Told(f, p, kind))
         /\ Told(f, p, kind) = [f EXCEPT !.queue = Told(f, p, kind).queue]
         /\ Told(f, p, kind).disk = f.disk /\ Told(f, p, kind).watch = f.watch
         /\ Told(f, p, kind).inos = f.inos /\ Told(f, p, kind).wds = f.wds
         /\ Told(f, p, kind).queue \in {f.queue, Append(f.queue, Notice(f, p, kind))}
<1> DEFINE g == Told(f, p, kind)
<1>1. CASE g = f
  BY <1>1 DEF Shaped
<1>2. CASE g = [f EXCEPT !.queue = Append(@, Notice(f, p, kind))]
  BY <1>2 DEF Shaped
<1> QED
  BY <1>1, <1>2 DEF Told

\* What only depends on the nodes and the watches.
LEMMA SameNodes ==
  ASSUME NEW f, NEW g, g.disk = f.disk, g.inos = f.inos
  PROVE  /\ \A p : IsDir(g, p) = IsDir(f, p) /\ Exists(g, p) = Exists(f, p) /\ Ino(g, p) = Ino(f, p)
         /\ \A p : Kids(g, p) = Kids(f, p) /\ Below(g, p) = Below(f, p)
         /\ g.watch = f.watch => \A p : Watching(g, p) = Watching(f, p)
         /\ Tree(f) => Tree(g)
<1>1. \A p : IsDir(g, p) = IsDir(f, p) /\ Exists(g, p) = Exists(f, p) /\ Ino(g, p) = Ino(f, p)
  BY DEF IsDir, Exists, Ino
<1>2. \A p : Kids(g, p) = Kids(f, p) /\ Below(g, p) = Below(f, p)
  BY DEF Kids, Below
<1>3. g.watch = f.watch => \A p : Watching(g, p) = Watching(f, p)
  BY <1>1 DEF Watching
<1>4. Tree(f) => Tree(g)
  BY <1>1, Zenon DEF Tree
<1> QED
  BY <1>1, <1>2, <1>3, <1>4

-----------------------------------------------------------------------------
(* What a change of the card does to the queue: the events that are new    *)
(* about a name in a watched folder, if any, end with what is now true of  *)
(* it, but for the places of T.                                            *)

About(e, w, n) == e.wd = w /\ e.name = n
News(f, g, w, n) == {i \in DOMAIN g.queue : i > Len(f.queue) /\ About(g.queue[i], w, n)}
SameWatch(f, y, g, x) ==
  y \in Folders(f) /\ Watching(f, y) /\ Ino(f, y) = Ino(g, x) /\ f.watch[Ino(f, y)] = g.watch[Ino(g, x)]
NewsTell(f, y, g, x, n) ==
  LET new == News(f, g, g.watch[Ino(g, x)], n) IN
  /\ new = {} => (n \in Kids(g, x) <=> n \in Kids(f, y))
  /\ \A i \in new : (\A j \in new : j <= i) => (g.queue[i].kind = "create" <=> n \in Kids(g, x))
Extends(f, g) == Len(f.queue) <= Len(g.queue) /\ \A i \in DOMAIN f.queue : g.queue[i] = f.queue[i]
StepsBut(f, g, T) ==
  /\ Extends(f, g)
  /\ \A x \in Folders(g) : Watching(g, x) =>
       \E y \in Folders(f) : SameWatch(f, y, g, x) /\ \A n \in Names : <<x, n>> \notin T => NewsTell(f, y, g, x, n)

\* The last event about a name in a watched folder tells whether the name is there.
LastAbout(q, i) == \A j \in DOMAIN q : j > i => ~ About(q[j], q[i].wd, q[i].name)
Tells(f) ==
  \A x \in Folders(f) : Watching(f, x) =>
    \A i \in DOMAIN f.queue : f.queue[i].wd = f.watch[Ino(f, x)] /\ LastAbout(f.queue, i) =>
      (f.queue[i].kind = "create" <=> f.queue[i].name \in Kids(f, x))

LEMMA StepsTell ==
  ASSUME NEW f, NEW g, Watches(f), Watches(g), Tells(f), StepsBut(f, g, {})
  PROVE  Tells(g)
<1> SUFFICES ASSUME NEW x \in Folders(g), Watching(g, x), NEW i \in DOMAIN g.queue,
                    g.queue[i].wd = g.watch[Ino(g, x)], LastAbout(g.queue, i)
             PROVE  g.queue[i].kind = "create" <=> g.queue[i].name \in Kids(g, x)
  BY DEF Tells
<1> DEFINE w == g.watch[Ino(g, x)]
           n == g.queue[i].name
           new == News(f, g, w, n)
<1>1. f.queue \in Seq(EventsOf(f)) /\ g.queue \in Seq(EventsOf(g))
  BY DEF Watches
<1>2. Len(f.queue) \in Nat /\ Len(g.queue) \in Nat /\ DOMAIN f.queue = 1 .. Len(f.queue) /\ DOMAIN g.queue = 1 .. Len(g.queue)
  BY <1>1
<1>3. n \in Names /\ g.queue[i] \in EventsOf(g) /\ i \in Nat
  <2>1. g.queue[i] \in EventsOf(g) /\ i \in Nat
    BY <1>1, <1>2
  <2> QED
    BY <2>1 DEF EventsOf
<1>4. PICK y \in Folders(f) : SameWatch(f, y, g, x) /\ NewsTell(f, y, g, x, n)
  BY <1>3 DEF StepsBut
<1>5. CASE new = {}
  <2>1. i <= Len(f.queue)
    BY <1>2, <1>3, <1>5 DEF News, About
  <2>2. i \in DOMAIN f.queue /\ f.queue[i] = g.queue[i]
    BY <1>2, <2>1 DEF StepsBut, Extends
  <2>3. LastAbout(f.queue, i)
    <3> SUFFICES ASSUME NEW j \in DOMAIN f.queue, j > i, About(f.queue[j], f.queue[i].wd, f.queue[i].name) PROVE FALSE
      BY DEF LastAbout
    <3>1. j \in DOMAIN g.queue /\ g.queue[j] = f.queue[j]
      BY <1>2 DEF StepsBut, Extends
    <3> QED
      BY <2>2, <3>1 DEF LastAbout
  <2>4. f.queue[i].kind = "create" <=> f.queue[i].name \in Kids(f, y)
    BY <1>4, <2>2, <2>3 DEF Tells, SameWatch
  <2>5. n \in Kids(g, x) <=> n \in Kids(f, y)
    BY <1>4, <1>5 DEF NewsTell
  <2> QED
    BY <2>2, <2>4, <2>5
<1>6. CASE new # {}
  <2>1. PICK k \in new : TRUE
    BY <1>6
  <2>2. k \in DOMAIN g.queue /\ k > Len(f.queue) /\ About(g.queue[k], w, n)
    BY <2>1 DEF News
  <2>3. k <= i
    BY <1>2, <1>3, <2>2 DEF LastAbout
  <2>4. i \in new
    BY <1>2, <1>3, <2>2, <2>3 DEF News, About
  <2>5. \A j \in new : j <= i
    BY <1>2, <1>3 DEF News, LastAbout
  <2> QED
    BY <1>4, <2>4, <2>5 DEF NewsTell
<1> QED
  BY <1>5, <1>6

LEMMA LastOf ==
  ASSUME NEW S, NEW q \in Seq(S), q # <<>>
  PROVE  Len(q) \in Nat \ {0} /\ Len(q) \in DOMAIN q /\ Last(q) = q[Len(q)]
BY DEF Last

\* An event closes its place; one that the kernel merges was true already.
LEMMA ToldSteps ==
  ASSUME NEW f, NEW m, NEW T, NEW p \in Seq(Names), p # <<>>, NEW kind \in {"create", "delete"},
         Watches(f), Tells(f), Card(m), Watches(m), StepsBut(f, m, T \cup {<<Front(p), Last(p)>>}),
         Front(p) \in Folders(m),
         kind = "create" <=> Last(p) \in Kids(m, Front(p)),
         m.queue # <<>> /\ Watching(m, Front(p)) /\ Last(m.queue) = Notice(m, p, kind) => m.queue = f.queue
  PROVE  LET g == Told(m, p, kind) IN Watches(g) /\ StepsBut(f, g, T)
<1> DEFINE g == Told(m, p, kind)
           x0 == Front(p)
           n0 == Last(p)
           w0 == m.watch[Ino(m, x0)]
<1>1. /\ g.disk = m.disk /\ g.watch = m.watch /\ g.inos = m.inos /\ g.wds = m.wds
      /\ g.queue \in {m.queue, Append(m.queue, Notice(m, p, kind))}
  BY ToldIs DEF Card
<1>2. /\ \A x : IsDir(g, x) = IsDir(m, x) /\ Ino(g, x) = Ino(m, x)
      /\ \A x : Kids(g, x) = Kids(m, x) /\ Watching(g, x) = Watching(m, x)
      /\ Folders(g) = Folders(m)
  BY <1>1, SameNodes DEF Folders
<1>3. x0 \in Seq(Names) /\ n0 \in Names
  BY FolderAndName
<1>4. m.queue \in Seq(EventsOf(m)) /\ Len(m.queue) \in Nat /\ DOMAIN m.queue = 1 .. Len(m.queue)
  BY DEF Watches
<1>5. f.queue \in Seq(EventsOf(f)) /\ Len(f.queue) \in Nat /\ DOMAIN f.queue = 1 .. Len(f.queue)
  BY DEF Watches
<1>6. Watching(m, x0) => Notice(m, p, kind) \in EventsOf(m) /\ Notice(m, p, kind) = [wd |-> w0, kind |-> kind, name |-> n0]
  BY <1>3 DEF Notice, EventsOf, Watches, Watching
<1>7. Watches(g)
  <2>1. g.queue \in Seq(EventsOf(m))
    <3>1. CASE ~ Watching(m, x0)
      BY <1>4, <3>1 DEF Told
    <3>2. CASE Watching(m, x0)
      <4>1. Append(m.queue, Notice(m, p, kind)) \in Seq(EventsOf(m))
        BY <1>4, <1>6, <3>2, AppendProperties
      <4> QED
        BY <1>1, <1>4, <4>1
    <3> QED
      BY <3>1, <3>2
  <2>2. EventsOf(g) = EventsOf(m)
    BY <1>1 DEF EventsOf
  <2> QED
    BY <1>1, <1>2, <2>1, <2>2 DEF Watches
<1>8. CASE g = m /\ ~ Watching(m, x0)
  <2>1. ASSUME NEW x \in Folders(g), Watching(g, x), NEW n PROVE <<x, n>> # <<x0, n0>>
    BY <1>8, <2>1
  <2> QED
    BY <1>7, <1>8, <2>1 DEF StepsBut
<1>9. CASE g = m /\ Watching(m, x0) /\ m.queue # <<>> /\ Last(m.queue) = Notice(m, p, kind)
  <2>1. m.queue = f.queue
    BY <1>9
  <2> DEFINE k == Len(m.queue)
  <2>2. k \in DOMAIN f.queue /\ f.queue[k] = [wd |-> w0, kind |-> kind, name |-> n0] /\ k = Len(f.queue)
    BY <1>4, <1>6, <1>9, <2>1, LastOf
  <2>3. LastAbout(f.queue, k)
    BY <1>5, <2>2 DEF LastAbout
  <2> SUFFICES ASSUME NEW x \in Folders(m), Watching(m, x)
               PROVE  \E y \in Folders(f) : SameWatch(f, y, m, x) /\ \A n \in Names : <<x, n>> \notin T => NewsTell(f, y, m, x, n)
    BY <1>7, <1>9 DEF StepsBut
  <2>4. PICK y \in Folders(f) :
          /\ SameWatch(f, y, m, x)
          /\ \A n \in Names : <<x, n>> \notin T \cup {<<x0, n0>>} => NewsTell(f, y, m, x, n)
    BY DEF StepsBut
  <2>5. ASSUME x = x0 PROVE NewsTell(f, y, m, x, n0)
    <3>1. f.watch[Ino(f, y)] = w0 /\ Watching(f, y)
      BY <2>4, <2>5 DEF SameWatch
    <3>2. kind = "create" <=> n0 \in Kids(f, y)
      BY <2>2, <2>3, <3>1 DEF Tells
    <3>3. \A w, n : News(f, m, w, n) = {}
      BY <1>4, <2>1 DEF News
    <3> QED
      BY <2>5, <3>2, <3>3 DEF NewsTell
  <2>6. ASSUME NEW n \in Names, <<x, n>> \notin T PROVE NewsTell(f, y, m, x, n)
    BY <2>4, <2>5, <2>6
  <2> QED
    BY <2>4, <2>6
<1>10. CASE g.queue = Append(m.queue, Notice(m, p, kind)) /\ Watching(m, x0)
  <2> DEFINE k == Len(m.queue) + 1
             e == [wd |-> w0, kind |-> kind, name |-> n0]
  <2>1. /\ Len(g.queue) = k /\ DOMAIN g.queue = 1 .. k /\ g.queue[k] = e
        /\ \A i \in DOMAIN m.queue : g.queue[i] = m.queue[i]
    BY <1>4, <1>6, <1>10
  <2>2. Extends(f, g) /\ Len(f.queue) < k
    BY <1>4, <1>5, <2>1 DEF StepsBut, Extends
  <2>3. ASSUME NEW w, NEW n PROVE News(f, g, w, n) = News(f, m, w, n) \cup IF w = w0 /\ n = n0 THEN {k} ELSE {}
    <3>1. DOMAIN g.queue = DOMAIN m.queue \cup {k} /\ k \notin DOMAIN m.queue
      BY <1>4, <2>1
    <3>2. About(g.queue[k], w, n) <=> w = w0 /\ n = n0
      BY <2>1 DEF About
    <3>3. \A i \in DOMAIN m.queue : About(g.queue[i], w, n) <=> About(m.queue[i], w, n)
      BY <2>1
    <3>4. k > Len(f.queue)
      BY <1>4, <1>5, <2>2
    <3> QED
      BY <3>1, <3>2, <3>3, <3>4 DEF News
  <2> SUFFICES ASSUME NEW x \in Folders(m), Watching(m, x)
               PROVE  \E y \in Folders(f) : SameWatch(f, y, g, x) /\ \A n \in Names : <<x, n>> \notin T => NewsTell(f, y, g, x, n)
    BY <1>2, <1>7, <2>2 DEF StepsBut
  <2>4. PICK y \in Folders(f) :
          /\ SameWatch(f, y, m, x)
          /\ \A n \in Names : <<x, n>> \notin T \cup {<<x0, n0>>} => NewsTell(f, y, m, x, n)
    BY DEF StepsBut
  <2>5. SameWatch(f, y, g, x)
    BY <1>1, <1>2, <2>4 DEF SameWatch
  <2> DEFINE w == m.watch[Ino(m, x)]
  <2>6. w = w0 => Ino(m, x) = Ino(m, x0)
    BY <1>10 DEF Watches, Watching
  <2>7. Ino(m, x) = Ino(m, x0) => x = x0
    BY DEF Folders, Ino, Card, Tree, Shaped
  <2>8. ASSUME NEW n \in Names, <<x, n>> \notin T PROVE NewsTell(f, y, g, x, n)
    <3>1. g.watch[Ino(g, x)] = w /\ Kids(g, x) = Kids(m, x)
      BY <1>1, <1>2
    <3>2. CASE x = x0 /\ n = n0
      <4>1. k \in News(f, g, w, n) /\ g.queue[k].kind = kind
        BY <2>1, <2>3, <3>2
      <4>2. News(f, g, w, n) \subseteq 1 .. k /\ k \in Nat
        BY <1>4, <2>1 DEF News
      <4>3. \A i \in News(f, g, w, n) : (\A j \in News(f, g, w, n) : j <= i) => i = k
        BY <4>1, <4>2
      <4> QED
        BY <3>1, <3>2, <4>1, <4>3 DEF NewsTell
    <3>3. CASE ~(x = x0 /\ n = n0)
      <4>1. News(f, g, w, n) = News(f, m, w, n)
        <5>1. ~(w = w0 /\ n = n0)
          BY <2>6, <2>7, <3>3
        <5>2. News(f, g, w, n) = News(f, m, w, n) \cup IF w = w0 /\ n = n0 THEN {k} ELSE {}
          BY <2>3
        <5> QED
          BY <5>1, <5>2
      <4>2. \A i \in News(f, m, w, n) : g.queue[i] = m.queue[i]
        BY <2>1 DEF News
      <4>3. NewsTell(f, y, m, x, n)
        BY <2>4, <2>8, <3>3
      <4> QED
        BY <3>1, <4>1, <4>2, <4>3 DEF NewsTell
    <3> QED
      BY <3>2, <3>3
  <2> QED
    BY <2>5, <2>8
<1> QED
  BY <1>1, <1>8, <1>9, <1>10 DEF Told

-----------------------------------------------------------------------------
(* The changes of the card, one by one.                                    *)

LEMMA QuietSteps ==
  ASSUME NEW f, NEW m, NEW T, m.queue = f.queue, Watches(f),
         \A x \in Folders(m) : Watching(m, x) =>
           \E y \in Folders(f) : SameWatch(f, y, m, x)
             /\ \A n \in Names : <<x, n>> \notin T => (n \in Kids(m, x) <=> n \in Kids(f, y))
  PROVE  StepsBut(f, m, T)
<1>1. Len(f.queue) \in Nat /\ DOMAIN f.queue = 1 .. Len(f.queue)
  BY DEF Watches
<1>2. Extends(f, m)
  BY <1>1 DEF Extends
<1>3. \A w, n : News(f, m, w, n) = {}
  BY <1>1 DEF News
<1> QED
  BY <1>2, <1>3 DEF StepsBut, NewsTell

LEMMA RestrictDoes ==
  ASSUME NEW m, NEW S
  PROVE  DOMAIN Restrict(m, S) = S /\ \A y \in S : Restrict(m, S)[y] = m[y]
BY DEF Restrict

\* Changes of some fields of a card.
Grown(f, D, i) == [f EXCEPT !.disk = D, !.inos = i]
Cut(f, D, W) == [f EXCEPT !.disk = D, !.watch = W]
CutTelling(f, D, W, Q) == [f EXCEPT !.disk = D, !.watch = W, !.queue = Q]
Rewatched(f, W, i) == [f EXCEPT !.watch = W, !.wds = i]
Unwatched(f, W) == [f EXCEPT !.watch = W]
Queued(f, Q) == [f EXCEPT !.queue = Q]

LEMMA GrownIs ==
  ASSUME NEW f, Shaped(f), NEW D, NEW i \in Nat, NEW m, m = Grown(f, D, i)
  PROVE  Shaped(m) /\ m.disk = D /\ m.inos = i /\ m.queue = f.queue /\ m.watch = f.watch /\ m.wds = f.wds
BY DEF Shaped, Grown

LEMMA CutIs ==
  ASSUME NEW f, Shaped(f), NEW D, NEW W, NEW m, m = Cut(f, D, W)
  PROVE  Shaped(m) /\ m.disk = D /\ m.inos = f.inos /\ m.queue = f.queue /\ m.watch = W /\ m.wds = f.wds
BY DEF Shaped, Cut

LEMMA CutTellingIs ==
  ASSUME NEW f, Shaped(f), NEW D, NEW W, NEW Q, NEW m, m = CutTelling(f, D, W, Q)
  PROVE  Shaped(m) /\ m.disk = D /\ m.inos = f.inos /\ m.queue = Q /\ m.watch = W /\ m.wds = f.wds
BY DEF Shaped, CutTelling

LEMMA RewatchedIs ==
  ASSUME NEW f, Shaped(f), NEW W, NEW i \in Nat, NEW m, m = Rewatched(f, W, i)
  PROVE  Shaped(m) /\ m.disk = f.disk /\ m.inos = f.inos /\ m.queue = f.queue /\ m.watch = W /\ m.wds = i
BY DEF Shaped, Rewatched

LEMMA UnwatchedIs ==
  ASSUME NEW f, Shaped(f), NEW W, NEW m, m = Unwatched(f, W)
  PROVE  Shaped(m) /\ m.disk = f.disk /\ m.inos = f.inos /\ m.queue = f.queue /\ m.watch = W /\ m.wds = f.wds
BY DEF Shaped, Unwatched

LEMMA QueuedIs ==
  ASSUME NEW f, Shaped(f), NEW Q, NEW m, m = Queued(f, Q)
  PROVE  Shaped(m) /\ m.disk = f.disk /\ m.inos = f.inos /\ m.queue = Q /\ m.watch = f.watch /\ m.wds = f.wds
BY DEF Shaped, Queued

\* A new node, before its event.
HasNew(f, m, p, dir) ==
  /\ m.watch = f.watch /\ m.wds = f.wds
  /\ DOMAIN m.disk = DOMAIN f.disk \cup {p} /\ m.disk[p] = [dir |-> dir, ino |-> f.inos + 1]
  /\ \A q \in DOMAIN f.disk : m.disk[q] = f.disk[q]
LEMMA MadeTree ==
  ASSUME NEW f, Card(f), Watches(f), NEW p \in Seq(Names), p # <<>>, p \notin DOMAIN f.disk, IsDir(f, Front(p)),
         NEW dir \in BOOLEAN, dir = TRUE => Len(p) < MaxDepth,
         NEW m, m = Grown(f, With(f.disk, p, [dir |-> dir, ino |-> f.inos + 1]), f.inos + 1)
  PROVE  /\ Card(m) /\ Watches(m) /\ StepsBut(f, m, {<<Front(p), Last(p)>>})
         /\ HasNew(f, m, p, dir)
<1> DEFINE D == With(f.disk, p, [dir |-> dir, ino |-> f.inos + 1])
<1> HIDE DEF D
<1>0. Shaped(f) /\ f.inos \in Nat /\ f.wds \in Nat /\ f.inos + 1 \in Nat /\ m = Grown(f, D, f.inos + 1)
  BY DEF Card, Shaped, D
<1>1. m.disk = D /\ m.inos = f.inos + 1 /\ m.queue = f.queue /\ m.watch = f.watch /\ m.wds = f.wds /\ Shaped(m)
  BY <1>0, GrownIs
<1>2. /\ DOMAIN m.disk = DOMAIN f.disk \cup {p} /\ m.disk[p] = [dir |-> dir, ino |-> f.inos + 1]
      /\ \A q \in DOMAIN f.disk : m.disk[q] = f.disk[q]
  BY <1>1 DEF With, D
<1>3. Front(p) \in Seq(Names) /\ Last(p) \in Names /\ p = Append(Front(p), Last(p)) /\ Len(Front(p)) = Len(p) - 1 /\ Len(p) \in Nat
  BY FolderAndName
<1>4. Len(p) \in 1 .. MaxDepth
  <2>1. CASE Front(p) = <<>>
    <3>1. Len(Front(p)) = 0
      BY <2>1
    <3> QED
      BY <1>3, <3>1 DEF MaxDepth
  <2>2. CASE Front(p) # <<>>
    <3>1. Front(p) \in DOMAIN f.disk /\ f.disk[Front(p)].dir
      BY <2>2 DEF IsDir
    <3>2. Len(Front(p)) < MaxDepth /\ Len(Front(p)) \in 1 .. MaxDepth
      BY <3>1, Nodes
    <3> QED
      BY <1>3, <3>2 DEF MaxDepth
  <2> QED
    BY <2>1, <2>2
<1>5. \A x : IsDir(f, x) => IsDir(m, x) /\ Ino(m, x) = Ino(f, x)
  BY <1>2 DEF IsDir, Ino
<1>6. Tree(m)
  <2>1. \A q \in DOMAIN f.disk : f.disk[q].ino \in 1 .. f.inos
    BY Nodes
  <2>2. p \in Paths
    BY <1>4, PathsAre
  <2>3. DOMAIN m.disk \subseteq Paths
    BY <1>2, <2>2 DEF Card, Tree
  <2>6. IsFiniteSet(DOMAIN m.disk)
    BY <1>2, FS_AddElement DEF Card, Tree
  <2>4. ASSUME NEW q \in DOMAIN m.disk
        PROVE  m.disk[q] \in [dir : BOOLEAN, ino : 1 .. m.inos] /\ (m.disk[q].dir => Len(q) < MaxDepth) /\ IsDir(m, Front(q))
    <3>1. CASE q = p
      BY <1>0, <1>1, <1>2, <1>5, <3>1
    <3>2. CASE q # p
      <4>1. q \in DOMAIN f.disk /\ m.disk[q] = f.disk[q]
        BY <1>2, <3>2
      <4>2. f.disk[q] \in [dir : BOOLEAN, ino : 1 .. f.inos] /\ (f.disk[q].dir => Len(q) < MaxDepth) /\ IsDir(f, Front(q))
        BY <4>1 DEF Card, Tree
      <4>3. \A i \in 1 .. f.inos : i \in 1 .. m.inos
        BY <1>0, <1>1
      <4> QED
        BY <1>5, <4>1, <4>2, <4>3
    <3> QED
      BY <3>1, <3>2
  <2>5. ASSUME NEW q \in DOMAIN m.disk, NEW r \in DOMAIN m.disk, m.disk[q].ino = m.disk[r].ino PROVE q = r
    <3>1. \A x \in DOMAIN f.disk : m.disk[x].ino # m.disk[p].ino
      BY <1>0, <1>1, <1>2, <2>1
    <3> QED
      BY <1>2, <2>5, <3>1 DEF Card, Tree
  <2> QED
    BY <2>3, <2>4, <2>5, <2>6 DEF Tree
<1>7. Folders(f) \subseteq Folders(m) /\ \A x \in Folders(f) : Ino(m, x) = Ino(f, x)
  BY <1>2 DEF Folders, Ino
<1>8. Watches(m)
  <2>1. {Ino(f, y) : y \in Folders(f)} \subseteq {Ino(m, y) : y \in Folders(m)}
    BY <1>7
  <2>2. EventsOf(m) = EventsOf(f)
    BY <1>1 DEF EventsOf
  <2>3. DOMAIN m.watch \subseteq {Ino(m, y) : y \in Folders(m)}
    <3>1. DOMAIN f.watch \subseteq {Ino(f, y) : y \in Folders(f)}
      BY DEF Watches
    <3>2. DOMAIN m.watch = DOMAIN f.watch
      BY <1>1
    <3> QED
      BY <2>1, <3>1, <3>2
  <2>4. /\ \A i \in DOMAIN m.watch : m.watch[i] \in 1 .. m.wds
        /\ \A i, j \in DOMAIN m.watch : m.watch[i] = m.watch[j] => i = j
    BY <1>1 DEF Watches
  <2>5. m.queue \in Seq(EventsOf(m))
    BY <1>1, <2>2 DEF Watches
  <2> QED
    BY <2>3, <2>4, <2>5 DEF Watches
<1>9. ASSUME NEW x \in Folders(m), Watching(m, x) PROVE x \in Folders(f) /\ SameWatch(f, x, m, x)
  <2>1. x # p
    <3> SUFFICES ASSUME x = p PROVE FALSE
      OBVIOUS
    <3>1. f.inos + 1 \in DOMAIN f.watch
      BY <1>1, <1>2, <1>9 DEF Watching, Ino
    <3>2. PICK y \in Folders(f) : Ino(f, y) = f.inos + 1
      BY <3>1 DEF Watches
    <3>3. Ino(f, y) \in 0 .. f.inos
      BY <1>0, Nodes DEF Folders, Ino
    <3> QED
      BY <1>0, <3>2, <3>3
  <2>2. x \in Folders(f)
    BY <1>2, <2>1 DEF Folders
  <2> QED
    BY <1>1, <1>7, <1>9, <2>2 DEF SameWatch, Watching, Folders, IsDir
<1>10. ASSUME NEW x \in Folders(f), NEW n \in Names, <<x, n>> # <<Front(p), Last(p)>>
       PROVE  n \in Kids(m, x) <=> n \in Kids(f, x)
  <2>1. x \in Seq(Names)
    <3>1. x = <<>> \/ x \in DOMAIN f.disk
      BY DEF Folders
    <3>2. x \in DOMAIN f.disk => x \in Seq(Names)
      BY Nodes
    <3>3. <<>> \in Seq(Names)
      OBVIOUS
    <3> QED
      BY <3>1, <3>2, <3>3
  <2>2. Append(x, n) # p
    BY <1>10, <2>1, InFolder
  <2> QED
    BY <1>2, <2>2 DEF Kids
<1>11. StepsBut(f, m, {<<Front(p), Last(p)>>})
  BY <1>1, <1>9, <1>10, QuietSteps
<1> QED
  BY <1>1, <1>2, <1>6, <1>8, <1>11 DEF Card, HasNew

LEMMA CreateDoes ==
  ASSUME NEW f, Card(f), Watches(f), Tells(f), NEW p \in Seq(Names), p # <<>>, p \notin DOMAIN f.disk, IsDir(f, Front(p)),
         NEW dir \in BOOLEAN, dir = TRUE => Len(p) < MaxDepth
  PROVE  LET g == Create(f, p, dir) IN
         /\ Card(g) /\ Watches(g) /\ StepsBut(f, g, {}) /\ Tells(g)
         /\ HasNew(f, g, p, dir)
<1>0. PICK m : m = Grown(f, With(f.disk, p, [dir |-> dir, ino |-> f.inos + 1]), f.inos + 1)
  OBVIOUS
<1> DEFINE g == Told(m, p, "create")
<1>1. /\ Card(m) /\ Watches(m) /\ StepsBut(f, m, {<<Front(p), Last(p)>>})
      /\ HasNew(f, m, p, dir)
  BY <1>0, MadeTree
<1>9. m.queue = f.queue
  BY <1>0, GrownIs DEF Card, Shaped
<1>2. g.disk = m.disk /\ g.watch = m.watch /\ g.inos = m.inos /\ g.wds = m.wds /\ Shaped(g)
  BY <1>1, ToldIs DEF Card
<1>3. Card(g)
  BY <1>1, <1>2, SameNodes DEF Card
<1>4. Front(p) \in Folders(m) /\ Last(p) \in Kids(m, Front(p))
  BY <1>1, FolderAndName DEF Folders, Kids, IsDir, HasNew
<1>5. {} \cup {<<Front(p), Last(p)>>} = {<<Front(p), Last(p)>>}
  OBVIOUS
<1>6. Watches(g) /\ StepsBut(f, g, {})
  BY <1>1, <1>4, <1>5, <1>9, ToldSteps
<1>7. Tells(g)
  BY <1>6, StepsTell
<1>8. g = Create(f, p, dir)
  BY <1>0 DEF Grown, Create
<1> QED
  BY <1>1, <1>2, <1>3, <1>6, <1>7, <1>8 DEF HasNew

\* Nodes that go with all that is below them, before the events.
HasCut(f, m, R) ==
  /\ DOMAIN m.disk = DOMAIN f.disk \ R /\ \A q \in DOMAIN m.disk : m.disk[q] = f.disk[q]
  /\ m.inos = f.inos /\ m.wds = f.wds
  /\ Folders(m) = Folders(f) \ R
  /\ \A x \in Folders(m) : Ino(m, x) = Ino(f, x) /\ (Watching(m, x) <=> Watching(f, x))
  /\ DOMAIN m.watch = DOMAIN f.watch \ {f.disk[q].ino : q \in R}
  /\ \A i \in DOMAIN m.watch : m.watch[i] = f.watch[i]
LEMMA CutTree ==
  ASSUME NEW f, Card(f), Watches(f), NEW R, R \subseteq DOMAIN f.disk, \A q \in DOMAIN f.disk : Front(q) \in R => q \in R,
         NEW m, m = Cut(f, Restrict(f.disk, DOMAIN f.disk \ R), Restrict(f.watch, DOMAIN f.watch \ {f.disk[q].ino : q \in R}))
  PROVE  Card(m) /\ Watches(m) /\ HasCut(f, m, R)
<1> DEFINE D == Restrict(f.disk, DOMAIN f.disk \ R)
           W == Restrict(f.watch, DOMAIN f.watch \ {f.disk[q].ino : q \in R})
<1>1. /\ DOMAIN D = DOMAIN f.disk \ R /\ \A q \in DOMAIN D : D[q] = f.disk[q]
      /\ DOMAIN W = DOMAIN f.watch \ {f.disk[q].ino : q \in R} /\ \A i \in DOMAIN W : W[i] = f.watch[i]
  <2>1. DOMAIN D = DOMAIN f.disk \ R /\ \A q \in DOMAIN f.disk \ R : D[q] = f.disk[q]
    BY RestrictDoes
  <2> DEFINE I == DOMAIN f.watch \ {f.disk[q].ino : q \in R}
  <2>2. DOMAIN W = I /\ \A i \in I : W[i] = f.watch[i]
    BY RestrictDoes
  <2> QED
    BY <2>1, <2>2
<1>2. m = Cut(f, D, W)
  OBVIOUS
<1> HIDE DEF D, W
<1>3. Shaped(f)
  BY DEF Card
<1>4. Shaped(m) /\ m.disk = D /\ m.inos = f.inos /\ m.queue = f.queue /\ m.watch = W /\ m.wds = f.wds
  BY <1>2, <1>3, CutIs
<1>5. ASSUME NEW q \in DOMAIN m.disk PROVE IsDir(m, Front(q))
  <2>1. IsDir(f, Front(q)) /\ Front(q) \notin R
    BY <1>1, <1>4 DEF Card, Tree
  <2> QED
    BY <1>1, <1>4, <2>1 DEF IsDir
<1>6. Tree(m)
  <2>1. Tree(f)
    BY DEF Card
  <2>2. DOMAIN m.disk \subseteq Paths
    BY <1>1, <1>4, <2>1 DEF Tree
  <2>5. IsFiniteSet(DOMAIN m.disk)
    BY <1>1, <1>4, <2>1, FS_Subset DEF Tree
  <2>3. \A p \in DOMAIN m.disk : m.disk[p] \in [dir : BOOLEAN, ino : 1 .. m.inos] /\ (m.disk[p].dir => Len(p) < MaxDepth)
    <3>1. \A p \in DOMAIN m.disk : p \in DOMAIN f.disk /\ m.disk[p] = f.disk[p]
      BY <1>1, <1>4
    <3>2. \A p \in DOMAIN f.disk : f.disk[p] \in [dir : BOOLEAN, ino : 1 .. f.inos] /\ (f.disk[p].dir => Len(p) < MaxDepth)
      BY <2>1 DEF Tree
    <3> QED
      BY <1>4, <3>1, <3>2
  <2>4. ASSUME NEW p \in DOMAIN m.disk, NEW q \in DOMAIN m.disk, m.disk[p].ino = m.disk[q].ino PROVE p = q
    <3>1. p \in DOMAIN f.disk /\ q \in DOMAIN f.disk /\ f.disk[p].ino = f.disk[q].ino
      BY <1>1, <1>4, <2>4
    <3> QED
      BY <2>1, <3>1 DEF Tree
  <2> QED
    BY <1>5, <2>2, <2>3, <2>4, <2>5 DEF Tree
<1>7. Folders(m) = Folders(f) \ R
  <2>1. <<>> \notin R
    BY Nodes
  <2>2. \A p : p \in DOMAIN m.disk <=> p \in DOMAIN f.disk /\ p \notin R
    BY <1>1, <1>4
  <2>3. \A p \in DOMAIN m.disk : m.disk[p].dir = f.disk[p].dir
    BY <1>1, <1>4
  <2>4. {p \in DOMAIN m.disk : m.disk[p].dir} = {p \in DOMAIN f.disk : f.disk[p].dir} \ R
    BY <2>2, <2>3
  <2> QED
    BY <2>1, <2>4 DEF Folders
<1>8. \A x \in Folders(m) : Ino(m, x) = Ino(f, x)
  BY <1>1, <1>4 DEF Ino, Folders
<1>9. ASSUME NEW x \in Folders(m) PROVE Ino(f, x) \notin {f.disk[q].ino : q \in R}
  <2> SUFFICES ASSUME NEW q \in R, Ino(f, x) = f.disk[q].ino PROVE FALSE
    OBVIOUS
  <2>1. f.disk[q].ino \in 1 .. f.inos /\ f.inos \in Nat /\ q \in DOMAIN f.disk
    BY Nodes
  <2>2. x # <<>> /\ x \in DOMAIN f.disk /\ x \notin R /\ Ino(f, x) = f.disk[x].ino
    <3>1. x \in Folders(f) /\ x \notin R
      BY <1>7
    <3>2. x # <<>>
      BY <2>1 DEF Ino
    <3> QED
      BY <3>1, <3>2 DEF Ino, Folders
  <2>3. x = q
    BY <2>1, <2>2 DEF Card, Tree
  <2> QED
    BY <2>2, <2>3
<1>10. ASSUME NEW x \in Folders(m) PROVE Watching(m, x) <=> Watching(f, x)
  <2>1. x \in Folders(f)
    BY <1>7
  <2>2. IsDir(f, x) /\ IsDir(m, x)
    BY <2>1 DEF IsDir, Folders
  <2> QED
    BY <1>1, <1>4, <1>8, <1>9, <2>2 DEF Watching
<1>11. Watches(m)
  <2>1. EventsOf(m) = EventsOf(f)
    BY <1>4 DEF EventsOf
  <2>2. ASSUME NEW i \in DOMAIN m.watch PROVE i \in {Ino(m, p) : p \in Folders(m)}
    <3>1. i \in DOMAIN f.watch /\ i \notin {f.disk[q].ino : q \in R}
      BY <1>1, <1>4
    <3>2. PICK p \in Folders(f) : i = Ino(f, p)
      BY <3>1 DEF Watches
    <3>3. p \notin R
      <4>1. p \in R => p # <<>>
        BY Nodes
      <4> QED
        BY <3>1, <3>2, <4>1 DEF Ino
    <3> QED
      BY <1>7, <1>8, <3>2, <3>3
  <2>3. \A i \in DOMAIN m.watch : i \in DOMAIN f.watch /\ m.watch[i] = f.watch[i]
    BY <1>1, <1>4
  <2>4. \A i \in DOMAIN m.watch : m.watch[i] \in 1 .. m.wds
    BY <1>4, <2>3 DEF Watches
  <2>5. \A i, j \in DOMAIN m.watch : m.watch[i] = m.watch[j] => i = j
    BY <2>3 DEF Watches
  <2>6. m.queue \in Seq(EventsOf(m))
    BY <1>4, <2>1 DEF Watches
  <2> QED
    BY <2>2, <2>4, <2>5, <2>6 DEF Watches
<1> QED
  BY <1>1, <1>4, <1>6, <1>7, <1>8, <1>10, <1>11 DEF Card, HasCut

LEMMA CutSteps ==
  ASSUME NEW f, NEW m, NEW T, NEW R, HasCut(f, m, R), Watches(f), m.queue = f.queue,
         \A x \in Folders(m) : Watching(m, x) =>
            \A n \in Names : <<x, n>> \notin T => (n \in Kids(m, x) <=> n \in Kids(f, x))
  PROVE  StepsBut(f, m, T)
<1>1. ASSUME NEW x \in Folders(m), Watching(m, x) PROVE x \in Folders(f) /\ SameWatch(f, x, m, x)
  BY <1>1 DEF HasCut, SameWatch, Watching
<1> QED
  BY <1>1, QuietSteps

\* remove().
LEMMA UnlinkDoes ==
  ASSUME NEW f, Card(f), Watches(f), Tells(f), NEW p \in DOMAIN f.disk, Below(f, p) = {}
  PROVE  LET g == Unlink(f, p) IN
         Card(g) /\ Watches(g) /\ StepsBut(f, g, {}) /\ Tells(g) /\ HasCut(f, g, {p})
<1>0. PICK m : m = Cut(f, Restrict(f.disk, DOMAIN f.disk \ {p}), Restrict(f.watch, DOMAIN f.watch \ {f.disk[q].ino : q \in {p}}))
  OBVIOUS
<1> DEFINE g == Told(m, p, "delete")
<1>1. /\ p \in Seq(Names) /\ p # <<>> /\ Front(p) \in Seq(Names) /\ Last(p) \in Names /\ p = Append(Front(p), Last(p))
      /\ Front(p) # <<>> => Front(p) \in DOMAIN f.disk /\ f.disk[Front(p)].dir
      /\ Len(Front(p)) = Len(p) - 1
  BY Nodes
<1>2. ASSUME NEW q \in DOMAIN f.disk, Front(q) \in {p} PROVE q \in {p}
  <2>1. q = Append(p, Last(q)) /\ Last(q) \in Names
    BY <1>2, Nodes
  <2>2. Last(q) \in Kids(f, p)
    BY <2>1 DEF Kids
  <2> QED
    BY <1>1, <2>1, <2>2, BelowIsKids
<1>3. Card(m) /\ Watches(m) /\ HasCut(f, m, {p})
  BY <1>0, <1>2, CutTree
<1>4. m.queue = f.queue
  BY <1>0, CutIs DEF Card, Shaped
<1>5. g.disk = m.disk /\ g.watch = m.watch /\ g.inos = m.inos /\ g.wds = m.wds /\ Shaped(g)
  BY <1>3, ToldIs DEF Card
<1>6. Card(g)
  BY <1>3, <1>5, SameNodes DEF Card
<1>7. Front(p) \in Folders(m) /\ Last(p) \notin Kids(m, Front(p))
  <2>1. Front(p) # p
    <3>1. Len(p) \in Nat
      BY <1>1
    <3> QED
      BY <1>1, <3>1
  <2>2. Front(p) \in Folders(f)
    BY <1>1 DEF Folders
  <2> QED
    BY <1>1, <1>3, <2>1, <2>2 DEF HasCut, Kids
<1>8. StepsBut(f, m, {<<Front(p), Last(p)>>})
  <2>1. ASSUME NEW x \in Folders(m), NEW n \in Names, <<x, n>> \notin {<<Front(p), Last(p)>>}
        PROVE  n \in Kids(m, x) <=> n \in Kids(f, x)
    <3>1. x \in Seq(Names)
      <4>1. x = <<>> \/ x \in DOMAIN f.disk
        BY <1>3 DEF HasCut, Folders
      <4>2. x \in DOMAIN f.disk => x \in Seq(Names)
        BY Nodes
      <4>3. <<>> \in Seq(Names)
        OBVIOUS
      <4> QED
        BY <4>1, <4>2, <4>3
    <3>2. Append(x, n) # p
      BY <2>1, <3>1, InFolder
    <3> QED
      BY <1>3, <3>2 DEF Kids, HasCut
  <2> QED
    BY <1>3, <1>4, <2>1, CutSteps
<1>9. {} \cup {<<Front(p), Last(p)>>} = {<<Front(p), Last(p)>>}
  OBVIOUS
<1>10. Watches(g) /\ StepsBut(f, g, {})
  BY <1>1, <1>3, <1>4, <1>7, <1>8, <1>9, ToldSteps
<1>11. Tells(g)
  BY <1>10, StepsTell
<1>12. g = Unlink(f, p)
  <2>1. {f.disk[q].ino : q \in {p}} = {f.disk[p].ino}
    OBVIOUS
  <2> QED
    BY <1>0, <2>1 DEF Cut, Unlink
<1>13. HasCut(f, g, {p})
  <2>1. Folders(g) = Folders(m)
    BY <1>5 DEF Folders
  <2>2. \A x : Ino(g, x) = Ino(m, x) /\ Watching(g, x) = Watching(m, x)
    BY <1>5, SameNodes
  <2> QED
    BY <1>3, <1>5, <2>1, <2>2 DEF HasCut
<1> QED
  BY <1>6, <1>10, <1>11, <1>12, <1>13

\* The orders in which the members of a finite set can come.
LEMMA OrdersAre ==
  ASSUME NEW S, IsFiniteSet(S), NEW o \in SetToSeqs(S)
  PROVE  /\ o \in Seq(S) /\ Len(o) \in Nat /\ DOMAIN o = 1 .. Len(o) /\ Len(o) = Cardinality(S)
         /\ \A i \in DOMAIN o : o[i] \in S
         /\ \A i, j \in DOMAIN o : o[i] = o[j] => i = j
         /\ \A x \in S : \E i \in DOMAIN o : o[i] = x
<1> DEFINE c == Cardinality(S)
<1>1. c \in Nat
  BY FS_CardinalityType
<1> HIDE DEF c
<1>2. o \in [1 .. c -> S] /\ \A i, j \in 1 .. c : i # j => o[i] # o[j]
  BY DEF SetToSeqs, c
<1>3. o \in Seq(S) /\ Len(o) = c /\ DOMAIN o = 1 .. c
  BY <1>1, <1>2
<1>4. o \in Injection(1 .. c, S)
  BY <1>2, <1>3 DEF Injection, IsInjective
<1>5. Cardinality(1 .. c) = c
  <2>1. Cardinality(1 .. c) = IF 1 > c THEN 0 ELSE c - 1 + 1
    BY <1>1, FS_Interval
  <2> QED
    BY <1>1, <2>1
<1>6. o \in Surjection(1 .. c, S)
  BY <1>4, <1>5, FS_Injection DEF c
<1>7. \A x \in S : \E i \in 1 .. c : o[i] = x
  BY <1>6 DEF Surjection
<1> QED
  BY <1>1, <1>2, <1>3, <1>7 DEF c

\* A folder holds finitely many names.
LEMMA FewKids ==
  ASSUME NEW f, Card(f), NEW p \in Seq(Names)
  PROVE  IsFiniteSet(Kids(f, p))
<1> DEFINE g == [n \in Kids(f, p) |-> Append(p, n)]
<1>1. IsFiniteSet(DOMAIN f.disk)
  BY DEF Card, Tree
<1>2. \A n \in Kids(f, p) : n \in Names /\ g[n] = Append(p, n) /\ Append(p, n) \in DOMAIN f.disk /\ Last(Append(p, n)) = n
  BY InFolder DEF Kids
<1>3. g \in [Kids(f, p) -> DOMAIN f.disk]
  BY <1>2
<1>4. ASSUME NEW a \in Kids(f, p), NEW b \in Kids(f, p), g[a] = g[b] PROVE a = b
  BY <1>2, <1>4
<1>5. g \in Injection(Kids(f, p), DOMAIN f.disk)
  BY <1>3, <1>4 DEF Injection, IsInjective
<1> QED
  BY <1>1, <1>5, FS_Injection

\* A path that passes through p has its folder below p or is p.
LEMMA BelowCloses ==
  ASSUME NEW f, Card(f), NEW p \in Seq(Names), NEW q \in DOMAIN f.disk, Front(q) \in Below(f, p)
  PROVE  q \in Below(f, p)
<1>1. /\ q \in Seq(Names) /\ Len(q) \in Nat \ {0} /\ Front(q) \in Seq(Names)
      /\ Len(Front(q)) = Len(q) - 1 /\ Len(p) \in Nat
  BY Nodes DEF MaxDepth
<1>2. Len(Front(q)) >= Len(p) /\ SubSeq(Front(q), 1, Len(p)) = p
  BY DEF Below, Passes
<1>3. SubSeq(q, 1, Len(p)) = SubSeq(Front(q), 1, Len(p))
  BY <1>1, <1>2 DEF Front
<1>4. q # p /\ Len(q) >= Len(p)
  BY <1>1, <1>2
<1> QED
  BY <1>2, <1>3, <1>4 DEF Below, Passes

LEMMA JoinedIs ==
  ASSUME NEW S, NEW a \in Seq(S), NEW b \in Seq(S), NEW c, c = a \o b
  PROVE  /\ c \in Seq(S) /\ Len(c) = Len(a) + Len(b) /\ DOMAIN c = 1 .. Len(a) + Len(b)
         /\ \A i \in 1 .. Len(a) : c[i] = a[i]
         /\ \A i \in 1 .. Len(b) : c[Len(a) + i] = b[i]
OBVIOUS

\* fs_remove_tree's walk.
LEMMA EmptyDoes ==
  ASSUME NEW f, Card(f), Watches(f), Tells(f), NEW p \in Seq(Names), NEW order \in Walks(f, p)
  PROVE  LET g == Empty(f, p, order) IN
         Card(g) /\ Watches(g) /\ StepsBut(f, g, {}) /\ Tells(g) /\ HasCut(f, g, Below(f, p))
<1> DEFINE R == Below(f, p)
           D == Restrict(f.disk, DOMAIN f.disk \ R)
           W == Restrict(f.watch, DOMAIN f.watch \ {f.disk[q].ino : q \in R})
           N == [i \in DOMAIN order |-> Notice(f, order[i], "delete")]
           Seen == {q \in R : Watching(f, Front(q))}
<1>0. PICK m : m = Cut(f, D, W)
  OBVIOUS
<1> DEFINE g == Empty(f, p, order)
<1>1. g = CutTelling(f, D, W, f.queue \o N)
  BY DEF Empty, CutTelling
<1>2. R \subseteq DOMAIN f.disk /\ IsFiniteSet(Seen)
  BY FS_Subset DEF Below, Card, Tree
<1>3. /\ Len(order) \in Nat /\ DOMAIN order = 1 .. Len(order)
      /\ \A i \in DOMAIN order : order[i] \in Seen
      /\ \A x \in Seen : \E i \in DOMAIN order : order[i] = x
  BY <1>2, OrdersAre DEF Walks
<1>4. \A q \in DOMAIN f.disk : Front(q) \in R => q \in R
  BY BelowCloses
<1>5. Card(m) /\ Watches(m) /\ HasCut(f, m, R)
  BY <1>0, <1>2, <1>4, CutTree
<1>6. Shaped(f)
  BY DEF Card
<1> HIDE DEF D, W, R, Seen, N
<1>7. m.queue = f.queue /\ m.disk = D /\ m.watch = W /\ m.inos = f.inos /\ m.wds = f.wds
  BY <1>0, <1>6, CutIs
<1>8. Shaped(g) /\ g.disk = D /\ g.watch = W /\ g.inos = f.inos /\ g.wds = f.wds /\ g.queue = f.queue \o N
  <2> DEFINE Q == f.queue \o N
  <2>1. g = CutTelling(f, D, W, Q)
    BY <1>1
  <2> HIDE DEF Q, g
  <2>2. Shaped(g) /\ g.disk = D /\ g.watch = W /\ g.inos = f.inos /\ g.wds = f.wds /\ g.queue = Q
    BY <1>6, <2>1, CutTellingIs
  <2> QED
    BY <2>2 DEF Q
<1> HIDE DEF g
<1>9. g.disk = m.disk /\ g.watch = m.watch /\ g.inos = m.inos /\ g.wds = m.wds
  BY <1>7, <1>8
<1>10. Card(g)
  BY <1>5, <1>8, <1>9, SameNodes DEF Card
<1>11. HasCut(f, g, R)
  <2>1. Folders(g) = Folders(m)
    BY <1>9 DEF Folders
  <2>2. \A x : Ino(g, x) = Ino(m, x) /\ Watching(g, x) = Watching(m, x)
    BY <1>9, SameNodes
  <2> QED
    BY <1>5, <1>9, <2>1, <2>2 DEF HasCut
<1>12. ASSUME NEW i \in DOMAIN order
       PROVE  /\ order[i] \in R /\ Watching(f, Front(order[i])) /\ Front(order[i]) \in Folders(f)
              /\ Last(order[i]) \in Names /\ order[i] = Append(Front(order[i]), Last(order[i]))
              /\ N[i] = [wd |-> f.watch[Ino(f, Front(order[i]))], kind |-> "delete", name |-> Last(order[i])]
              /\ N[i] \in EventsOf(f)
  <2>1. order[i] \in R /\ Watching(f, Front(order[i])) /\ order[i] \in DOMAIN f.disk
    BY <1>2, <1>3 DEF Seen
  <2>2. Last(order[i]) \in Names /\ order[i] = Append(Front(order[i]), Last(order[i]))
    BY <2>1, Nodes
  <2>3. N[i] = [wd |-> f.watch[Ino(f, Front(order[i]))], kind |-> "delete", name |-> Last(order[i])]
    BY DEF N, Notice
  <2>4. N[i] \in EventsOf(f)
    BY <2>1, <2>2, <2>3 DEF EventsOf, Watches, Watching
  <2>5. Front(order[i]) \in Folders(f)
    BY <2>1, Nodes DEF Folders
  <2> QED
    BY <2>1, <2>2, <2>3, <2>4, <2>5
<1>13. N \in Seq(EventsOf(f)) /\ Len(N) = Len(order)
  <2>1. DOMAIN N = 1 .. Len(order)
    BY <1>3 DEF N
  <2>2. N \in [1 .. Len(order) -> EventsOf(f)]
    BY <1>3, <1>12, <2>1 DEF N
  <2> QED
    BY <1>3, <2>2
<1>14. f.queue \in Seq(EventsOf(f)) /\ Len(f.queue) \in Nat /\ DOMAIN f.queue = 1 .. Len(f.queue)
  BY DEF Watches
<1> DEFINE L == Len(f.queue)
<1>15. /\ g.queue \in Seq(EventsOf(f)) /\ Len(g.queue) = L + Len(order) /\ DOMAIN g.queue = 1 .. L + Len(order)
       /\ \A i \in 1 .. L : g.queue[i] = f.queue[i]
       /\ \A i \in DOMAIN order : g.queue[L + i] = N[i]
  <2> DEFINE S == EventsOf(f)
             a == f.queue
             c == g.queue
  <2>1. a \in Seq(S) /\ N \in Seq(S) /\ c = a \o N
    BY <1>8, <1>13, <1>14
  <2> HIDE DEF S, a, c
  <2>2. /\ c \in Seq(S) /\ Len(c) = Len(a) + Len(N) /\ DOMAIN c = 1 .. Len(a) + Len(N)
        /\ \A i \in 1 .. Len(a) : c[i] = a[i]
        /\ \A i \in 1 .. Len(N) : c[Len(a) + i] = N[i]
    BY <2>1, JoinedIs
  <2>3. Len(N) = Len(order) /\ DOMAIN order = 1 .. Len(order)
    BY <1>3, <1>13
  <2> QED
    BY <2>2, <2>3 DEF S, a, c
<1>16. Watches(g)
  <2>1. EventsOf(g) = EventsOf(f)
    BY <1>8 DEF EventsOf
  <2>2. {Ino(g, x) : x \in Folders(g)} = {Ino(m, x) : x \in Folders(m)}
    <3>1. Folders(g) = Folders(m) /\ \A x : Ino(g, x) = Ino(m, x)
      BY <1>9, SameNodes DEF Folders
    <3> QED
      BY <3>1
  <2> QED
    BY <1>5, <1>9, <1>15, <2>1, <2>2 DEF Watches
<1>17. Extends(f, g)
  BY <1>3, <1>14, <1>15 DEF Extends
<1>18. ASSUME NEW x \in Folders(g), Watching(g, x), NEW n \in Names PROVE NewsTell(f, x, g, x, n)
  <2>1. x \in Folders(f) /\ x \notin R /\ Watching(f, x) /\ Ino(g, x) = Ino(f, x) /\ g.watch[Ino(g, x)] = f.watch[Ino(f, x)]
    BY <1>11, <1>18 DEF HasCut, Watching
  <2>2. x \in Seq(Names)
    <3>1. x = <<>> \/ x \in DOMAIN f.disk
      BY <2>1 DEF Folders
    <3>2. x \in DOMAIN f.disk => x \in Seq(Names)
      BY Nodes
    <3>3. <<>> \in Seq(Names)
      OBVIOUS
    <3> QED
      BY <3>1, <3>2, <3>3
  <2> DEFINE w == g.watch[Ino(g, x)]
             new == News(f, g, w, n)
  <2>3. ASSUME NEW i \in new PROVE g.queue[i].kind = "delete" /\ Append(x, n) \in R
    <3>1. i \in DOMAIN g.queue /\ i > L /\ g.queue[i].wd = w /\ g.queue[i].name = n
      BY DEF News, About
    <3>2. i - L \in DOMAIN order /\ i = L + (i - L)
      BY SMTT(30), <1>3, <1>14, <1>15, <3>1
    <3>3. g.queue[i] = N[i - L]
      BY <1>15, <3>2
    <3> DEFINE o == order[i - L]
    <3>4. g.queue[i] = [wd |-> f.watch[Ino(f, Front(o))], kind |-> "delete", name |-> Last(o)] /\ o \in R /\ o = Append(Front(o), Last(o))
          /\ Front(o) \in Folders(f) /\ Watching(f, Front(o))
      BY <1>12, <3>2, <3>3
    <3> HIDE DEF o
    <3>8. g.queue[i].wd = f.watch[Ino(f, Front(o))] /\ g.queue[i].kind = "delete" /\ g.queue[i].name = Last(o)
      BY <3>4
    <3>5. f.watch[Ino(f, Front(o))] = f.watch[Ino(f, x)] /\ Last(o) = n
      BY <2>1, <3>1, <3>8
    <3>6. Ino(f, Front(o)) = Ino(f, x)
      BY <2>1, <3>4, <3>5 DEF Watches, Watching
    <3>7. Front(o) = x
      BY <2>1, <3>4, <3>6 DEF Folders, Ino, Card, Tree, Shaped
    <3> QED
      BY <3>4, <3>5, <3>7, <3>8
  <2>4. Append(x, n) \in R => new # {}
    <3> SUFFICES ASSUME Append(x, n) \in R PROVE new # {}
      OBVIOUS
    <3>1. Front(Append(x, n)) = x /\ Last(Append(x, n)) = n
      BY <2>2, InFolder
    <3>2. Append(x, n) \in Seen
      BY <2>1, <3>1 DEF Seen
    <3>3. PICK i \in DOMAIN order : order[i] = Append(x, n)
      BY <1>3, <3>2
    <3>4. g.queue[L + i].wd = w /\ g.queue[L + i].name = n
      <4>1. N[i] = [wd |-> f.watch[Ino(f, x)], kind |-> "delete", name |-> n]
        BY <1>12, <3>1, <3>3
      <4>2. g.queue[L + i] = N[i]
        BY <1>15
      <4> QED
        BY <2>1, <4>1, <4>2
    <3>5. L + i \in DOMAIN g.queue /\ L + i > L
      BY <1>3, <1>14, <1>15
    <3> QED
      BY <3>4, <3>5 DEF News, About
  <2>5. n \in Kids(g, x) <=> Append(x, n) \in DOMAIN f.disk /\ Append(x, n) \notin R
    BY <1>11 DEF HasCut, Kids
  <2>6. n \in Kids(f, x) <=> Append(x, n) \in DOMAIN f.disk
    BY DEF Kids
  <2>7. new = {} => (n \in Kids(g, x) <=> n \in Kids(f, x))
    BY <2>4, <2>5, <2>6
  <2>8. \A i \in new : (g.queue[i].kind = "create" <=> n \in Kids(g, x))
    BY <2>3, <2>5
  <2> QED
    BY <2>7, <2>8 DEF NewsTell
<1>19. ASSUME NEW x \in Folders(g), Watching(g, x) PROVE x \in Folders(f) /\ SameWatch(f, x, g, x)
  BY <1>11, <1>19 DEF HasCut, SameWatch, Watching
<1>20. StepsBut(f, g, {})
  BY <1>17, <1>18, <1>19 DEF StepsBut
<1>21. Tells(g)
  BY <1>16, <1>20, StepsTell
<1> QED
  BY <1>10, <1>11, <1>16, <1>20, <1>21 DEF g, R

-----------------------------------------------------------------------------
(* rename().                                                               *)

LEMMA MovedIs ==
  ASSUME NEW p \in Seq(Names), NEW q \in Seq(Names)
  PROVE  Moved(p, p, q) = q /\ \A n \in Names : Moved(Append(p, n), p, q) = Append(q, n)
<1>1. Moved(p, p, q) = q
  <2>1. SubSeq(p, Len(p) + 1, Len(p)) = <<>>
    BY SubSeqEmpty
  <2>2. q \o <<>> = q
    OBVIOUS
  <2> QED
    BY <2>1, <2>2 DEF Moved
<1>2. ASSUME NEW n \in Names PROVE Moved(Append(p, n), p, q) = Append(q, n)
  <2> DEFINE r == Append(p, n)
  <2>1. r \in Seq(Names) /\ Len(r) = Len(p) + 1 /\ r[Len(r)] = n /\ Len(r) \in Nat
    OBVIOUS
  <2> HIDE DEF r
  <2>2. SubSeq(r, Len(r), Len(r)) = <<n>>
    <3> DEFINE k == Len(r)
               t == SubSeq(r, k, k)
    <3>1. k \in Nat \ {0} /\ k \in Int /\ r[k] = n /\ k \in DOMAIN r
      BY <2>1
    <3> HIDE DEF k
    <3>2. t \in Seq(Names) /\ Len(t) = 1
      BY <2>1, <3>1
    <3>3. t[1] = r[k]
      BY <2>1, <3>1, <3>2
    <3> HIDE DEF t
    <3>4. t = <<n>>
      BY <3>1, <3>2, <3>3
    <3> QED
      BY <3>4 DEF t, k
  <2>3. q \o <<n>> = Append(q, n)
    OBVIOUS
  <2> QED
    BY <2>1, <2>2, <2>3 DEF Moved, r
<1> QED
  BY <1>1, <1>2

\* What a rename that can be done moves, and where to.
Stays(f, p, q) == DOMAIN f.disk \ (({p} \cup Below(f, p)) \cup {q})
CameFrom(f, p, q, r, s) ==
  \/ r \in Stays(f, p, q) /\ s = r
  \/ r = q /\ s = p
  \/ \E n \in Kids(f, p) : r = Append(q, n) /\ s = Append(p, n)
HasMoved(f, m, p, q) ==
  /\ DOMAIN m.disk = Stays(f, p, q) \cup {q} \cup {Append(q, n) : n \in Kids(f, p)}
  /\ \A r \in Stays(f, p, q) : m.disk[r] = f.disk[r]
  /\ m.disk[q] = f.disk[p]
  /\ \A n \in Kids(f, p) : m.disk[Append(q, n)] = f.disk[Append(p, n)]
  /\ m.inos = f.inos /\ m.wds = f.wds
  /\ DOMAIN m.watch = DOMAIN f.watch \ (IF q \in DOMAIN f.disk THEN {f.disk[q].ino} ELSE {})
  /\ \A i \in DOMAIN m.watch : m.watch[i] = f.watch[i]

\* Where the two paths of such a rename are.
LEMMA RenamePlaces ==
  ASSUME NEW f, Card(f), NEW p \in DOMAIN f.disk, NEW q \in Seq(Names), q # <<>>, p # q, CanRename(f, p, q)
  PROVE  /\ Below(f, p) = {Append(p, n) : n \in Kids(f, p)}
         /\ \A n \in Names : Append(q, n) \notin DOMAIN f.disk /\ Append(q, n) # p
         /\ \A n \in Names : Append(p, n) # q
         /\ Front(p) # q /\ Front(p) # p /\ Front(p) \notin Below(f, p)
         /\ Front(q) # p /\ Front(q) # q /\ Front(q) \notin Below(f, p)
         /\ Len(q) \in 1 .. MaxDepth /\ (f.disk[p].dir => Len(q) < MaxDepth)
         /\ Kids(f, p) # {} => f.disk[p].dir
         /\ \A n \in Kids(f, p) : ~ f.disk[Append(p, n)].dir
<1>1. /\ p \in Seq(Names) /\ Len(p) \in 1 .. 2 /\ p # <<>> /\ Front(p) \in Seq(Names) /\ p = Append(Front(p), Last(p))
      /\ Len(Front(p)) = Len(p) - 1 /\ f.disk[p].dir \in BOOLEAN /\ (f.disk[p].dir => Len(p) < 2) /\ Last(p) \in Names
      /\ Front(p) # <<>> => Front(p) \in DOMAIN f.disk /\ f.disk[Front(p)].dir
  BY Nodes DEF MaxDepth
<1>2. /\ Front(q) \in Seq(Names) /\ Last(q) \in Names /\ q = Append(Front(q), Last(q)) /\ Len(Front(q)) = Len(q) - 1 /\ Len(q) \in Nat \ {0}
  BY FolderAndName
<1>3. /\ IsDir(f, Front(q)) /\ q \notin Below(f, p)
      /\ Len(q) + (IF f.disk[p].dir THEN 1 ELSE 0) <= 2
      /\ q \in DOMAIN f.disk => f.disk[q].dir = f.disk[p].dir /\ Below(f, q) = {}
  BY DEF CanRename, MaxDepth
<1>4. Len(q) \in 1 .. MaxDepth /\ (f.disk[p].dir => Len(q) < MaxDepth)
  BY <1>2, <1>3 DEF MaxDepth
<1>5. Below(f, p) = {Append(p, n) : n \in Kids(f, p)}
  BY <1>1, BelowIsKids
<1>6. ASSUME NEW n \in Names PROVE Append(q, n) \notin DOMAIN f.disk
  <2> SUFFICES ASSUME Append(q, n) \in DOMAIN f.disk PROVE FALSE
    OBVIOUS
  <2>1. Front(Append(q, n)) = q
    BY InFolder
  <2>2. q \in DOMAIN f.disk
    BY <2>1, Nodes
  <2>3. Below(f, q) = {Append(q, i) : i \in Kids(f, q)}
    BY <2>2, BelowIsKids
  <2>4. n \in Kids(f, q)
    BY DEF Kids
  <2> QED
    BY <1>3, <2>2, <2>3, <2>4
<1>7. Front(p) # q
  BY <1>1, <1>6
<1>8. Front(q) # p
  <2> SUFFICES ASSUME Front(q) = p PROVE FALSE
    OBVIOUS
  <2>1. f.disk[p].dir
    BY <1>1, <1>3 DEF IsDir
  <2> QED
    BY <1>1, <1>2, <1>3, <2>1
<1>9. \A n \in Kids(f, p) : Len(Append(p, n)) = Len(p) + 1 /\ Append(p, n) \in DOMAIN f.disk /\ n \in Names /\ Front(Append(p, n)) = p
  BY <1>1, InFolder DEF Kids
<1>10. Front(p) # p /\ Front(p) \notin Below(f, p)
  BY <1>1, <1>5, <1>9
<1>11. Front(q) # q /\ Front(q) \notin Below(f, p)
  BY SMTT(30), <1>1, <1>2, <1>4, <1>5, <1>9 DEF MaxDepth
<1>12. \A n \in Names : Append(p, n) # q
  BY <1>1, <1>8, InFolder
<1>13. Kids(f, p) # {} => f.disk[p].dir
  BY <1>1, <1>9, Nodes
<1>14. \A n \in Kids(f, p) : ~ f.disk[Append(p, n)].dir
  BY <1>1, <1>9, Nodes DEF MaxDepth
<1> QED
  BY <1>1, <1>4, <1>5, <1>6, <1>7, <1>8, <1>10, <1>11, <1>12, <1>13, <1>14

Rearranged(f, p, q) ==
  [r \in Stays(f, p, q) \cup {Moved(s, p, q) : s \in {p} \cup Below(f, p)} |->
     f.disk[IF r \in Stays(f, p, q) THEN r ELSE Moved(r, q, p)]]
HasDisk(f, D, p, q) ==
  /\ DOMAIN D = Stays(f, p, q) \cup {q} \cup {Append(q, n) : n \in Kids(f, p)}
  /\ \A r \in Stays(f, p, q) : D[r] = f.disk[r]
  /\ D[q] = f.disk[p]
  /\ \A n \in Kids(f, p) : D[Append(q, n)] = f.disk[Append(p, n)]
  /\ IsFiniteSet(DOMAIN D)
LEMMA MovedDisk ==
  ASSUME NEW f, Card(f), NEW p \in DOMAIN f.disk, NEW q \in Seq(Names), q # <<>>, p # q, CanRename(f, p, q),
         NEW D, D = Rearranged(f, p, q)
  PROVE  HasDisk(f, D, p, q)
<1>1. p \in Seq(Names)
  BY Nodes
<1>2. Below(f, p) = {Append(p, n) : n \in Kids(f, p)} /\ \A n \in Kids(f, p) : n \in Names /\ Append(q, n) \notin DOMAIN f.disk
  BY RenamePlaces DEF Kids
<1> DEFINE M == {Moved(s, p, q) : s \in {p} \cup Below(f, p)}
<1>3. M = {q} \cup {Append(q, n) : n \in Kids(f, p)}
  <2>1. Moved(p, p, q) = q /\ \A n \in Kids(f, p) : Moved(Append(p, n), p, q) = Append(q, n)
    BY <1>1, <1>2, MovedIs
  <2> QED
    BY <1>2, <2>1
<1>4. DOMAIN D = Stays(f, p, q) \cup {q} \cup {Append(q, n) : n \in Kids(f, p)}
  BY <1>3 DEF Rearranged
<1>5. \A r \in Stays(f, p, q) : D[r] = f.disk[r]
  BY DEF Rearranged
<1>6. D[q] = f.disk[p]
  <2>1. q \notin Stays(f, p, q) /\ q \in M
    BY <1>3 DEF Stays
  <2> QED
    BY <1>1, <2>1, MovedIs DEF Rearranged
<1>7. ASSUME NEW n \in Kids(f, p) PROVE D[Append(q, n)] = f.disk[Append(p, n)]
  <2>1. Append(q, n) \notin Stays(f, p, q) /\ Append(q, n) \in M
    BY <1>2, <1>3 DEF Stays
  <2>2. Moved(Append(q, n), q, p) = Append(p, n)
    BY <1>1, <1>2, MovedIs
  <2> QED
    BY <2>1, <2>2 DEF Rearranged
<1>8. IsFiniteSet(DOMAIN D)
  <2>1. IsFiniteSet(DOMAIN f.disk)
    BY DEF Card, Tree
  <2>2. IsFiniteSet(Stays(f, p, q))
    BY <2>1, FS_Subset DEF Stays
  <2>3. IsFiniteSet({p} \cup Below(f, p))
    BY <2>1, FS_Subset DEF Below
  <2> DEFINE A == {p} \cup Below(f, p)
             g == [s \in A |-> Moved(s, p, q)]
  <2>4. g \in Surjection(A, M)
    BY DEF Surjection
  <2>5. IsFiniteSet(M)
    BY <2>3, <2>4, FS_Surjection
  <2>6. DOMAIN D = Stays(f, p, q) \cup M
    BY DEF Rearranged
  <2> QED
    BY <2>2, <2>5, <2>6, FS_Union
<1> QED
  BY <1>4, <1>5, <1>6, <1>7, <1>8 DEF HasDisk

\* The card after the move, before its two events.
LEMMA RenamedTree ==
  ASSUME NEW f, Card(f), Watches(f), NEW p \in DOMAIN f.disk, NEW q \in Seq(Names), q # <<>>, p # q, CanRename(f, p, q),
         NEW D, D = Rearranged(f, p, q),
         NEW over, over = (IF q \in DOMAIN f.disk THEN {f.disk[q].ino} ELSE {}),
         NEW m, m = Cut(f, D, Restrict(f.watch, DOMAIN f.watch \ over))
  PROVE  /\ Card(m) /\ Watches(m) /\ HasMoved(f, m, p, q)
         /\ StepsBut(f, m, {<<Front(p), Last(p)>>, <<Front(q), Last(q)>>})
<1> DEFINE W == Restrict(f.watch, DOMAIN f.watch \ over)
<1>1. DOMAIN W = DOMAIN f.watch \ over /\ \A i \in DOMAIN W : W[i] = f.watch[i]
  <2> DEFINE I == DOMAIN f.watch \ over
  <2>2. DOMAIN W = I /\ \A i \in I : W[i] = f.watch[i]
    BY RestrictDoes
  <2> QED
    BY <2>2
<1>2. m = Cut(f, D, W) /\ Shaped(f)
  BY DEF Card
<1> HIDE DEF W
<1>3. Shaped(m) /\ m.disk = D /\ m.inos = f.inos /\ m.queue = f.queue /\ m.watch = W /\ m.wds = f.wds
  BY <1>2, CutIs
<1> DEFINE S == Stays(f, p, q)
<1>4. /\ DOMAIN D = S \cup {q} \cup {Append(q, n) : n \in Kids(f, p)}
      /\ \A r \in S : D[r] = f.disk[r]
      /\ D[q] = f.disk[p]
      /\ \A n \in Kids(f, p) : D[Append(q, n)] = f.disk[Append(p, n)]
      /\ IsFiniteSet(DOMAIN D)
  <2>1. HasDisk(f, D, p, q)
    BY MovedDisk
  <2> QED
    BY <2>1 DEF HasDisk
<1>5. HasMoved(f, m, p, q)
  BY ZenonT(40), <1>1, <1>3, <1>4 DEF HasMoved
<1>6. /\ Below(f, p) = {Append(p, n) : n \in Kids(f, p)}
      /\ \A n \in Names : Append(q, n) \notin DOMAIN f.disk /\ Append(q, n) # p
      /\ \A n \in Names : Append(p, n) # q
      /\ Front(p) # q /\ Front(p) # p /\ Front(p) \notin Below(f, p)
      /\ Front(q) # p /\ Front(q) # q /\ Front(q) \notin Below(f, p)
      /\ Len(q) \in 1 .. MaxDepth /\ (f.disk[p].dir => Len(q) < MaxDepth)
      /\ Kids(f, p) # {} => f.disk[p].dir
      /\ \A n \in Kids(f, p) : ~ f.disk[Append(p, n)].dir
  BY RenamePlaces
<1>7. p \in Seq(Names) /\ p # <<>>
  BY Nodes
<1>8. \A n \in Kids(f, p) : n \in Names /\ Append(p, n) \in DOMAIN f.disk
  BY DEF Kids
<1>9. S \subseteq DOMAIN f.disk /\ p \notin S /\ q \notin S /\ S \cap Below(f, p) = {}
  BY DEF Stays
<1>10. ASSUME NEW r \in DOMAIN m.disk
       PROVE  \E s \in DOMAIN f.disk : CameFrom(f, p, q, r, s) /\ m.disk[r] = f.disk[s]
  <2>1. CASE r \in S
    BY <1>3, <1>4, <1>9, <2>1 DEF CameFrom
  <2>2. CASE r = q
    BY <1>3, <1>4, <2>2 DEF CameFrom
  <2>3. CASE r \in {Append(q, n) : n \in Kids(f, p)}
    <3>1. PICK n \in Kids(f, p) : r = Append(q, n)
      BY <2>3
    <3>2. m.disk[r] = f.disk[Append(p, n)] /\ Append(p, n) \in DOMAIN f.disk
      BY <1>3, <1>4, <1>8, <3>1
    <3>3. CameFrom(f, p, q, r, Append(p, n))
      BY <3>1 DEF CameFrom
    <3> QED
      BY <3>2, <3>3
  <2> QED
    BY <1>3, <1>4, <2>1, <2>2, <2>3
\* Two nodes that came from the same one are the same.
<1>11. ASSUME NEW r, NEW s, NEW t, CameFrom(f, p, q, r, s), CameFrom(f, p, q, t, s) PROVE r = t
  <2>1. \A n \in Kids(f, p) : Append(p, n) \in Below(f, p) /\ Append(p, n) # p
    BY <1>6, <1>7, <1>8 DEF Below
  <2>2. \A n, k \in Names : Append(p, n) = Append(p, k) => n = k
    <3>1. \A n \in Names : Last(Append(p, n)) = n
      BY <1>7, InFolder
    <3> QED
      BY <3>1
  <2>3. CASE s \in S
    <3>1. s # p /\ \A n \in Kids(f, p) : s # Append(p, n)
      BY <1>9, <2>1, <2>3
    <3> QED
      BY <1>11, <3>1 DEF CameFrom
  <2>4. CASE s = p
    <3>1. s \notin S /\ \A n \in Kids(f, p) : s # Append(p, n)
      BY <1>9, <2>1, <2>4
    <3> QED
      BY <1>11, <3>1 DEF CameFrom
  <2>5. CASE s \notin S /\ s # p
    <3>1. PICK n \in Kids(f, p) : r = Append(q, n) /\ s = Append(p, n)
      BY <1>11, <2>5 DEF CameFrom
    <3>2. PICK k \in Kids(f, p) : t = Append(q, k) /\ s = Append(p, k)
      BY <1>11, <2>5 DEF CameFrom
    <3>3. n = k
      BY <1>8, <2>2, <3>1, <3>2
    <3> QED
      BY <3>1, <3>2, <3>3
  <2> QED
    BY <2>3, <2>4, <2>5
<1>12. ASSUME NEW x, x = <<>> \/ x \in S PROVE IsDir(m, x) = IsDir(f, x) /\ Ino(m, x) = Ino(f, x)
  <2>1. CASE x = <<>>
    BY <2>1 DEF IsDir, Ino
  <2>2. CASE x \in S
    <3>1. x \in DOMAIN f.disk /\ x \in DOMAIN m.disk /\ m.disk[x] = f.disk[x]
      BY <1>3, <1>4, <1>9, <2>2
    <3> QED
      BY <3>1 DEF IsDir, Ino
  <2> QED
    BY <1>12, <2>1, <2>2
<1>13. ASSUME NEW r \in S PROVE Front(r) = <<>> \/ Front(r) \in S
  <2>1. r \in DOMAIN f.disk /\ r = Append(Front(r), Last(r)) /\ Last(r) \in Names
        /\ (Front(r) # <<>> => Front(r) \in DOMAIN f.disk)
    BY <1>9, Nodes
  <2>2. Front(r) # q
    BY <1>6, <2>1
  <2>3. Front(r) # p
    <3> SUFFICES ASSUME Front(r) = p PROVE FALSE
      OBVIOUS
    <3>1. Last(r) \in Kids(f, p) /\ r = Append(p, Last(r))
      BY <2>1 DEF Kids
    <3> QED
      BY <1>6, <1>9, <3>1
  <2>4. Front(r) \notin Below(f, p)
    BY <1>7, <1>9, <2>1, BelowCloses
  <2> QED
    BY <2>1, <2>2, <2>3, <2>4 DEF Stays
<1>14. IsDir(f, Front(q)) /\ (Front(q) = <<>> \/ Front(q) \in S) /\ IsDir(m, Front(q))
  <2>1. IsDir(f, Front(q))
    BY DEF CanRename
  <2>2. Front(q) = <<>> \/ Front(q) \in DOMAIN f.disk
    BY <2>1 DEF IsDir
  <2>3. Front(q) = <<>> \/ Front(q) \in S
    BY <1>6, <2>2 DEF Stays
  <2> QED
    BY <1>12, <2>1, <2>3
<1>15. Tree(m)
  <2>0. Tree(f)
    BY DEF Card
  <2>1. ASSUME NEW r \in DOMAIN m.disk
        PROVE  r \in Paths /\ m.disk[r] \in [dir : BOOLEAN, ino : 1 .. m.inos] /\ (m.disk[r].dir => Len(r) < MaxDepth) /\ IsDir(m, Front(r))
    <3>1. CASE r \in S
      <4>1. r \in DOMAIN f.disk /\ m.disk[r] = f.disk[r] /\ IsDir(f, Front(r)) /\ r \in Paths
        BY <1>3, <1>4, <1>9, <2>0, <3>1 DEF Tree
      <4>2. IsDir(m, Front(r))
        BY <1>12, <1>13, <3>1, <4>1
      <4> QED
        BY <1>3, <2>0, <4>1, <4>2 DEF Tree
    <3>2. CASE r = q
      <4>1. r \in Paths
        <5>1. r \in Seq(Names) /\ Len(r) \in 1 .. MaxDepth
          BY <1>6, <3>2
        <5> QED
          BY <5>1, PathsAre
      <4>2. m.disk[r] = f.disk[p]
        BY <1>3, <1>4, <3>2
      <4> QED
        BY <1>3, <1>6, <1>14, <2>0, <3>2, <4>1, <4>2 DEF Tree
    <3>3. CASE r \in {Append(q, n) : n \in Kids(f, p)}
      <4>1. PICK n \in Kids(f, p) : r = Append(q, n)
        BY <3>3
      <4>2. Front(r) = q /\ r \in Seq(Names) /\ Len(r) = Len(q) + 1
        BY <1>8, <4>1, InFolder
      <4>3. f.disk[p].dir
        BY <1>6
      <4>4. IsDir(m, q)
        BY <1>3, <1>4, <4>3 DEF IsDir
      <4>5. r \in Paths
        <5>1. Len(q) \in 1 .. MaxDepth /\ Len(q) < MaxDepth
          BY <1>6, <4>3
        <5>2. Len(r) \in 1 .. MaxDepth
          BY <4>2, <5>1 DEF MaxDepth
        <5> QED
          BY <4>2, <5>2, PathsAre
      <4>6. m.disk[r] = f.disk[Append(p, n)] /\ Append(p, n) \in DOMAIN f.disk
        BY <1>3, <1>4, <1>8, <4>1
      <4> QED
        BY <1>3, <1>6, <2>0, <4>1, <4>2, <4>4, <4>5, <4>6 DEF Tree
    <3> QED
      BY <1>3, <1>4, <3>1, <3>2, <3>3
  <2>2. ASSUME NEW r \in DOMAIN m.disk, NEW t \in DOMAIN m.disk, m.disk[r].ino = m.disk[t].ino PROVE r = t
    <3>1. PICK a \in DOMAIN f.disk : CameFrom(f, p, q, r, a) /\ m.disk[r] = f.disk[a]
      BY <1>10
    <3>2. PICK b \in DOMAIN f.disk : CameFrom(f, p, q, t, b) /\ m.disk[t] = f.disk[b]
      BY <1>10
    <3>3. a = b
      BY <2>0, <2>2, <3>1, <3>2 DEF Tree
    <3> QED
      BY <1>11, <3>1, <3>2, <3>3
  <2> QED
    BY ZenonT(40), <1>3, <1>4, <2>1, <2>2 DEF Tree
\* A folder and where it was.
<1>16. ASSUME NEW y \in Folders(f), y # q
       PROVE  \E x \in Folders(m) : Ino(m, x) = Ino(f, y)
  <2>1. CASE y = <<>> \/ y \in S
    <3>1. y \in Folders(m)
      BY <1>3, <1>4, <2>1 DEF Folders
    <3> QED
      BY <1>12, <2>1, <3>1
  <2>2. CASE y = p
    <3>1. q \in Folders(m) /\ Ino(m, q) = f.disk[p].ino
      BY <1>3, <1>4, <1>7, <2>2 DEF Folders, Ino
    <3>2. Ino(f, y) = f.disk[p].ino
      BY <1>7, <2>2 DEF Ino
    <3> QED
      BY <3>1, <3>2
  <2>3. y \notin Below(f, p)
    <3> SUFFICES ASSUME y \in Below(f, p) PROVE FALSE
      OBVIOUS
    <3>1. y \in DOMAIN f.disk /\ ~ f.disk[y].dir
      BY <1>6 DEF Below
    <3>2. y = <<>>
      BY <3>1 DEF Folders
    <3> QED
      BY <3>1, <3>2, Nodes
  <2> QED
    BY <1>16, <2>1, <2>2, <2>3 DEF Folders, Stays
<1>17. Watches(m)
  <2>1. EventsOf(m) = EventsOf(f)
    BY <1>3 DEF EventsOf
  <2>2. ASSUME NEW i \in DOMAIN m.watch PROVE i \in {Ino(m, x) : x \in Folders(m)}
    <3>1. i \in DOMAIN f.watch /\ i \notin over
      BY <1>1, <1>3
    <3>2. PICK y \in Folders(f) : i = Ino(f, y)
      BY <3>1 DEF Watches
    <3>3. y # q
      <4>1. y = q => q \in DOMAIN f.disk /\ Ino(f, y) = f.disk[q].ino
        BY DEF Folders, Ino
      <4> QED
        BY <3>1, <3>2, <4>1
    <3> QED
      BY <1>16, <3>2, <3>3
  <2>3. \A i \in DOMAIN m.watch : i \in DOMAIN f.watch /\ m.watch[i] = f.watch[i]
    BY <1>1, <1>3
  <2>4. \A i \in DOMAIN m.watch : m.watch[i] \in 1 .. m.wds
    BY <1>3, <2>3 DEF Watches
  <2>5. ASSUME NEW i \in DOMAIN m.watch, NEW j \in DOMAIN m.watch, m.watch[i] = m.watch[j] PROVE i = j
    BY ZenonT(40), <2>3, <2>5 DEF Watches
  <2>6. m.queue \in Seq(EventsOf(m))
    BY <1>3, <2>1 DEF Watches
  <2> QED
    BY <2>2, <2>4, <2>5, <2>6 DEF Watches
<1> DEFINE T == {<<Front(p), Last(p)>>, <<Front(q), Last(q)>>}
<1>18. ASSUME NEW x \in Folders(m), Watching(m, x)
       PROVE  \E y \in Folders(f) : SameWatch(f, y, m, x)
                /\ \A n \in Names : <<x, n>> \notin T => (n \in Kids(m, x) <=> n \in Kids(f, y))
  <2>1. CASE x = <<>> \/ x \in S
    <3>1. x \in Folders(f)
      BY <1>3, <1>4, <1>9, <2>1 DEF Folders
    <3>2. Watching(f, x) /\ SameWatch(f, x, m, x)
      <4>1. IsDir(f, x) /\ Ino(m, x) = Ino(f, x)
        BY <1>12, <1>18, <2>1 DEF Watching
      <4> QED
        BY <1>1, <1>3, <1>18, <3>1, <4>1 DEF Watching, SameWatch
    <3>3. ASSUME NEW n \in Names, <<x, n>> \notin T PROVE n \in Kids(m, x) <=> n \in Kids(f, x)
      <4>1. x \in Seq(Names)
        <5>1. x # <<>> => x \in DOMAIN f.disk
          BY <1>9, <2>1
        <5>2. x \in DOMAIN f.disk => x \in Seq(Names)
          BY Nodes
        <5>3. <<>> \in Seq(Names)
          OBVIOUS
        <5> QED
          BY <5>1, <5>2, <5>3
      <4>2. Front(Append(x, n)) = x /\ Last(Append(x, n)) = n
        BY <4>1, InFolder
      <4>3. Append(x, n) # p /\ Append(x, n) # q
        BY <3>3, <4>2
      <4>4. Append(x, n) \notin {Append(q, k) : k \in Kids(f, p)}
        <5> SUFFICES ASSUME NEW k \in Kids(f, p), Append(x, n) = Append(q, k) PROVE FALSE
          OBVIOUS
        <5>1. Front(Append(q, k)) = q
          BY <1>8, InFolder
        <5> QED
          BY <1>9, <2>1, <4>2, <5>1
      <4>5. Append(x, n) \notin Below(f, p)
        <5> SUFFICES ASSUME NEW k \in Kids(f, p), Append(x, n) = Append(p, k) PROVE FALSE
          BY <1>6
        <5>1. Front(Append(p, k)) = p
          BY <1>7, <1>8, InFolder
        <5> QED
          BY <1>7, <1>9, <2>1, <4>2, <5>1
      <4> QED
        BY <1>3, <1>4, <4>3, <4>4, <4>5 DEF Kids, Stays
    <3> QED
      BY <3>1, <3>2, <3>3
  <2>2. CASE x = q
    <3>1. p \in Folders(f) /\ Ino(m, x) = Ino(f, p)
      BY <1>3, <1>4, <1>7, <2>2 DEF Folders, Ino
    <3>2. SameWatch(f, p, m, x)
      <4>1. IsDir(f, p)
        BY <1>7, <3>1 DEF Folders, IsDir
      <4> QED
        BY <1>1, <1>3, <1>18, <3>1, <4>1 DEF Watching, SameWatch
    <3>3. ASSUME NEW n \in Names PROVE n \in Kids(m, x) <=> n \in Kids(f, p)
      <4>1. Append(q, n) \notin S /\ Append(q, n) # q
        <5>1. Front(Append(q, n)) = q
          BY InFolder
        <5> QED
          BY <1>6, <1>9, <5>1
      <4>2. Append(q, n) \in {Append(q, k) : k \in Kids(f, p)} <=> n \in Kids(f, p)
        <5>1. \A k \in Names : Last(Append(q, k)) = k
          BY InFolder
        <5> QED
          BY <1>8, <5>1
      <4> QED
        BY <1>3, <1>4, <2>2, <4>1, <4>2 DEF Kids
    <3> QED
      BY <3>1, <3>2, <3>3
  <2>3. ASSUME x \in {Append(q, n) : n \in Kids(f, p)} PROVE FALSE
    <3>1. PICK n \in Kids(f, p) : x = Append(q, n)
      BY <2>3
    <3>2. m.disk[x] = f.disk[Append(p, n)]
      BY <1>3, <1>4, <3>1
    <3>3. x # <<>>
      BY <1>8, <3>1, InFolder
    <3> QED
      BY <1>6, <3>2, <3>3 DEF Folders
  <2> QED
    BY <1>3, <1>4, <2>1, <2>2, <2>3 DEF Folders
<1>19. StepsBut(f, m, T)
  BY <1>3, <1>18, QuietSteps
<1> QED
  BY <1>3, <1>5, <1>15, <1>17, <1>19 DEF Card

LEMMA RenameDoes ==
  ASSUME NEW f, Card(f), Watches(f), Tells(f), NEW p \in DOMAIN f.disk, NEW q \in Seq(Names), q # <<>>, p # q, CanRename(f, p, q)
  PROVE  LET g == Rename(f, p, q) IN
         Card(g) /\ Watches(g) /\ StepsBut(f, g, {}) /\ Tells(g) /\ HasMoved(f, g, p, q)
<1>0. PICK D : D = Rearranged(f, p, q)
  OBVIOUS
<1>1. PICK over : over = (IF q \in DOMAIN f.disk THEN {f.disk[q].ino} ELSE {})
  OBVIOUS
<1>2. PICK m : m = Cut(f, D, Restrict(f.watch, DOMAIN f.watch \ over))
  OBVIOUS
<1> DEFINE g == Told(m, p, "delete")
           e == Told(g, q, "create")
           P == <<Front(p), Last(p)>>
           Q == <<Front(q), Last(q)>>
<1>3. Card(m) /\ Watches(m) /\ HasMoved(f, m, p, q) /\ StepsBut(f, m, {P, Q})
  BY <1>0, <1>1, <1>2, RenamedTree
<1>4. m.queue = f.queue
  BY <1>2, CutIs DEF Card
<1>5. e = Rename(f, p, q)
  BY <1>0, <1>1, <1>2 DEF Rename, Cut, Rearranged, Stays
<1>6. g.disk = m.disk /\ g.watch = m.watch /\ g.inos = m.inos /\ g.wds = m.wds /\ Shaped(g)
      /\ g.queue \in {m.queue, Append(m.queue, Notice(m, p, "delete"))}
  BY <1>3, ToldIs DEF Card
<1>7. Card(g)
  BY <1>3, <1>6, SameNodes DEF Card
<1>8. p \in Seq(Names) /\ p # <<>> /\ Front(p) \in Seq(Names) /\ Last(p) \in Names /\ p = Append(Front(p), Last(p))
      /\ (Front(p) # <<>> => Front(p) \in DOMAIN f.disk /\ f.disk[Front(p)].dir)
  BY Nodes
<1>9. /\ Front(p) # q /\ Front(p) # p /\ Front(p) \notin Below(f, p)
      /\ Front(q) # p /\ Front(q) # q /\ Front(q) \notin Below(f, p)
  BY RenamePlaces
<1>10. Front(p) \in Folders(m)
  <2>1. Front(p) # <<>> => Front(p) \in Stays(f, p, q)
    BY <1>8, <1>9 DEF Stays
  <2> QED
    BY <1>3, <1>8, <2>1 DEF HasMoved, Folders
<1>11. Last(p) \notin Kids(m, Front(p))
  <2>1. p \notin Stays(f, p, q)
    BY DEF Stays
  <2>2. \A n \in Kids(f, p) : p # Append(q, n)
    BY RenamePlaces DEF Kids
  <2>3. p \notin DOMAIN m.disk
    BY <1>3, <2>1, <2>2 DEF HasMoved
  <2> QED
    BY <1>8, <2>3 DEF Kids
<1>12. Watches(g) /\ StepsBut(f, g, {Q})
  <2>1. {Q} \cup {P} = {P, Q}
    OBVIOUS
  <2> QED
    BY <1>3, <1>4, <1>8, <1>10, <1>11, <2>1, ToldSteps
<1>13. Front(q) \in Folders(g) /\ Last(q) \in Kids(g, Front(q))
  <2>1. Front(q) \in Seq(Names) /\ Last(q) \in Names /\ q = Append(Front(q), Last(q))
    BY FolderAndName
  <2>2. Front(q) = <<>> \/ (Front(q) \in DOMAIN f.disk /\ f.disk[Front(q)].dir)
    BY DEF CanRename, IsDir
  <2>3. Front(q) # <<>> => Front(q) \in Stays(f, p, q)
    BY <1>9, <2>2 DEF Stays
  <2>4. Front(q) \in Folders(m)
    BY <1>3, <2>2, <2>3 DEF HasMoved, Folders
  <2>5. q \in DOMAIN m.disk
    BY <1>3 DEF HasMoved
  <2> QED
    BY <1>6, <2>1, <2>4, <2>5 DEF Folders, Kids
<1>14. g.queue # <<>> /\ Last(g.queue) = Notice(g, q, "create") => g.queue = f.queue
  <2> SUFFICES ASSUME g.queue = Append(m.queue, Notice(m, p, "delete")), Last(g.queue) = Notice(g, q, "create") PROVE FALSE
    BY <1>4, <1>6
  <2>1. m.queue \in Seq(EventsOf(m))
    BY <1>3 DEF Watches
  <2>2. Last(g.queue) = Notice(m, p, "delete")
    BY <2>1 DEF Last
  <2>3. Notice(m, p, "delete").kind = "delete" /\ Notice(g, q, "create").kind = "create"
    BY DEF Notice
  <2> QED
    BY <2>2, <2>3
<1>15. Watches(e) /\ StepsBut(f, e, {})
  <2>1. {} \cup {Q} = {Q}
    OBVIOUS
  <2> HIDE DEF g
  <2> QED
    BY <1>7, <1>12, <1>13, <1>14, <2>1, ToldSteps
<1>16. e.disk = g.disk /\ e.watch = g.watch /\ e.inos = g.inos /\ e.wds = g.wds /\ Shaped(e)
  <2> HIDE DEF g
  <2> QED
    BY <1>7, ToldIs DEF Card
<1>17. Card(e)
  BY <1>7, <1>16, SameNodes DEF Card
<1>18. HasMoved(f, e, p, q)
  BY <1>3, <1>6, <1>16 DEF HasMoved
<1>19. Tells(e)
  BY <1>15, StepsTell
<1> HIDE DEF e
<1> QED
  BY <1>5, <1>15, <1>17, <1>18, <1>19

-----------------------------------------------------------------------------
(* Watches come and go.                                                    *)

LEMMA AddWatchDoes ==
  ASSUME NEW f, Card(f), Watches(f), Tells(f), NEW p
  PROVE  LET g == AddWatch(f, p) IN
         /\ Card(g) /\ Watches(g) /\ g.disk = f.disk /\ g.inos = f.inos /\ g.queue = f.queue
         /\ f.wds <= g.wds /\ g.wds \in Nat
         /\ IsDir(f, p) => Watching(g, p)
         /\ \A i \in DOMAIN f.watch : i \in DOMAIN g.watch /\ g.watch[i] = f.watch[i]
         /\ \A i \in DOMAIN g.watch \ DOMAIN f.watch : i = Ino(f, p) /\ g.watch[i] = f.wds + 1 /\ IsDir(f, p)
<1> DEFINE W == With(f.watch, Ino(f, p), f.wds + 1)
<1>1. PICK g : g = AddWatch(f, p)
  OBVIOUS
<1>2. CASE ~ IsDir(f, p) \/ Watching(f, p)
  BY <1>1, <1>2 DEF AddWatch, Card, Shaped
<1>3. CASE IsDir(f, p) /\ ~ Watching(f, p)
  <2>1. g = Rewatched(f, W, f.wds + 1)
    BY <1>1, <1>3 DEF AddWatch, Rewatched
  <2>2. /\ DOMAIN W = DOMAIN f.watch \cup {Ino(f, p)} /\ W[Ino(f, p)] = f.wds + 1
        /\ \A y \in DOMAIN f.watch : y # Ino(f, p) => W[y] = f.watch[y]
    BY DEF With
  <2>3. Shaped(f) /\ f.wds \in Nat /\ f.wds + 1 \in Nat
    BY DEF Card, Shaped
  <2> HIDE DEF W
  <2>4. Shaped(g) /\ g.disk = f.disk /\ g.inos = f.inos /\ g.queue = f.queue /\ g.watch = W /\ g.wds = f.wds + 1
    BY <2>1, <2>3, RewatchedIs
  <2>5. Ino(f, p) \notin DOMAIN f.watch /\ p \in Folders(f)
    BY <1>3 DEF Watching, Folders, IsDir
  <2>6. Card(g)
    BY <2>4, SameNodes DEF Card
  <2>7. Watches(g)
    <3>1. \A i \in DOMAIN f.watch : f.watch[i] \in 1 .. f.wds
      BY DEF Watches
    <3>2. DOMAIN g.watch \subseteq {Ino(g, x) : x \in Folders(g)}
      <4>1. {Ino(g, x) : x \in Folders(g)} = {Ino(f, x) : x \in Folders(f)}
        <5>1. Folders(g) = Folders(f) /\ \A x : Ino(g, x) = Ino(f, x)
          BY <2>4, SameNodes DEF Folders
        <5> QED
          BY <5>1
      <4> QED
        BY <2>2, <2>4, <2>5, <4>1 DEF Watches
    <3>3. \A i \in DOMAIN g.watch : g.watch[i] \in 1 .. g.wds
      BY <2>2, <2>3, <2>4, <2>5, <3>1
    <3>4. ASSUME NEW i \in DOMAIN g.watch, NEW j \in DOMAIN g.watch, g.watch[i] = g.watch[j] PROVE i = j
      <4>1. \A k \in DOMAIN f.watch : f.watch[k] # f.wds + 1
        BY <2>3, <3>1
      <4> QED
        BY <2>2, <2>4, <2>5, <3>4, <4>1 DEF Watches
    <3>5. g.queue \in Seq(EventsOf(g))
      <4>1. EventsOf(f) \subseteq EventsOf(g)
        BY <2>3, <2>4 DEF EventsOf
      <4>2. f.queue \in Seq(EventsOf(f))
        BY DEF Watches
      <4> QED
        BY <2>4, <4>1, <4>2
    <3> QED
      BY <3>2, <3>3, <3>4, <3>5 DEF Watches
  <2>8. Watching(g, p)
    BY <1>3, <2>2, <2>4 DEF Watching, IsDir, Ino
  <2> QED
    BY <1>1, <1>3, <2>2, <2>3, <2>4, <2>5, <2>6, <2>7, <2>8
<1> QED
  BY <1>2, <1>3

LEMMA RmWatchDoes ==
  ASSUME NEW f, Card(f), Watches(f), NEW ws
  PROVE  LET g == RmWatch(f, ws) IN
         /\ Card(g) /\ Watches(g) /\ g.disk = f.disk /\ g.inos = f.inos /\ g.queue = f.queue /\ g.wds = f.wds
         /\ DOMAIN g.watch = {i \in DOMAIN f.watch : f.watch[i] \notin ws}
         /\ \A i \in DOMAIN g.watch : g.watch[i] = f.watch[i]
<1> DEFINE I == {i \in DOMAIN f.watch : f.watch[i] \notin ws}
           W == Restrict(f.watch, I)
<1>1. PICK g : g = RmWatch(f, ws)
  OBVIOUS
<1>2. g = Unwatched(f, W)
  BY <1>1 DEF RmWatch, Unwatched
<1>3. DOMAIN W = I /\ \A i \in I : W[i] = f.watch[i]
  BY RestrictDoes
<1> HIDE DEF W
<1>4. Shaped(f)
  BY DEF Card
<1>5. Shaped(g) /\ g.disk = f.disk /\ g.inos = f.inos /\ g.queue = f.queue /\ g.watch = W /\ g.wds = f.wds
  BY <1>2, <1>4, UnwatchedIs
<1>6. Card(g)
  BY <1>5, SameNodes DEF Card
<1>7. Watches(g)
  <2>1. Folders(g) = Folders(f) /\ (\A x : Ino(g, x) = Ino(f, x)) /\ EventsOf(g) = EventsOf(f)
    BY <1>5, SameNodes DEF Folders, EventsOf
  <2>2. \A i \in DOMAIN g.watch : i \in DOMAIN f.watch /\ g.watch[i] = f.watch[i]
    BY <1>3, <1>5
  <2>3. DOMAIN g.watch \subseteq {Ino(g, x) : x \in Folders(g)}
    BY <2>1, <2>2 DEF Watches
  <2>4. \A i \in DOMAIN g.watch : g.watch[i] \in 1 .. g.wds
    BY <1>5, <2>2 DEF Watches
  <2>5. ASSUME NEW i \in DOMAIN g.watch, NEW j \in DOMAIN g.watch, g.watch[i] = g.watch[j] PROVE i = j
    BY <2>2, <2>5 DEF Watches
  <2>6. g.queue \in Seq(EventsOf(g))
    BY <1>5, <2>1 DEF Watches
  <2> QED
    BY <2>3, <2>4, <2>5, <2>6 DEF Watches
<1> QED
  BY <1>1, <1>3, <1>5, <1>6, <1>7

\* Without new events, with watches that were there, what was told stays so.
LEMMA FewerTell ==
  ASSUME NEW f, NEW g, Card(f), Watches(f), Tells(f), g.disk = f.disk, g.inos = f.inos, g.queue = f.queue,
         \A i \in DOMAIN g.watch : i \in DOMAIN f.watch /\ g.watch[i] = f.watch[i]
  PROVE  Tells(g)
<1> SUFFICES ASSUME NEW x \in Folders(g), Watching(g, x), NEW i \in DOMAIN g.queue,
                    g.queue[i].wd = g.watch[Ino(g, x)], LastAbout(g.queue, i)
             PROVE  g.queue[i].kind = "create" <=> g.queue[i].name \in Kids(g, x)
  BY DEF Tells
<1>1. x \in Folders(f) /\ Ino(g, x) = Ino(f, x) /\ Kids(g, x) = Kids(f, x) /\ IsDir(g, x) = IsDir(f, x)
  BY SameNodes DEF Folders
<1>2. Watching(f, x) /\ g.watch[Ino(g, x)] = f.watch[Ino(f, x)]
  BY <1>1 DEF Watching
<1> QED
  BY <1>1, <1>2 DEF Tells

\* A watch that is new has no event yet.
LEMMA AddWatchTells ==
  ASSUME NEW f, Card(f), Watches(f), Tells(f), NEW p
  PROVE  Tells(AddWatch(f, p))
<1>1. PICK g : g = AddWatch(f, p)
  OBVIOUS
<1>2. /\ Card(g) /\ Watches(g) /\ g.disk = f.disk /\ g.inos = f.inos /\ g.queue = f.queue
      /\ \A i \in DOMAIN f.watch : i \in DOMAIN g.watch /\ g.watch[i] = f.watch[i]
      /\ \A i \in DOMAIN g.watch \ DOMAIN f.watch : i = Ino(f, p) /\ g.watch[i] = f.wds + 1 /\ IsDir(f, p)
  BY <1>1, AddWatchDoes
<1> SUFFICES ASSUME NEW x \in Folders(g), Watching(g, x), NEW i \in DOMAIN g.queue,
                    g.queue[i].wd = g.watch[Ino(g, x)], LastAbout(g.queue, i)
             PROVE  g.queue[i].kind = "create" <=> g.queue[i].name \in Kids(g, x)
  BY <1>1 DEF Tells
<1>3. x \in Folders(f) /\ Ino(g, x) = Ino(f, x) /\ Kids(g, x) = Kids(f, x) /\ IsDir(g, x) = IsDir(f, x)
  BY <1>2, SameNodes DEF Folders
<1>4. f.queue \in Seq(EventsOf(f)) /\ f.wds \in Nat
  BY DEF Watches, Card, Shaped
<1>5. f.queue[i].wd \in 1 .. f.wds
  <2>1. f.queue[i] \in EventsOf(f)
    BY <1>2, <1>4
  <2> QED
    BY <2>1 DEF EventsOf
<1>6. Ino(g, x) \in DOMAIN f.watch
  BY <1>2, <1>4, <1>5 DEF Watching
<1>7. Watching(f, x) /\ g.watch[Ino(g, x)] = f.watch[Ino(f, x)]
  BY <1>2, <1>3, <1>6 DEF Watching
<1> QED
  BY <1>2, <1>3, <1>7 DEF Tells

-----------------------------------------------------------------------------
(* The database: handles are dense, a parent is older than its children.   *)

Db(d) ==
  /\ Cardinality(DOMAIN d) \in Nat /\ DOMAIN d = 0 .. (Cardinality(DOMAIN d) - 1)
  /\ \A h \in DOMAIN d :
       d[h] \in Entry /\ (h # 0 => d[h].parent < h) /\ (d[h].dir = FALSE => d[h].wd = NoWd)
  /\ 0 \in DOMAIN d => d[0].parent = 0 /\ d[0].name = NoName /\ d[0].live = TRUE /\ d[0].dir = TRUE

LEMMA Entries ==
  ASSUME NEW d, Db(d), NEW h \in DOMAIN d
  PROVE  /\ h \in Nat /\ d[h].parent \in DOMAIN d /\ d[h].name \in Names \cup {NoName} /\ d[h].filed \in Range(Bucket)
         /\ d[h].dir \in BOOLEAN /\ d[h].live \in BOOLEAN /\ d[h].wd \in Nat /\ d[h].parent \in Nat
         /\ d[h].parent < h \/ (h = 0 /\ d[h].parent = 0)
         /\ 0 \in DOMAIN d /\ h < Cardinality(DOMAIN d)
<1>1. Cardinality(DOMAIN d) \in Nat /\ DOMAIN d = 0 .. (Cardinality(DOMAIN d) - 1)
  BY DEF Db
<1>2. h \in Nat /\ 0 \in DOMAIN d /\ h < Cardinality(DOMAIN d)
  BY <1>1
<1>3. d[h] \in Entry
  BY DEF Db
<1>4. /\ d[h].parent \in Nat /\ d[h].name \in Names \cup {NoName} /\ d[h].filed \in Range(Bucket)
      /\ d[h].dir \in BOOLEAN /\ d[h].live \in BOOLEAN /\ d[h].wd \in Nat
  BY <1>3 DEF Entry
<1>5. d[h].parent < h \/ (h = 0 /\ d[h].parent = 0)
  BY <1>2 DEF Db
<1>6. d[h].parent \in DOMAIN d
  BY <1>1, <1>2, <1>4, <1>5
<1> QED
  BY <1>2, <1>4, <1>5, <1>6

PathStep(d, g, i) ==
  LET up == IF d[i].parent # 0 /\ d[d[i].parent].live THEN g[d[i].parent] ELSE <<>>
  IN IF i = 0 \/ d[i].name = NoName THEN up ELSE Append(up, d[i].name)

\* The paths of the first k handles.
PathsUpTo(d, k, g) == g \in [0 .. k - 1 -> Seq(Names)] /\ \A i \in 0 .. k - 1 : g[i] = PathStep(d, g, i)

LEMMA OnePathMore ==
  ASSUME NEW d, Db(d), NEW k \in Nat, k + 1 <= Cardinality(DOMAIN d), NEW g, PathsUpTo(d, k, g)
  PROVE  \E e : PathsUpTo(d, k + 1, e)
<1> DEFINE e == [i \in 0 .. k |-> IF i < k THEN g[i] ELSE PathStep(d, g, k)]
<1>1. k \in DOMAIN d
  BY DEF Db
<1>2. /\ d[k].parent \in Nat /\ (d[k].parent < k \/ (k = 0 /\ d[k].parent = 0))
      /\ d[k].name \in Names \cup {NoName}
  BY <1>1, Entries
<1>3. g \in [0 .. k - 1 -> Seq(Names)] /\ \A i \in 0 .. k - 1 : g[i] = PathStep(d, g, i)
  BY DEF PathsUpTo
<1>4. PathStep(d, g, k) \in Seq(Names)
  <2> DEFINE up == IF d[k].parent # 0 /\ d[d[k].parent].live THEN g[d[k].parent] ELSE <<>>
  <2>1. up \in Seq(Names)
    <3>1. d[k].parent # 0 => d[k].parent \in 0 .. k - 1
      BY <1>2
    <3>2. <<>> \in Seq(Names)
      OBVIOUS
    <3> QED
      BY <1>3, <3>1, <3>2
  <2> HIDE DEF up
  <2>2. d[k].name # NoName => Append(up, d[k].name) \in Seq(Names)
    BY <1>2, <2>1
  <2> QED
    BY <2>1, <2>2 DEF PathStep, up
<1>5. e \in [0 .. k -> Seq(Names)]
  BY <1>3, <1>4
<1>6. ASSUME NEW i \in 0 .. k PROVE e[i] = PathStep(d, e, i)
  <2>1. i \in DOMAIN d
    BY <1>6 DEF Db
  <2>2. d[i].parent \in Nat /\ (d[i].parent < i \/ (i = 0 /\ d[i].parent = 0))
    BY <2>1, Entries
  <2>3. d[i].parent # 0 => d[i].parent \in 0 .. k - 1 /\ e[d[i].parent] = g[d[i].parent]
    BY <2>2
  <2>4. PathStep(d, e, i) = PathStep(d, g, i)
    <3> HIDE DEF e
    <3> QED
      BY <2>3 DEF PathStep
  <2>5. CASE i < k
    BY <1>3, <2>4, <2>5
  <2>6. CASE i = k
    BY <2>4, <2>6
  <2> QED
    BY <2>5, <2>6
<1>7. k + 1 - 1 = k
  OBVIOUS
<1> HIDE DEF e
<1>8. PathsUpTo(d, k + 1, e)
  BY <1>5, <1>6, <1>7 DEF PathsUpTo
<1> QED
  BY <1>8

LEMMA PathsExist ==
  ASSUME NEW d, Db(d)
  PROVE  \E g : PathsUpTo(d, Cardinality(DOMAIN d), g)
<1> DEFINE N == Cardinality(DOMAIN d)
           S == {k \in 0 .. N : \E g : PathsUpTo(d, k, g)}
<1>1. N \in Nat
  BY DEF Db
<1> HIDE DEF N
<1>2. 0 \in S
  <2>1. PathsUpTo(d, 0, [i \in 0 .. (0 - 1) |-> <<>>])
    BY DEF PathsUpTo
  <2> QED
    BY <1>1, <2>1
<1>3. ASSUME NEW n \in 1 .. N, n - 1 \in S PROVE n \in S
  <2>1. PICK g : PathsUpTo(d, n - 1, g)
    BY <1>3
  <2>2. n - 1 \in Nat /\ n - 1 + 1 = n /\ n <= N
    BY <1>1
  <2>3. \E e : PathsUpTo(d, n - 1 + 1, e)
    BY <2>1, <2>2, OnePathMore DEF N
  <2> QED
    BY <1>1, <2>2, <2>3
<1> HIDE DEF S
<1>4. \A n \in 0 .. N : n \in S
  BY <1>1, <1>2, <1>3, UpTo
<1>5. N \in S
  BY <1>1, <1>4
<1> QED
  BY <1>5 DEF S, N

LEMMA PathChosen ==
  ASSUME NEW d, NEW g, g = [i \in DOMAIN d |-> PathStep(d, g, i)]
  PROVE  \E p : p = [i \in DOMAIN d |-> PathStep(d, p, i)] /\ \A h : build_full_path(d, h) = p[h]
<1> DEFINE path[i \in DOMAIN d] ==
             LET up == IF d[i].parent # 0 /\ d[d[i].parent].live THEN path[d[i].parent] ELSE <<>>
             IN IF i = 0 \/ d[i].name = NoName THEN up ELSE Append(up, d[i].name)
           Is(p) == p = [i \in DOMAIN d |->
             LET up == IF d[i].parent # 0 /\ d[d[i].parent].live THEN p[d[i].parent] ELSE <<>>
             IN IF i = 0 \/ d[i].name = NoName THEN up ELSE Append(up, d[i].name)]
<1>1. \A h : build_full_path(d, h) = path[h]
  BY Zenon DEF build_full_path
<1>2. path = CHOOSE p : Is(p)
  OBVIOUS
<1>3. Is(g)
  BY DEF PathStep
<1>4. Is(CHOOSE p : Is(p))
  <2> HIDE DEF Is
  <2> QED
    BY <1>3
<1>5. Is(path)
  BY <1>2, <1>4, Zenon
<1>6. path = [i \in DOMAIN d |-> PathStep(d, path, i)]
  BY <1>5 DEF PathStep
<1> HIDE DEF path
<1> QED
  BY <1>1, <1>6

\* build_full_path, unfolded once.
Up(d, h) == IF d[h].parent # 0 /\ d[d[h].parent].live THEN build_full_path(d, d[h].parent) ELSE <<>>
LEMMA PathIs ==
  ASSUME NEW d, Db(d), NEW h \in DOMAIN d
  PROVE  build_full_path(d, h) = IF h = 0 \/ d[h].name = NoName THEN Up(d, h) ELSE Append(Up(d, h), d[h].name)
<1>1. DOMAIN d = 0 .. (Cardinality(DOMAIN d) - 1)
  BY DEF Db
<1>2. PICK g : PathsUpTo(d, Cardinality(DOMAIN d), g)
  BY PathsExist
<1>3. g = [i \in DOMAIN d |-> PathStep(d, g, i)]
  BY <1>1, <1>2 DEF PathsUpTo
<1>4. PICK p : p = [i \in DOMAIN d |-> PathStep(d, p, i)] /\ \A i : build_full_path(d, i) = p[i]
  BY <1>3, PathChosen
<1>5. p[h] = PathStep(d, p, h)
  BY <1>4
<1> QED
  BY <1>4, <1>5 DEF PathStep, Up

LEMMA PathTypes ==
  ASSUME NEW d, Db(d)
  PROVE  \A h \in DOMAIN d : build_full_path(d, h) \in Seq(Names) /\ Up(d, h) \in Seq(Names)
<1> DEFINE T == {h \in DOMAIN d : build_full_path(d, h) \notin Seq(Names)}
<1>1. \A h \in DOMAIN d : h \in Nat
  BY Entries
<1>2. ASSUME NEW h \in DOMAIN d, \A i \in DOMAIN d : i < h => build_full_path(d, i) \in Seq(Names)
      PROVE  Up(d, h) \in Seq(Names) /\ build_full_path(d, h) \in Seq(Names)
  <2>1. /\ d[h].parent \in DOMAIN d /\ d[h].name \in Names \cup {NoName}
        /\ d[h].parent < h \/ (h = 0 /\ d[h].parent = 0)
    BY Entries
  <2>2. <<>> \in Seq(Names)
    OBVIOUS
  <2>3. Up(d, h) \in Seq(Names)
    BY <1>2, <2>1, <2>2 DEF Up
  <2>4. build_full_path(d, h) = IF h = 0 \/ d[h].name = NoName THEN Up(d, h) ELSE Append(Up(d, h), d[h].name)
    BY PathIs
  <2> HIDE DEF Up
  <2> QED
    BY <2>1, <2>3, <2>4
<1>3. T = {}
  <2> SUFFICES ASSUME T # {} PROVE FALSE
    OBVIOUS
  <2>1. PICK h \in T : \A i \in T : h <= i
    BY <1>1, NatMin
  <2>2. \A i \in DOMAIN d : i < h => i \notin T
    BY <1>1, <2>1
  <2>3. build_full_path(d, h) \in Seq(Names)
    BY <1>2, <2>2
  <2> QED
    BY <2>3
<1>4. \A h \in DOMAIN d : build_full_path(d, h) \in Seq(Names)
  BY <1>3
<1>5. \A h \in DOMAIN d : Up(d, h) \in Seq(Names)
  BY <1>2, <1>4
<1> QED
  BY <1>4, <1>5

-----------------------------------------------------------------------------
(* What an operation does to the database.                                 *)

LEMMA HandleMax ==
  ASSUME NEW L \in Nat, NEW T, T \subseteq 0 .. L, T # {}
  PROVE  \E x \in T : \A y \in T : y <= x
<1> DEFINE U == {L - x : x \in T}
<1>1. U \subseteq Nat /\ U # {}
  <2>1. ASSUME NEW x \in T PROVE L - x \in Nat
    <3>1. x \in 0 .. L
      OBVIOUS
    <3> QED
      BY <3>1
  <2> QED
    BY <2>1
<1>2. PICK u \in U : \A y \in U : u <= y
  BY <1>1, NatMin
<1>3. PICK x \in T : u = L - x
  OBVIOUS
<1>4. ASSUME NEW y \in T PROVE y <= x
  <2>1. L - y \in U /\ x \in 0 .. L /\ y \in 0 .. L
    OBVIOUS
  <2> QED
    BY <1>2, <1>3, <2>1
<1> QED
  BY <1>4

LEMMA MinIn ==
  ASSUME NEW T, T \subseteq Nat, T # {}
  PROVE  Min(T) \in T
BY NatMin DEF Min

\* Some handles of a database: the greatest is one of them.
LEMMA MaxIn ==
  ASSUME NEW d, Db(d), NEW T, T \subseteq DOMAIN d, T # {}
  PROVE  Max(T) \in T /\ \A y \in T : y <= Max(T)
<1>1. PICK N \in Nat : DOMAIN d = 0 .. (N - 1)
  BY DEF Db
<1>2. N - 1 \in Nat /\ T \subseteq 0 .. (N - 1)
  <2>1. N # 0
    BY <1>1
  <2> QED
    BY <1>1, <2>1
<1> DEFINE M == N - 1
<1> HIDE DEF M
<1>3. \E x \in T : \A y \in T : y <= x
  <2>1. M \in Nat /\ T \subseteq 0 .. M
    BY <1>2 DEF M
  <2> QED
    BY <2>1, HandleMax
<1>4. \E x \in T : \A y \in T : x >= y
  <2>1. \A x, y \in T : x \in Int /\ y \in Int
    BY <1>1
  <2> QED
    BY <1>3, <2>1
<1>5. Max(T) \in T /\ \A y \in T : Max(T) >= y
  BY <1>4 DEF Max
<1>6. \A y \in T : y \in Int
  BY <1>1
<1> QED
  BY <1>5, <1>6

\* More entries, for names that have none yet, each with a name of its own.
More(d, e) ==
  /\ Db(e) /\ DOMAIN d \subseteq DOMAIN e /\ \A h \in DOMAIN d : e[h] = d[h]
  /\ \A c \in DOMAIN e \ DOMAIN d :
       /\ c # 0 /\ e[c].live /\ e[c].wd = NoWd /\ e[c].filed = Bucket[e[c].name]
       /\ e[c].parent \in DOMAIN d /\ find_entry(d, e[c].name, e[c].parent) = {}
  /\ \A b, c \in DOMAIN e \ DOMAIN d : e[b].name = e[c].name => b = c

\* Entries that differ in their watches, and less of them live.
Less(d, e) ==
  /\ Db(e) /\ DOMAIN e = DOMAIN d
  /\ \A h \in DOMAIN d :
       /\ e[h].parent = d[h].parent /\ e[h].name = d[h].name /\ e[h].filed = d[h].filed /\ e[h].dir = d[h].dir
       /\ e[h].live => d[h].live

TwinFree(d, R) ==
  \A g, h \in DOMAIN d \ {0} :
    (/\ g # h /\ d[g].live /\ d[h].live
     /\ d[g].parent = d[h].parent /\ d[g].name = d[h].name) => g \in R \/ h \in R
FiledIn(d, R) == \A h \in DOMAIN d \ {0} : h \notin R => d[h].filed = Bucket[d[h].name]

LEMMA MoreKeeps ==
  ASSUME NEW d, Db(d), NEW e, More(d, e), NEW R, FiledIn(d, R), TwinFree(d, R)
  PROVE  FiledIn(e, R) /\ TwinFree(e, R)
<1>1. FiledIn(e, R)
  BY DEF FiledIn, More
<1>2. ASSUME NEW g \in DOMAIN d \ {0}, NEW c \in DOMAIN e \ DOMAIN d, d[g].live,
             d[g].parent = e[c].parent, d[g].name = e[c].name, g \notin R
      PROVE  FALSE
  <2>1. d[g].filed = Bucket[d[g].name]
    BY <1>2 DEF FiledIn
  <2>2. g \in find_entry(d, e[c].name, e[c].parent)
    BY <1>2, <2>1 DEF find_entry
  <2> QED
    BY <2>2 DEF More
<1>3. ASSUME NEW g \in DOMAIN e \ {0}, NEW h \in DOMAIN e \ {0}, g # h, e[g].live, e[h].live,
             e[g].parent = e[h].parent, e[g].name = e[h].name, g \notin R, h \notin R
      PROVE  FALSE
  <2>1. CASE g \in DOMAIN d /\ h \in DOMAIN d
    BY <1>3, <2>1 DEF More, TwinFree
  <2>2. CASE g \in DOMAIN d /\ h \notin DOMAIN d
    BY <1>2, <1>3, <2>2 DEF More
  <2>3. CASE g \notin DOMAIN d /\ h \in DOMAIN d
    BY <1>2, <1>3, <2>3 DEF More
  <2>4. CASE g \notin DOMAIN d /\ h \notin DOMAIN d
    BY <1>3, <2>4 DEF More
  <2> QED
    BY <2>1, <2>2, <2>3, <2>4
<1>4. TwinFree(e, R)
  BY <1>3 DEF TwinFree
<1> QED
  BY <1>1, <1>4

LEMMA LessKeeps ==
  ASSUME NEW d, NEW e, Less(d, e), NEW R, FiledIn(d, R), TwinFree(d, R)
  PROVE  FiledIn(e, R) /\ TwinFree(e, R)
<1>1. FiledIn(e, R)
  BY DEF FiledIn, Less
<1>2. ASSUME NEW g \in DOMAIN e \ {0}, NEW h \in DOMAIN e \ {0}, g # h, e[g].live, e[h].live,
             e[g].parent = e[h].parent, e[g].name = e[h].name
      PROVE  g \in R \/ h \in R
  <2>1. g \in DOMAIN d \ {0} /\ h \in DOMAIN d \ {0} /\ d[g].live /\ d[h].live
        /\ d[g].parent = d[h].parent /\ d[g].name = d[h].name
    BY <1>2 DEF Less
  <2> QED
    BY <1>2, <2>1 DEF TwinFree
<1>3. TwinFree(e, R)
  BY <1>2 DEF TwinFree
<1> QED
  BY <1>1, <1>3

LEMMA FiledTypes == \A n \in Names \cup {NoName} : Bucket[n] \in Range(Bucket)
BY MtpFilesAssumption DEF Range

\* add_entry.
LEMMA AddDoes ==
  ASSUME NEW d, Db(d), NEW h \in DOMAIN d, NEW name \in Names \cup {NoName}, NEW dir \in BOOLEAN,
         NEW e, e = add_entry(d, name, h, dir)
  PROVE  /\ More(d, e)
         /\ find_entry(e, name, h) # {} /\ find_entry(e, name, h) \subseteq DOMAIN e \ {0}
         /\ find_entry(d, name, h) # {} => e = d
         /\ find_entry(d, name, h) = {} =>
              \E c \in DOMAIN e : /\ DOMAIN e = DOMAIN d \cup {c} /\ c \notin DOMAIN d
                                  /\ e[c].name = name /\ e[c].parent = h /\ e[c].dir = dir
<1> DEFINE N == Cardinality(DOMAIN d)
           v == [parent |-> h, name |-> name, filed |-> Bucket[name], dir |-> dir, live |-> TRUE, wd |-> NoWd]
<1>1. N \in Nat /\ DOMAIN d = 0 .. (N - 1) /\ h \in Nat /\ h < N /\ N # 0
  BY Entries DEF Db
<1>2. find_entry(e, name, h) \subseteq DOMAIN e \ {0}
  BY DEF find_entry
<1>3. CASE find_entry(d, name, h) # {}
  <2>1. e = d
    BY <1>3 DEF add_entry
  <2>2. More(d, d)
    BY DEF More
  <2> QED
    BY <1>2, <1>3, <2>1, <2>2
<1>4. CASE find_entry(d, name, h) = {}
  <2>1. e = With(d, N, v)
    BY <1>4 DEF add_entry, alloc_entry
  <2> HIDE DEF N, v
  <2>2. DOMAIN e = DOMAIN d \cup {N} /\ e[N] = v /\ \A y \in DOMAIN d : y # N => e[y] = d[y]
    BY <2>1 DEF With
  <2>3. N \notin DOMAIN d
    BY <1>1
  <2>4. \A y \in DOMAIN d : e[y] = d[y]
    BY <2>2, <2>3
  <2>5. v \in Entry /\ v.parent = h /\ v.live = TRUE /\ v.wd = NoWd /\ v.name = name /\ v.filed = Bucket[name] /\ v.dir = dir
    BY <1>1, FiledTypes DEF Entry, v, NoWd
  <2>6. Cardinality(DOMAIN e) = N + 1 /\ DOMAIN e = 0 .. (N + 1 - 1)
    <3>1. DOMAIN e = 0 .. N
      BY <1>1, <2>2
    <3>2. Cardinality(0 .. N) = IF 0 > N THEN 0 ELSE N - 0 + 1
      BY <1>1, FS_Interval
    <3> QED
      BY <1>1, <3>1, <3>2
  <2>7. Db(e)
    <3>1. \A c \in DOMAIN e : e[c] \in Entry /\ (c # 0 => e[c].parent < c) /\ (e[c].dir = FALSE => e[c].wd = NoWd)
      BY <1>1, <2>2, <2>4, <2>5 DEF Db
    <3>2. 0 \in DOMAIN d
      BY <1>1
    <3> QED
      BY <1>1, <2>4, <2>6, <3>1, <3>2 DEF Db
  <2>8. More(d, e)
    BY <1>1, <1>4, <2>2, <2>3, <2>4, <2>5, <2>7 DEF More
  <2>9. N \in find_entry(e, name, h)
    BY <1>1, <2>2, <2>5 DEF find_entry
  <2> QED
    BY <1>2, <1>4, <2>2, <2>3, <2>5, <2>8, <2>9
<1> QED
  BY <1>3, <1>4

\* scan_and_add_folder's first pass.
FirstPass(d, e, f, p, h) ==
  /\ \A c \in DOMAIN e \ DOMAIN d :
       e[c].parent = h /\ e[c].name \in Missing(d, f, p, h) /\ e[c].dir = IsDir(f, Append(p, e[c].name))
  /\ \A n \in Missing(d, f, p, h) : \E c \in DOMAIN e \ DOMAIN d : e[c].name = n
LEMMA ScanDoes ==
  ASSUME NEW d, Db(d), NEW h \in DOMAIN d, NEW f, Card(f), NEW p \in Seq(Names),
         NEW order \in SetToSeqs(Missing(d, f, p, h)), NEW e, e = ScanAdd(d, f, p, h, order)
  PROVE  More(d, e) /\ FirstPass(d, e, f, p, h)
<1> DEFINE N == Cardinality(DOMAIN d)
           L == Len(order)
           M == Missing(d, f, p, h)
<1>1. N \in Nat /\ DOMAIN d = 0 .. (N - 1) /\ h \in Nat /\ h < N /\ N # 0
  BY Entries DEF Db
<1>2. IsFiniteSet(M) /\ \A n \in M : n \in Names /\ find_entry(d, n, h) = {}
  <2>1. IsFiniteSet(Kids(f, p)) /\ Kids(f, p) \subseteq Names
    BY FewKids DEF Kids
  <2>2. M \subseteq Kids(f, p)
    BY DEF Missing
  <2>3. \A n \in M : find_entry(d, n, h) = {}
    BY DEF Missing
  <2> QED
    BY <2>1, <2>2, <2>3, FS_Subset
<1>3. /\ L \in Nat /\ DOMAIN order = 1 .. L
      /\ \A i \in DOMAIN order : order[i] \in M
      /\ \A i, j \in DOMAIN order : order[i] = order[j] => i = j
      /\ \A x \in M : \E i \in DOMAIN order : order[i] = x
  BY <1>2, OrdersAre
<1> DEFINE v(n) == [parent |-> h, name |-> n, filed |-> Bucket[n], dir |-> IsDir(f, Append(p, n)), live |-> TRUE, wd |-> NoWd]
<1>4. /\ DOMAIN e = DOMAIN d \cup (N .. (N + L - 1))
      /\ \A c \in DOMAIN d : e[c] = d[c]
      /\ \A c \in N .. (N + L - 1) : c \notin DOMAIN d => e[c] = v(order[c - N + 1])
  BY DEF ScanAdd
<1> HIDE DEF N, L, M, v
<1>5. \A c \in N .. (N + L - 1) : c \notin DOMAIN d /\ c - N + 1 \in 1 .. L /\ c # 0
  BY <1>1, <1>3
<1>6. ASSUME NEW c \in N .. (N + L - 1)
      PROVE  /\ e[c] = v(order[c - N + 1]) /\ order[c - N + 1] \in M
             /\ e[c].name = order[c - N + 1] /\ e[c] \in Entry
             /\ e[c].parent = h /\ e[c].live = TRUE /\ e[c].wd = NoWd /\ e[c].filed = Bucket[e[c].name]
             /\ e[c].dir = IsDir(f, Append(p, e[c].name))
  <2> DEFINE n == order[c - N + 1]
  <2>1. e[c] = v(n) /\ n \in M
    BY <1>3, <1>4, <1>5
  <2> HIDE DEF n
  <2>2. n \in Names
    BY <1>2, <2>1
  <2>3. IsDir(f, Append(p, n)) \in BOOLEAN
    <3>1. Append(p, n) # <<>>
      BY <2>2, InFolder
    <3>2. Append(p, n) \in DOMAIN f.disk => f.disk[Append(p, n)].dir \in BOOLEAN
      BY Nodes
    <3> QED
      BY <3>1, <3>2 DEF IsDir
  <2>4. v(n) \in Entry /\ v(n).parent = h /\ v(n).live = TRUE /\ v(n).wd = NoWd /\ v(n).name = n /\ v(n).filed = Bucket[n]
        /\ v(n).dir = IsDir(f, Append(p, n))
    BY <1>1, <2>2, <2>3, FiledTypes DEF Entry, v, NoWd
  <2> QED
    BY <2>1, <2>4 DEF n
<1>7. DOMAIN e \ DOMAIN d = N .. (N + L - 1)
  BY <1>4, <1>5
<1>8. Cardinality(DOMAIN e) = N + L /\ DOMAIN e = 0 .. (N + L - 1)
  <2>1. DOMAIN e = 0 .. (N + L - 1)
    BY <1>1, <1>3, <1>4
  <2>2. Cardinality(0 .. (N + L - 1)) = IF 0 > N + L - 1 THEN 0 ELSE N + L - 1 - 0 + 1
    BY <1>1, <1>3, FS_Interval
  <2> QED
    BY <1>1, <1>3, <2>1, <2>2
<1>9. Db(e)
  <2>1. ASSUME NEW c \in DOMAIN e PROVE e[c] \in Entry /\ (c # 0 => e[c].parent < c) /\ (e[c].dir = FALSE => e[c].wd = NoWd)
    <3>1. CASE c \in DOMAIN d
      BY <1>4, <3>1 DEF Db
    <3>2. CASE c \in N .. (N + L - 1)
      <4>1. e[c] \in Entry /\ e[c].parent = h /\ e[c].wd = NoWd
        BY <1>6, <3>2
      <4>2. h < c
        BY <1>1, <1>3, <3>2
      <4> QED
        BY <4>1, <4>2
    <3> QED
      BY <1>4, <3>1, <3>2
  <2>2. 0 \in DOMAIN d
    BY <1>1
  <2>3. N + L \in Nat
    BY <1>1, <1>3
  <2>4. e[0].parent = 0 /\ e[0].name = NoName /\ e[0].live = TRUE /\ e[0].dir = TRUE
    BY <1>4, <2>2 DEF Db
  <2>5. Cardinality(DOMAIN e) \in Nat /\ DOMAIN e = 0 .. (Cardinality(DOMAIN e) - 1)
    <3> DEFINE C == Cardinality(DOMAIN e)
               K == N + L
    <3>1. C = K /\ DOMAIN e = 0 .. (K - 1) /\ K \in Nat
      BY <1>1, <1>3, <1>8, <2>3
    <3> HIDE DEF C, K
    <3>2. C \in Nat /\ DOMAIN e = 0 .. (C - 1)
      BY <3>1
    <3> QED
      BY <3>2 DEF C
  <2> QED
    BY <2>1, <2>4, <2>5 DEF Db
<1>10. ASSUME NEW b \in DOMAIN e \ DOMAIN d, NEW c \in DOMAIN e \ DOMAIN d, e[b].name = e[c].name PROVE b = c
  <2>1. b \in N .. (N + L - 1) /\ c \in N .. (N + L - 1)
    BY <1>7
  <2>2. order[b - N + 1] = order[c - N + 1]
    BY <1>6, <1>10, <2>1
  <2>3. b - N + 1 = c - N + 1
    BY <1>3, <1>5, <2>1, <2>2
  <2> QED
    BY <1>1, <2>1, <2>3
<1>11. More(d, e)
  <2>1. ASSUME NEW c \in DOMAIN e \ DOMAIN d
        PROVE  c # 0 /\ e[c].live /\ e[c].wd = NoWd /\ e[c].filed = Bucket[e[c].name]
               /\ e[c].parent \in DOMAIN d /\ find_entry(d, e[c].name, e[c].parent) = {}
    BY <1>2, <1>5, <1>6, <1>7
  <2> QED
    BY <1>4, <1>9, <1>10, <2>1 DEF More
<1>12. FirstPass(d, e, f, p, h)
  <2>1. \A c \in DOMAIN e \ DOMAIN d : e[c].parent = h /\ e[c].name \in M /\ e[c].dir = IsDir(f, Append(p, e[c].name))
    BY <1>6, <1>7
  <2>2. ASSUME NEW n \in M PROVE \E c \in DOMAIN e \ DOMAIN d : e[c].name = n
    <3>1. PICK i \in 1 .. L : order[i] = n
      BY <1>3
    <3>2. i + N - 1 \in N .. (N + L - 1) /\ (i + N - 1) - N + 1 = i
      BY <1>1, <1>3
    <3> DEFINE c == i + N - 1
    <3>3. c \in N .. (N + L - 1) /\ c - N + 1 = i
      BY <3>2
    <3> HIDE DEF c
    <3>4. e[c].name = n
      BY <1>6, <3>1, <3>3
    <3> QED
      BY <1>7, <3>3, <3>4
  <2> QED
    BY <2>1, <2>2 DEF FirstPass, M
<1> QED
  BY <1>11, <1>12

\* Entries flagged deleted.
Flagged(d, e, hs, h) ==
  /\ e[h] \in Entry
  /\ e[h].parent = d[h].parent /\ e[h].name = d[h].name /\ e[h].filed = d[h].filed /\ e[h].dir = d[h].dir
  /\ h \in hs => e[h].live = FALSE /\ e[h].wd = NoWd
  /\ h \notin hs => e[h] = d[h]
Flags(d, e, hs) == \A h \in DOMAIN d : Flagged(d, e, hs, h)
LEMMA FlagDoes ==
  ASSUME NEW d, Db(d), NEW hs, 0 \notin hs, NEW e, e = Flag(d, hs)
  PROVE  Less(d, e) /\ Flags(d, e, hs)
<1>1. DOMAIN e = DOMAIN d /\ \A h \in DOMAIN d : e[h] = IF h \in hs THEN [d[h] EXCEPT !.live = FALSE, !.wd = NoWd] ELSE d[h]
  BY DEF Flag
<1>2. ASSUME NEW h \in DOMAIN d
      PROVE  Flagged(d, e, hs, h)
  <2>1. d[h] \in Entry
    BY DEF Db
  <2>2. CASE h \in hs
    <3>1. e[h] = [d[h] EXCEPT !.live = FALSE, !.wd = NoWd]
      BY <1>1, <2>2
    <3> DEFINE v == d[h]
               u == e[h]
    <3>2. v \in Entry /\ u = [v EXCEPT !.live = FALSE, !.wd = NoWd]
      BY <2>1, <3>1
    <3> HIDE DEF u, v
    <3>3. /\ u \in Entry /\ u.parent = v.parent /\ u.name = v.name /\ u.filed = v.filed /\ u.dir = v.dir
          /\ u.live = FALSE /\ u.wd = NoWd
      BY <3>2 DEF Entry, NoWd
    <3> QED
      BY <2>2, <3>3 DEF Flagged, u, v
  <2>3. CASE h \notin hs
    <3>1. e[h] = d[h]
      BY <1>1, <2>3
    <3> QED
      BY <2>1, <2>3, <3>1 DEF Flagged
  <2> QED
    BY <2>2, <2>3
<1>3. Db(e)
  <2>1. ASSUME NEW h \in DOMAIN e PROVE e[h] \in Entry /\ (h # 0 => e[h].parent < h) /\ (e[h].dir = FALSE => e[h].wd = NoWd)
    <3>1. h \in DOMAIN d
      BY <1>1
    <3>2. (h # 0 => d[h].parent < h) /\ (d[h].dir = FALSE => d[h].wd = NoWd)
      BY <3>1 DEF Db
    <3>3. Flagged(d, e, hs, h)
      BY <1>2, <3>1
    <3> QED
      BY <3>1, <3>2, <3>3 DEF Flagged
  <2>2. 0 \in DOMAIN e => Flagged(d, e, hs, 0)
    BY <1>1, <1>2
  <2> QED
    BY <1>1, <2>1, <2>2 DEF Db, Flagged
<1>4. Less(d, e)
  BY <1>1, <1>2, <1>3 DEF Less, Flagged
<1> QED
  BY <1>2, <1>4 DEF Flags

\* An entry's watch, and an entry's name.
HasWd(d, e, h, w) ==
  /\ \A g \in DOMAIN d : e[g].live = d[g].live
  /\ e[h].wd = w /\ \A g \in DOMAIN d : g # h => e[g] = d[g]
LEMMA SetWdDoes ==
  ASSUME NEW d, Db(d), NEW h \in DOMAIN d, d[h].dir, NEW w \in Nat, NEW e, e = [d EXCEPT ![h].wd = w]
  PROVE  Less(d, e) /\ HasWd(d, e, h, w)
<1>1. DOMAIN e = DOMAIN d /\ e[h] = [d[h] EXCEPT !.wd = w] /\ \A g \in DOMAIN d : g # h => e[g] = d[g]
  OBVIOUS
<1>2. d[h] \in Entry
  BY DEF Db
<1>3. /\ e[h] \in Entry /\ e[h].wd = w
      /\ e[h].parent = d[h].parent /\ e[h].name = d[h].name /\ e[h].filed = d[h].filed /\ e[h].dir = d[h].dir /\ e[h].live = d[h].live
  BY <1>1, <1>2 DEF Entry
<1>4. \A g \in DOMAIN e : e[g] \in Entry /\ (g # 0 => e[g].parent < g) /\ (e[g].dir = FALSE => e[g].wd = NoWd)
  BY <1>1, <1>3 DEF Db
<1>5. Db(e)
  BY <1>1, <1>3, <1>4 DEF Db
<1> QED
  BY <1>1, <1>3, <1>5 DEF Less, HasWd

HasName(d, e, h, n) ==
  /\ DOMAIN e = DOMAIN d /\ \A g \in DOMAIN d : g # h => e[g] = d[g]
  /\ e[h].name = n /\ e[h].parent = d[h].parent /\ e[h].filed = d[h].filed
  /\ e[h].live = d[h].live /\ e[h].dir = d[h].dir /\ e[h].wd = d[h].wd
LEMMA SetNameDoes ==
  ASSUME NEW d, Db(d), NEW h \in DOMAIN d, h # 0, NEW n \in Names \cup {NoName}, NEW e, e = [d EXCEPT ![h].name = n]
  PROVE  Db(e) /\ HasName(d, e, h, n)
<1>1. DOMAIN e = DOMAIN d /\ e[h] = [d[h] EXCEPT !.name = n] /\ \A g \in DOMAIN d : g # h => e[g] = d[g]
  OBVIOUS
<1>2. d[h] \in Entry
  BY DEF Db
<1>3. /\ e[h] \in Entry /\ e[h].name = n
      /\ e[h].parent = d[h].parent /\ e[h].filed = d[h].filed /\ e[h].dir = d[h].dir /\ e[h].live = d[h].live /\ e[h].wd = d[h].wd
  BY <1>1, <1>2 DEF Entry
<1>4. \A g \in DOMAIN e : e[g] \in Entry /\ (g # 0 => e[g].parent < g) /\ (e[g].dir = FALSE => e[g].wd = NoWd)
  BY <1>1, <1>3 DEF Db
<1>5. Db(e)
  BY <1>1, <1>3, <1>4 DEF Db
<1> QED
  BY <1>1, <1>3, <1>5 DEF HasName

LEMMA RenamedKeeps ==
  ASSUME NEW d, NEW h \in DOMAIN d, NEW n, NEW e, HasName(d, e, h, n),
         NEW R, FiledIn(d, R), TwinFree(d, R), NEW Q, Q = R \cup {h}
  PROVE  FiledIn(e, Q) /\ TwinFree(e, Q)
<1>1. DOMAIN e = DOMAIN d /\ \A g \in DOMAIN d : g # h => e[g] = d[g]
  BY DEF HasName
<1>2. FiledIn(e, Q)
  BY <1>1 DEF FiledIn
<1>3. ASSUME NEW a \in DOMAIN e \ {0}, NEW b \in DOMAIN e \ {0}, a # b, e[a].live, e[b].live,
             e[a].parent = e[b].parent, e[a].name = e[b].name, a \notin Q, b \notin Q
      PROVE  FALSE
  BY <1>1, <1>3 DEF TwinFree
<1> QED
  BY <1>2, <1>3 DEF TwinFree

\* An event that was handled goes.
LEMMA PopDoes ==
  ASSUME NEW f, Card(f), Watches(f), Tells(f), f.queue # <<>>, NEW g, g = [f EXCEPT !.queue = Tail(@)]
  PROVE  /\ Card(g) /\ Watches(g) /\ Tells(g) /\ g.disk = f.disk /\ g.inos = f.inos /\ g.wds = f.wds /\ g.watch = f.watch
         /\ Len(g.queue) = Len(f.queue) - 1 /\ \A i \in DOMAIN g.queue : g.queue[i] = f.queue[i + 1]
<1> DEFINE Q == Tail(f.queue)
<1>1. f.queue \in Seq(EventsOf(f)) /\ Len(f.queue) \in Nat \ {0} /\ DOMAIN f.queue = 1 .. Len(f.queue)
  BY DEF Watches
<1>2. /\ Q \in Seq(EventsOf(f)) /\ Len(Q) = Len(f.queue) - 1 /\ DOMAIN Q = 1 .. Len(f.queue) - 1
      /\ \A i \in 1 .. Len(f.queue) - 1 : Q[i] = f.queue[i + 1]
  BY <1>1
<1>3. PICK m : m = Queued(f, Q)
  OBVIOUS
<1>9. g = m /\ Shaped(f)
  BY <1>3 DEF Queued, Card
<1> HIDE DEF Q
<1>10. Shaped(m) /\ m.disk = f.disk /\ m.inos = f.inos /\ m.queue = Q /\ m.watch = f.watch /\ m.wds = f.wds
  BY <1>3, <1>9, QueuedIs
<1>4. Shaped(g) /\ g.disk = f.disk /\ g.inos = f.inos /\ g.queue = Q /\ g.watch = f.watch /\ g.wds = f.wds
  BY <1>9, <1>10, Zenon
<1>5. Card(g)
  BY <1>4, SameNodes DEF Card
<1>6. Folders(g) = Folders(f) /\ (\A x : Ino(g, x) = Ino(f, x) /\ Kids(g, x) = Kids(f, x) /\ Watching(g, x) = Watching(f, x)) /\ EventsOf(g) = EventsOf(f)
  BY <1>4, SameNodes DEF Folders, EventsOf
<1>7. Watches(g)
  <2>1. Watches(f)
    OBVIOUS
  <2>2. {Ino(g, x) : x \in Folders(g)} = {Ino(f, x) : x \in Folders(f)}
    BY <1>6
  <2> QED
    BY <1>2, <1>4, <1>6, <2>1, <2>2 DEF Watches
<1>8. Tells(g)
  <2> SUFFICES ASSUME NEW x \in Folders(f), Watching(f, x), NEW i \in DOMAIN g.queue,
                      g.queue[i].wd = f.watch[Ino(f, x)], LastAbout(g.queue, i)
               PROVE  g.queue[i].kind = "create" <=> g.queue[i].name \in Kids(f, x)
    <3>1. g.watch = f.watch
      BY <1>4
    <3> QED
      BY ZenonT(40), <1>6, <3>1 DEF Tells
  <2>1. i \in 1 .. Len(f.queue) - 1 /\ i + 1 \in DOMAIN f.queue /\ g.queue[i] = f.queue[i + 1]
    BY <1>1, <1>2, <1>4
  <2> DEFINE k == i + 1
  <2>2. k \in DOMAIN f.queue /\ g.queue[i] = f.queue[k]
    BY <2>1
  <2>3. LastAbout(f.queue, k)
    <3> SUFFICES ASSUME NEW j \in DOMAIN f.queue, j > k, About(f.queue[j], f.queue[k].wd, f.queue[k].name) PROVE FALSE
      BY DEF LastAbout
    <3>1. j - 1 \in DOMAIN g.queue /\ g.queue[j - 1] = f.queue[j - 1 + 1] /\ j - 1 > i /\ j - 1 + 1 = j
      BY SMTT(30), <1>1, <1>2, <1>4, <2>1
    <3>2. About(g.queue[j - 1], g.queue[i].wd, g.queue[i].name)
      BY <2>2, <3>1
    <3> QED
      BY <3>1, <3>2 DEF LastAbout
  <2> HIDE DEF k
  <2> QED
    BY <2>2, <2>3 DEF Tells
<1> QED
  BY <1>2, <1>4, <1>5, <1>7, <1>8

-----------------------------------------------------------------------------
(* The inductive invariant of the database.                                *)

\* The card and its events; the database; what the threads hold.
CardIn(f) == Card(f) /\ Watches(f) /\ Tells(f)
DbIn(d, R, w, t) ==
  /\ Db(d) /\ FiledIn(d, R) /\ TwinFree(d, R) /\ (d = <<>> \/ 0 \in DOMAIN d)
  /\ \A h \in DOMAIN d : d[h].wd <= w
  /\ t \subseteq DOMAIN d \ {0}
Datasets == [name : Names, dir : BOOLEAN]
OpIn(o, d, R) ==
  /\ o \in [pc : {"idle", "drop", "watch", "rmdir", "rename"}, h : Nat, ok : BOOLEAN, old : Names \cup {NoName},
            from : Seq(Names), to : Seq(Names)]
  /\ o.pc # "idle" => o.h \in DOMAIN d
  /\ o.pc \in {"rmdir", "rename"} => o.h # 0
  /\ o.pc = "rename" => o.h \in R /\ o.to # <<>>
\* An entry whose ObjectAdded is on its way is live, and one whose ObjectRemoved is on its way
\* is not, unless the host is to miss the event.
Announces(d, A, D, M) ==
  /\ 0 \notin A /\ (A = {} \/ D = {})
  /\ \A h \in A : h \in M \/ (h \in DOMAIN d /\ d[h].live)
  /\ \A h \in D : h \in M \/ (h \in DOMAIN d /\ ~ d[h].live)
OnItsWay == Announces(fs_db, adding, removing, missed)
FilesInv ==
  /\ CardIn(fs) /\ DbIn(fs_db, renamed, fs.wds, told) /\ OpIn(op, fs_db, renamed)
  /\ dataset = <<>> \/ \E ds \in Datasets : dataset = <<ds>>

LEMMA IdleIn == \A d, R : OpIn(Idle, d, R)
<1>1. <<>> \in Seq(Names)
  OBVIOUS
<1> QED
  BY <1>1 DEF OpIn, Idle

LEMMA OpStays == \A o, d, e, R, Q : OpIn(o, d, R) /\ DOMAIN d \subseteq DOMAIN e /\ R \subseteq Q => OpIn(o, e, Q)
BY DEF OpIn

\* Databases with more and with less in them.
LEMMA MoreIn ==
  ASSUME NEW d, NEW e, NEW R, NEW w \in Nat, NEW t, DbIn(d, R, w, t), 0 \in DOMAIN d, More(d, e), NEW w2 \in Nat, w <= w2,
         NEW t2, t2 \subseteq t \cup (DOMAIN e \ {0})
  PROVE  DbIn(e, R, w2, t2) /\ DOMAIN d \subseteq DOMAIN e
<1>1. FiledIn(e, R) /\ TwinFree(e, R)
  BY MoreKeeps DEF DbIn
<1>2. Db(e) /\ DOMAIN d \subseteq DOMAIN e /\ Db(d)
  BY DEF More, DbIn
<1>3. ASSUME NEW h \in DOMAIN e PROVE e[h].wd <= w2
  <2>1. CASE h \in DOMAIN d
    <3>1. e[h] = d[h] /\ d[h].wd \in Nat /\ d[h].wd <= w
      BY <1>2, <2>1, Entries DEF More, DbIn
    <3> QED
      BY <3>1
  <2>2. CASE h \notin DOMAIN d
    <3>1. e[h].wd = 0
      BY <2>2 DEF More, NoWd
    <3> QED
      BY <3>1
  <2> QED
    BY <2>1, <2>2
<1> QED
  BY <1>1, <1>2, <1>3 DEF DbIn

LEMMA LessIn ==
  ASSUME NEW d, NEW e, NEW R, NEW w, NEW t, DbIn(d, R, w, t), 0 \in DOMAIN d, Less(d, e), NEW w2, \A h \in DOMAIN d : e[h].wd <= w2,
         NEW t2, t2 \subseteq DOMAIN d \ {0}
  PROVE  DbIn(e, R, w2, t2)
<1>1. FiledIn(e, R) /\ TwinFree(e, R)
  BY LessKeeps DEF DbIn
<1> QED
  BY <1>1 DEF DbIn, Less

\* Entries flagged, not the root, and told less.
LEMMA FlagIn ==
  ASSUME NEW d, NEW R, NEW w \in Nat, NEW t, DbIn(d, R, w, t), 0 \in DOMAIN d, NEW hs, 0 \notin hs, NEW t2, t2 \subseteq t
  PROVE  DbIn(Flag(d, hs), R, w, t2) /\ DOMAIN Flag(d, hs) = DOMAIN d
<1>1. PICK e : e = Flag(d, hs)
  OBVIOUS
<1>2. Less(d, e) /\ Flags(d, e, hs)
  BY <1>1, FlagDoes DEF DbIn
<1>3. ASSUME NEW h \in DOMAIN d PROVE e[h].wd <= w
  <2>1. CASE h \in hs
    BY <1>2, <2>1 DEF Flags, Flagged, NoWd
  <2>2. CASE h \notin hs
    BY <1>2, <2>2 DEF Flags, Flagged, DbIn
  <2> QED
    BY <2>1, <2>2
<1>4. t2 \subseteq DOMAIN d \ {0}
  BY DEF DbIn
<1>5. DbIn(e, R, w, t2)
  BY <1>2, <1>3, <1>4, LessIn
<1> QED
  BY <1>1, <1>2, <1>5 DEF Less

\* Watches that go leave the card as it is.
LEMMA RmWatchIn ==
  ASSUME NEW f, CardIn(f), NEW ws
  PROVE  CardIn(RmWatch(f, ws)) /\ RmWatch(f, ws).wds = f.wds /\ f.wds \in Nat
<1>1. PICK g : g = RmWatch(f, ws)
  OBVIOUS
<1>2. /\ Card(g) /\ Watches(g) /\ g.disk = f.disk /\ g.inos = f.inos /\ g.queue = f.queue /\ g.wds = f.wds
      /\ DOMAIN g.watch = {i \in DOMAIN f.watch : f.watch[i] \notin ws}
      /\ \A i \in DOMAIN g.watch : g.watch[i] = f.watch[i]
  BY <1>1, RmWatchDoes DEF CardIn
<1>3. Tells(g)
  BY <1>2, FewerTell DEF CardIn
<1> QED
  BY <1>1, <1>2, <1>3 DEF CardIn, Card, Shaped

-----------------------------------------------------------------------------
(* The steps.                                                              *)

LEMMA FilesInitIn == FilesInit => FilesInv
<1> SUFFICES ASSUME FilesInit PROVE FilesInv
  OBVIOUS
<1>1. PICK d \in Names, n \in Names :
        fs = [disk |-> [p \in {<<d>>, <<d, n>>} |-> [dir |-> Len(p) = 1, ino |-> Len(p)]],
              queue |-> <<>>, watch |-> <<>>, inos |-> 2, wds |-> 0]
  BY DEF FilesInit
<1> DEFINE D == [p \in {<<d>>, <<d, n>>} |-> [dir |-> Len(p) = 1, ino |-> Len(p)]]
<1>2. fs.disk = D /\ fs.queue = <<>> /\ fs.watch = <<>> /\ fs.inos = 2 /\ fs.wds = 0 /\ Shaped(fs)
  BY <1>1 DEF Shaped
<1>3. PICK p : p = <<d>>
  OBVIOUS
<1>13. PICK q : q = <<d, n>>
  OBVIOUS
<1>4. p \in Seq(Names) /\ Len(p) = 1 /\ p # <<>> /\ q \in Seq(Names) /\ Len(q) = 2 /\ q # <<>> /\ p[1] = q[1]
  BY <1>3, <1>13
<1>12. DOMAIN fs.disk = {p, q} /\ fs.disk[p] = [dir |-> TRUE, ino |-> 1] /\ fs.disk[q] = [dir |-> FALSE, ino |-> 2]
  <2>1. D = [x \in {p, q} |-> [dir |-> Len(x) = 1, ino |-> Len(x)]]
    BY <1>3, <1>13
  <2> HIDE DEF D
  <2>2. DOMAIN D = {p, q} /\ D[p] = [dir |-> Len(p) = 1, ino |-> Len(p)] /\ D[q] = [dir |-> Len(q) = 1, ino |-> Len(q)]
    BY <2>1
  <2>3. PICK yes : yes = (Len(p) = 1)
    OBVIOUS
  <2>4. PICK no : no = (Len(q) = 1)
    OBVIOUS
  <2>5. yes = TRUE /\ no = FALSE
    <3>1. (Len(p) = 1) <=> TRUE
      BY <1>4
    <3>2. Len(q) # 1
      BY <1>4
    <3>3. yes = TRUE
      BY <2>3, <3>1, Zenon
    <3>4. no = FALSE
      BY <2>4, <3>2, Zenon
    <3> QED
      BY <3>3, <3>4
  <2>6. D[p] = [dir |-> yes, ino |-> 1] /\ D[q] = [dir |-> no, ino |-> 2]
    BY <1>4, <2>2, <2>3, <2>4
  <2> QED
    BY <1>2, <2>2, <2>5, <2>6
<1>5. Card(fs)
  <2>1. IsFiniteSet({p, q})
    <3>1. IsFiniteSet({p} \cup {q})
      BY FS_Singleton, FS_AddElement
    <3>2. {p, q} = {p} \cup {q}
      OBVIOUS
    <3> QED
      BY <3>1, <3>2
  <2>2. p \in Paths /\ q \in Paths
    <3>1. 1 \in 1 .. MaxDepth /\ 2 \in 1 .. MaxDepth
      BY DEF MaxDepth
    <3> QED
      BY <1>4, <3>1, PathsAre
  <2>3. Front(p) = <<>> /\ Front(q) = p
    <3>1. Front(p) \in Seq(Names) /\ Len(Front(p)) = 1 - 1
      BY <1>4, FolderAndName
    <3>2. Front(q) \in Seq(Names) /\ Len(Front(q)) = 2 - 1 /\ q = Append(Front(q), Last(q))
      BY <1>4, FolderAndName
    <3>3. Front(q)[1] = q[1]
      BY <3>2
    <3>4. Front(q) = p
      BY <1>4, <3>2, <3>3
    <3> QED
      BY <3>1, <3>4
  <2>4. IsDir(fs, Front(p)) /\ IsDir(fs, Front(q))
    BY <1>12, <2>3 DEF IsDir
  <2>5. fs.disk[p] \in [dir : BOOLEAN, ino : 1 .. fs.inos] /\ fs.disk[q] \in [dir : BOOLEAN, ino : 1 .. fs.inos]
    BY <1>2, <1>12
  <2>7. Len(p) < MaxDepth
    BY <1>4 DEF MaxDepth
  <2>8. DOMAIN fs.disk \subseteq Paths /\ IsFiniteSet(DOMAIN fs.disk)
    BY <1>12, <2>1, <2>2
  <2>9. \A x \in DOMAIN fs.disk : x = p \/ x = q
    BY <1>12
  <2>10. fs.disk[p].ino = 1 /\ fs.disk[q].ino = 2 /\ fs.disk[q].dir = FALSE
    BY <1>12
  <2>6. Tree(fs)
    <3>1. ASSUME NEW x \in DOMAIN fs.disk
          PROVE  /\ fs.disk[x] \in [dir : BOOLEAN, ino : 1 .. fs.inos]
                 /\ fs.disk[x].dir => Len(x) < MaxDepth
                 /\ IsDir(fs, Front(x))
      BY <2>4, <2>5, <2>7, <2>9, <2>10
    <3>2. ASSUME NEW x \in DOMAIN fs.disk, NEW y \in DOMAIN fs.disk, fs.disk[x].ino = fs.disk[y].ino PROVE x = y
      BY <2>9, <2>10, <3>2
    <3> QED
      BY <2>8, <3>1, <3>2 DEF Tree
  <2> QED
    BY <1>2, <2>6 DEF Card
<1>6. Watches(fs)
  BY <1>2 DEF Watches
<1>7. Tells(fs)
  BY <1>2 DEF Tells
<1>8. fs_db = <<>> /\ told = {} /\ dataset = <<>> /\ op = Idle /\ renamed = {}
  BY DEF FilesInit
<1>9. DOMAIN fs_db = {} /\ Cardinality({}) = 0 /\ 0 .. (0 - 1) = {}
  BY <1>8, FS_EmptySet
<1>10. Db(fs_db)
  BY <1>9 DEF Db
<1>11. DbIn(fs_db, renamed, fs.wds, told)
  BY <1>8, <1>9, <1>10 DEF DbIn, FiledIn, TwinFree
<1> QED
  BY <1>5, <1>6, <1>7, <1>8, <1>11, IdleIn DEF FilesInv, CardIn

LEMMA FilesSame == FilesInv /\ UNCHANGED fileVars => FilesInv'
BY DEF FilesInv, fileVars

LEMMA OpenSessionIn == FilesInv /\ OpenSession => FilesInv'
<1> SUFFICES ASSUME FilesInv, OpenSession PROVE FilesInv'
  OBVIOUS
<1>1. fs_db' = RootOnly /\ fs' = fs /\ told' = told /\ dataset' = dataset /\ op' = op /\ renamed' = renamed /\ fs_db = <<>> /\ Free
  BY DEF OpenSession, Session
<1> DEFINE v == [parent |-> 0, name |-> NoName, filed |-> Bucket[NoName], dir |-> TRUE, live |-> TRUE, wd |-> NoWd]
<1>2. fs_db' = [h \in {0} |-> v]
  BY <1>1 DEF RootOnly
<1>3. v \in Entry /\ v.parent = 0 /\ v.name = NoName /\ v.live = TRUE /\ v.dir = TRUE /\ v.wd = 0
  BY FiledTypes DEF Entry, NoWd
<1> HIDE DEF v
<1>4. DOMAIN fs_db' = {0} /\ fs_db'[0] = v /\ Cardinality({0}) = 1 /\ 0 .. (1 - 1) = {0}
  BY <1>2, FS_Singleton
<1>5. Db(fs_db')
  BY <1>3, <1>4 DEF Db
<1>9. 0 \in DOMAIN fs_db'
  BY <1>4
<1>6. fs.wds \in Nat /\ DOMAIN fs_db = {} /\ told = {}
  BY <1>1 DEF FilesInv, CardIn, Card, Shaped, DbIn
<1>7. DbIn(fs_db', renamed', fs'.wds, told')
  BY <1>1, <1>3, <1>4, <1>5, <1>6, <1>9 DEF DbIn, FiledIn, TwinFree
<1>8. OpIn(op', fs_db', renamed')
  BY <1>1, <1>6, OpStays DEF FilesInv
<1> QED
  BY <1>1, <1>7, <1>8 DEF FilesInv

LEMMA DropIn == FilesInv /\ Drop => FilesInv'
<1> SUFFICES ASSUME FilesInv, Drop PROVE FilesInv'
  OBVIOUS
<1>1. /\ fs' = RmWatch(fs, WatchesOf(fs_db, DOMAIN fs_db)) /\ fs_db' = <<>> /\ told' = {} /\ renamed' = {}
      /\ dataset' = dataset /\ op' = op /\ op.pc = "idle"
  BY DEF Drop, Free
<1>2. CardIn(fs')
  BY <1>1, RmWatchIn DEF FilesInv
<1>3. DOMAIN fs_db' = {} /\ Cardinality({}) = 0 /\ 0 .. (0 - 1) = {}
  BY <1>1, FS_EmptySet
<1>4. Db(fs_db')
  BY <1>3 DEF Db
<1>5. DbIn(fs_db', renamed', fs'.wds, told')
  BY <1>1, <1>3, <1>4 DEF DbIn, FiledIn, TwinFree
<1>6. OpIn(op', fs_db', renamed')
  BY <1>1 DEF FilesInv, OpIn
<1> QED
  BY <1>1, <1>2, <1>5, <1>6 DEF FilesInv

LEMMA WdsAre == FilesInv => fs.wds \in Nat
BY DEF FilesInv, CardIn, Card, Shaped

LEMMA RootIn == \A d, h : Db(d) /\ h \in DOMAIN d => 0 \in DOMAIN d
BY Entries

LEMMA OpRoot == FilesInv /\ op.pc # "idle" => 0 \in DOMAIN fs_db
BY RootIn DEF FilesInv, DbIn, OpIn

LEMMA ListFolderIn == ASSUME NEW h \in told \cup {0} PROVE FilesInv /\ ListFolder(h) => FilesInv'
<1> SUFFICES ASSUME FilesInv, ListFolder(h) PROVE FilesInv'
  OBVIOUS
<1>1. PICK p : p = build_full_path(fs_db, h)
  OBVIOUS
<1>2. /\ h \in DOMAIN fs_db
      /\ \E order \in SetToSeqs(Missing(fs_db, fs, p, h)) : fs_db' = ScanAdd(fs_db, fs, p, h, order)
      /\ op' = [Idle EXCEPT !.pc = "drop", !.h = h, !.ok = IsDir(fs, p), !.from = p]
      /\ fs' = fs /\ told' = told /\ dataset' = dataset /\ renamed' = renamed
  BY <1>1 DEF ListFolder, Live
<1>3. Db(fs_db) /\ h \in Nat /\ Card(fs) /\ p \in Seq(Names)
  BY <1>1, <1>2, Entries, PathTypes DEF FilesInv, DbIn, CardIn
<1>9. 0 \in DOMAIN fs_db
  BY <1>2, <1>3, RootIn
<1>4. PICK order \in SetToSeqs(Missing(fs_db, fs, p, h)) : fs_db' = ScanAdd(fs_db, fs, p, h, order)
  BY <1>2
<1>5. More(fs_db, fs_db')
  BY <1>2, <1>3, <1>4, ScanDoes
<1>6. DbIn(fs_db', renamed', fs'.wds, told') /\ DOMAIN fs_db \subseteq DOMAIN fs_db'
  <2>1. told \subseteq told \cup (DOMAIN fs_db' \ {0}) /\ fs.wds \in Nat /\ fs.wds <= fs.wds
    BY WdsAre
  <2> QED
    BY <1>2, <1>5, <1>9, <2>1, MoreIn DEF FilesInv
<1>7. IsDir(fs, p) \in BOOLEAN
  <2>1. p \in DOMAIN fs.disk => fs.disk[p].dir \in BOOLEAN
    BY <1>3, Nodes
  <2> QED
    BY <2>1 DEF IsDir
<1>8. OpIn(op', fs_db', renamed')
  <2>1. Idle \in [pc : {"idle", "drop", "watch", "rmdir", "rename"}, h : Nat, ok : BOOLEAN, old : Names \cup {NoName},
                  from : Seq(Names), to : Seq(Names)]
    BY IdleIn DEF OpIn
  <2> HIDE DEF Idle
  <2>2. op' \in [pc : {"idle", "drop", "watch", "rmdir", "rename"}, h : Nat, ok : BOOLEAN, old : Names \cup {NoName},
                  from : Seq(Names), to : Seq(Names)] /\ op'.pc = "drop" /\ op'.h = h
    BY <1>2, <1>3, <1>7, <2>1
  <2> QED
    BY <1>2, <1>6, <2>2 DEF OpIn
<1> QED
  BY <1>2, <1>6, <1>8 DEF FilesInv

LEMMA ListDropIn == FilesInv /\ ListDrop => FilesInv'
<1> SUFFICES ASSUME FilesInv, ListDrop PROVE FilesInv'
  OBVIOUS
<1>1. PICK gone : gone = Gone(fs_db, fs, op.h)
  OBVIOUS
<1>2. /\ fs_db' = Flag(fs_db, gone) /\ fs' = RmWatch(fs, WatchesOf(fs_db, gone))
      /\ op' = (IF op.ok THEN [op EXCEPT !.pc = "watch"] ELSE Idle)
      /\ told' = told /\ dataset' = dataset /\ renamed' = renamed /\ op.pc = "drop"
  BY <1>1 DEF ListDrop
<1>3. 0 \notin gone
  BY <1>1 DEF Gone, Children
<1>4. CardIn(fs') /\ fs'.wds = fs.wds
  BY <1>2, RmWatchIn DEF FilesInv
<1>5. DbIn(fs_db', renamed', fs'.wds, told') /\ DOMAIN fs_db' = DOMAIN fs_db
  <2>1. 0 \in DOMAIN fs_db
    BY <1>2, OpRoot
  <2> QED
    BY <1>2, <1>3, <1>4, <2>1, WdsAre, FlagIn DEF FilesInv
<1>6. OpIn(op', fs_db', renamed')
  <2>1. CASE op.ok
    <3>1. op' = [op EXCEPT !.pc = "watch"]
      BY <1>2, <2>1
    <3> QED
      BY <1>2, <1>5, <3>1 DEF FilesInv, OpIn
  <2>2. CASE ~ op.ok
    BY <1>2, <2>2, IdleIn
  <2> QED
    BY <2>1, <2>2
<1> QED
  BY <1>2, <1>4, <1>5, <1>6 DEF FilesInv

LEMMA ListReplyIn == FilesInv /\ ListReply => FilesInv'
<1> SUFFICES ASSUME FilesInv, ListReply PROVE FilesInv'
  OBVIOUS
<1>1. op.h \in DOMAIN fs_db /\ Db(fs_db) /\ fs.wds \in Nat
  BY WdsAre DEF FilesInv, OpIn, ListReply, DbIn
<1>2. /\ op' = Idle /\ dataset' = dataset /\ renamed' = renamed
      /\ told' = {h \in told : fs_db[h].parent # op.h} \cup Children(fs_db, op.h)
  BY DEF ListReply
<1>3. told' \subseteq DOMAIN fs_db \ {0}
  BY <1>2 DEF FilesInv, DbIn, Children
<1>4. CASE fs_db[op.h].dir = FALSE
  <2>1. fs' = fs /\ fs_db' = fs_db
    BY <1>4 DEF ListReply
  <2>2. DbIn(fs_db', renamed', fs'.wds, told')
    BY <1>2, <1>3, <2>1 DEF FilesInv, DbIn
  <2> QED
    BY <1>2, <2>1, <2>2, IdleIn DEF FilesInv
<1>5. CASE fs_db[op.h].dir
  <2>1. PICK w : w = (IF IsDir(fs, op.from) THEN fs'.watch[Ino(fs, op.from)] ELSE NoWd)
    OBVIOUS
  <2>2. fs' = AddWatch(fs, op.from) /\ fs_db' = [fs_db EXCEPT ![op.h].wd = w]
    BY <1>5, <2>1 DEF ListReply
  <2>3. PICK g : g = AddWatch(fs, op.from)
    OBVIOUS
  <2>4. /\ Card(g) /\ Watches(g) /\ g.disk = fs.disk /\ g.inos = fs.inos
        /\ fs.wds <= g.wds /\ g.wds \in Nat
        /\ (IsDir(fs, op.from) => Watching(g, op.from))
    BY <2>3, AddWatchDoes DEF FilesInv, CardIn
  <2>5. Tells(g)
    BY <2>3, AddWatchTells DEF FilesInv, CardIn
  <2>6. g = fs'
    BY <2>2, <2>3
  <2>7. w \in Nat /\ w <= g.wds
    <3>1. CASE IsDir(fs, op.from)
      <4>1. Ino(g, op.from) = Ino(fs, op.from)
        BY <2>4, SameNodes
      <4>2. Ino(fs, op.from) \in DOMAIN g.watch
        BY <2>4, <3>1, <4>1 DEF Watching
      <4>3. g.watch[Ino(fs, op.from)] \in 1 .. g.wds
        BY <2>4, <4>2 DEF Watches
      <4> QED
        BY <2>1, <2>4, <2>6, <3>1, <4>3
    <3>2. CASE ~ IsDir(fs, op.from)
      BY <2>1, <2>4, <3>2 DEF NoWd
    <3> QED
      BY <3>1, <3>2
  <2>8. PICK e : e = fs_db'
    OBVIOUS
  <2>9. e = [fs_db EXCEPT ![op.h].wd = w]
    BY <2>2, <2>8
  <2>10. Less(fs_db, e) /\ HasWd(fs_db, e, op.h, w)
    BY <1>1, <1>5, <2>7, <2>9, SetWdDoes
  <2>11. \A h \in DOMAIN fs_db : fs_db[h].wd \in Nat /\ fs_db[h].wd <= fs.wds
    BY <1>1, Entries DEF FilesInv, DbIn
  <2>12. \A h \in DOMAIN fs_db : e[h].wd <= g.wds
    BY <1>1, <2>4, <2>7, <2>10, <2>11 DEF HasWd
  <2>13. DbIn(e, renamed, g.wds, told')
    <3>1. 0 \in DOMAIN fs_db
      BY <1>1, RootIn
    <3> QED
      BY <1>3, <2>10, <2>12, <3>1, LessIn DEF FilesInv
  <2> QED
    BY <1>2, <2>4, <2>5, <2>6, <2>8, <2>13, IdleIn DEF FilesInv, CardIn
<1> QED
  BY <1>1, <1>4, <1>5, Entries

\* A node appears.
LEMMA CreateIn ==
  ASSUME NEW f, CardIn(f), NEW p \in Seq(Names), ~ Exists(f, p), IsDir(f, Front(p)),
         NEW dir \in BOOLEAN, dir = TRUE => Len(p) < MaxDepth
  PROVE  CardIn(Create(f, p, dir)) /\ Create(f, p, dir).wds = f.wds /\ f.wds \in Nat
<1>1. p # <<>> /\ p \notin DOMAIN f.disk
  BY DEF Exists
<1>2. PICK g : g = Create(f, p, dir)
  OBVIOUS
<1>3. Card(g) /\ Watches(g) /\ Tells(g) /\ HasNew(f, g, p, dir)
  BY <1>1, <1>2, CreateDoes DEF CardIn
<1> QED
  BY <1>2, <1>3 DEF CardIn, Card, Shaped, HasNew

\* The entry a new object gets, or has.
LEMMA EntryIn ==
  ASSUME NEW d, NEW R, NEW w \in Nat, NEW t, DbIn(d, R, w, t), NEW h \in DOMAIN d, NEW n \in Names, NEW dir \in BOOLEAN,
         NEW e, e = add_entry(d, n, h, dir), NEW t2, t2 = t \cup {Min(find_entry(e, n, h))}
  PROVE  DbIn(e, R, w, t2) /\ DOMAIN d \subseteq DOMAIN e
<1>1. More(d, e) /\ find_entry(e, n, h) # {} /\ find_entry(e, n, h) \subseteq DOMAIN e \ {0}
  BY AddDoes DEF DbIn
<1>2. Db(e)
  BY <1>1 DEF More
<1>3. Min(find_entry(e, n, h)) \in DOMAIN e \ {0}
  <2>1. \A x \in DOMAIN e : x \in Nat
    BY <1>2, Entries
  <2>2. find_entry(e, n, h) \subseteq Nat
    BY <1>1, <2>1
  <2> QED
    BY <1>1, <2>2, MinIn
<1>4. t2 \subseteq t \cup (DOMAIN e \ {0}) /\ w <= w
  BY <1>3
<1>5. 0 \in DOMAIN d
  BY RootIn DEF DbIn
<1> QED
  BY <1>1, <1>4, <1>5, MoreIn

LEMMA NewObjectIn ==
  ASSUME FilesInv, NEW h \in DOMAIN fs_db, NEW ds \in Datasets, NewObject(h, ds), UNCHANGED renamed
  PROVE  CardIn(fs') /\ DbIn(fs_db', renamed', fs'.wds, told') /\ DOMAIN fs_db \subseteq DOMAIN fs_db'
<1>1. ds.name \in Names /\ ds.dir \in BOOLEAN
  BY DEF Datasets
<1> DEFINE n == ds.name
<1>2. PICK p : p = Append(build_full_path(fs_db, h), n)
  OBVIOUS
<1>3. p \in Seq(Names)
  <2>1. build_full_path(fs_db, h) \in Seq(Names)
    BY PathTypes DEF FilesInv, DbIn
  <2> QED
    BY <1>1, <1>2, <2>1
<1>4. CardIn(fs) /\ DbIn(fs_db, renamed, fs.wds, told) /\ fs.wds \in Nat
  BY WdsAre DEF FilesInv
<1>5. CASE UNCHANGED <<fs, fs_db, told, target>>
  BY <1>4, <1>5
<1>6. CASE /\ IsDir(fs, Front(p)) /\ ~ Exists(fs, p) /\ Len(p) < MaxDepth
           /\ fs' = Create(fs, p, TRUE) /\ fs_db' = add_entry(fs_db, n, h, TRUE)
           /\ told' = told \cup {Min(find_entry(fs_db', n, h))}
  <2>1. CardIn(fs') /\ fs'.wds = fs.wds
    BY <1>3, <1>4, <1>6, CreateIn
  <2>2. DbIn(fs_db', renamed, fs.wds, told') /\ DOMAIN fs_db \subseteq DOMAIN fs_db'
    <3>1. PICK e : e = fs_db'
      OBVIOUS
    <3>2. PICK t : t = told'
      OBVIOUS
    <3>5. PICK w : w = fs.wds
      OBVIOUS
    <3>6. PICK dir \in BOOLEAN : dir = TRUE
      OBVIOUS
    <3>7. n \in Names /\ w \in Nat /\ DbIn(fs_db, renamed, w, told)
      BY <1>1, <1>4, <3>5
    <3>3. e = add_entry(fs_db, n, h, dir) /\ t = told \cup {Min(find_entry(e, n, h))}
      BY <1>6, <3>1, <3>2, <3>6
    <3> HIDE DEF n
    <3>8. DbIn(e, renamed, w, t) /\ DOMAIN fs_db \subseteq DOMAIN e
      BY <3>3, <3>7, EntryIn
    <3>4. DbIn(e, renamed, fs.wds, t) /\ DOMAIN fs_db \subseteq DOMAIN e
      BY <3>5, <3>8
    <3> QED
      BY <3>1, <3>2, <3>4
  <2> QED
    BY <2>1, <2>2
<1>7. CASE /\ IsDir(fs, Front(p)) /\ ~ IsDir(fs, p)
           /\ fs' = (IF Exists(fs, p) THEN fs ELSE Create(fs, p, FALSE))
           /\ fs_db' = add_entry(fs_db, n, h, FALSE)
           /\ told' = told \cup {Min(find_entry(fs_db', n, h))}
  <2>1. CardIn(fs') /\ fs'.wds = fs.wds
    <3>1. CASE Exists(fs, p)
      BY <1>4, <1>7, <3>1
    <3>2. CASE ~ Exists(fs, p)
      <4>1. fs' = Create(fs, p, FALSE) /\ (FALSE = TRUE => Len(p) < MaxDepth)
        BY <1>7, <3>2
      <4> QED
        BY <1>3, <1>4, <1>7, <3>2, <4>1, CreateIn
    <3> QED
      BY <3>1, <3>2
  <2>2. DbIn(fs_db', renamed, fs.wds, told') /\ DOMAIN fs_db \subseteq DOMAIN fs_db'
    <3>1. PICK e : e = fs_db'
      OBVIOUS
    <3>2. PICK t : t = told'
      OBVIOUS
    <3>5. PICK w : w = fs.wds
      OBVIOUS
    <3>6. PICK dir \in BOOLEAN : dir = FALSE
      OBVIOUS
    <3>7. n \in Names /\ w \in Nat /\ DbIn(fs_db, renamed, w, told)
      BY <1>1, <1>4, <3>5
    <3>3. e = add_entry(fs_db, n, h, dir) /\ t = told \cup {Min(find_entry(e, n, h))}
      BY <1>7, <3>1, <3>2, <3>6
    <3> HIDE DEF n
    <3>8. DbIn(e, renamed, w, t) /\ DOMAIN fs_db \subseteq DOMAIN e
      BY <3>3, <3>7, EntryIn
    <3>4. DbIn(e, renamed, fs.wds, t) /\ DOMAIN fs_db \subseteq DOMAIN e
      BY <3>5, <3>8
    <3> QED
      BY <3>1, <3>2, <3>4
  <2> QED
    BY <2>1, <2>2
<1>8. UNCHANGED <<fs, fs_db, told, target>> \/ NewFolder(h, n) \/ NewFile(h, n)
  BY DEF NewObject
<1>9. NewFolder(h, n) => CardIn(fs') /\ DbIn(fs_db', renamed', fs'.wds, told') /\ DOMAIN fs_db \subseteq DOMAIN fs_db'
  BY <1>2, <1>5, <1>6 DEF NewFolder
<1>10. NewFile(h, n) => CardIn(fs') /\ DbIn(fs_db', renamed', fs'.wds, told') /\ DOMAIN fs_db \subseteq DOMAIN fs_db'
  BY <1>2, <1>5, <1>7 DEF NewFile
<1> QED
  BY <1>5, <1>8, <1>9, <1>10

LEMMA HandleIn == FilesInv /\ Session => \A h \in told \cup {0} : h \in DOMAIN fs_db
<1> SUFFICES ASSUME FilesInv, Session PROVE 0 \in DOMAIN fs_db
  BY DEF FilesInv, DbIn
<1> QED
  BY DEF FilesInv, DbIn, Session

LEMMA SendObjectInfoIn == ASSUME NEW h \in told \cup {0}, NEW ds \in Datasets PROVE FilesInv /\ SendObjectInfo(h, ds) => FilesInv'
<1> SUFFICES ASSUME FilesInv, SendObjectInfo(h, ds) PROVE FilesInv'
  OBVIOUS
<1>1. NewObject(h, ds) /\ dataset' = <<ds>> /\ op' = op /\ renamed' = renamed /\ h \in DOMAIN fs_db
  BY HandleIn DEF SendObjectInfo
<1>2. CardIn(fs') /\ DbIn(fs_db', renamed', fs'.wds, told') /\ DOMAIN fs_db \subseteq DOMAIN fs_db'
  BY <1>1, NewObjectIn
<1>3. OpIn(op', fs_db', renamed')
  BY <1>1, <1>2, OpStays DEF FilesInv
<1> QED
  BY <1>1, <1>2, <1>3 DEF FilesInv

LEMMA SendObjectInfoCutIn == ASSUME NEW h \in told \cup {0} PROVE FilesInv /\ SendObjectInfoCut(h) => FilesInv'
<1> SUFFICES ASSUME FilesInv, SendObjectInfoCut(h) PROVE FilesInv'
  OBVIOUS
<1>0. PICK ds \in Datasets : dataset = <<ds>>
  BY DEF FilesInv, SendObjectInfoCut
<1>1. NewObject(h, ds) /\ dataset' = dataset /\ op' = op /\ renamed' = renamed /\ h \in DOMAIN fs_db
  BY <1>0, HandleIn DEF SendObjectInfoCut
<1>2. CardIn(fs') /\ DbIn(fs_db', renamed', fs'.wds, told') /\ DOMAIN fs_db \subseteq DOMAIN fs_db'
  BY <1>1, NewObjectIn
<1>3. OpIn(op', fs_db', renamed')
  BY <1>1, <1>2, OpStays DEF FilesInv
<1> QED
  BY <1>0, <1>1, <1>2, <1>3 DEF FilesInv

LEMMA SendObjectIn == FilesInv /\ SendObject => FilesInv'
<1> SUFFICES ASSUME FilesInv, SendObject PROVE FilesInv'
  OBVIOUS
<1>1. PICK p : p = build_full_path(fs_db, target[1])
  OBVIOUS
<1>2. /\ fs' = (IF Live(fs_db, target[1]) /\ ~ Exists(fs, p) /\ IsDir(fs, Front(p)) THEN Create(fs, p, FALSE) ELSE fs)
      /\ dataset' \in {dataset, <<>>} /\ fs_db' = fs_db /\ told' = told /\ op' = op /\ renamed' = renamed
  BY <1>1 DEF SendObject
<1>3. CardIn(fs) /\ fs.wds \in Nat
  BY WdsAre DEF FilesInv
<1>4. CardIn(fs') /\ fs'.wds = fs.wds
  <2>1. CASE Live(fs_db, target[1]) /\ ~ Exists(fs, p) /\ IsDir(fs, Front(p))
    <3>1. p \in Seq(Names)
      BY <1>1, <2>1, PathTypes DEF Live, FilesInv, DbIn
    <3>2. FALSE = TRUE => Len(p) < MaxDepth
      OBVIOUS
    <3>3. fs' = Create(fs, p, FALSE)
      BY <1>2, <2>1
    <3> QED
      BY <1>3, <2>1, <3>1, <3>2, <3>3, CreateIn
  <2>2. CASE ~ (Live(fs_db, target[1]) /\ ~ Exists(fs, p) /\ IsDir(fs, Front(p)))
    BY <1>2, <1>3, <2>2
  <2> QED
    BY <2>1, <2>2
<1> QED
  BY <1>2, <1>4 DEF FilesInv

\* A node is removed.
LEMMA UnlinkIn ==
  ASSUME NEW f, CardIn(f), NEW p \in DOMAIN f.disk, Below(f, p) = {}
  PROVE  CardIn(Unlink(f, p)) /\ Unlink(f, p).wds = f.wds
<1>1. PICK g : g = Unlink(f, p)
  OBVIOUS
<1>2. Card(g) /\ Watches(g) /\ Tells(g) /\ HasCut(f, g, {p})
  BY <1>1, UnlinkDoes DEF CardIn
<1> QED
  BY <1>1, <1>2 DEF CardIn, HasCut

LEMMA EmptyIn ==
  ASSUME NEW f, CardIn(f), NEW p \in Seq(Names), NEW order \in Walks(f, p)
  PROVE  CardIn(Empty(f, p, order)) /\ Empty(f, p, order).wds = f.wds
<1>1. PICK g : g = Empty(f, p, order)
  OBVIOUS
<1>2. Card(g) /\ Watches(g) /\ Tells(g) /\ HasCut(f, g, Below(f, p))
  BY <1>1, EmptyDoes DEF CardIn
<1> QED
  BY <1>1, <1>2 DEF CardIn, HasCut

LEMMA RenameIn ==
  ASSUME NEW f, CardIn(f), NEW p \in DOMAIN f.disk, NEW q \in Seq(Names), q # <<>>, p # q, CanRename(f, p, q)
  PROVE  CardIn(Rename(f, p, q)) /\ Rename(f, p, q).wds = f.wds
<1>1. PICK g : g = Rename(f, p, q)
  OBVIOUS
<1>2. Card(g) /\ Watches(g) /\ Tells(g) /\ HasMoved(f, g, p, q)
  BY <1>1, RenameDoes DEF CardIn
<1> QED
  BY <1>1, <1>2 DEF CardIn, HasMoved

\* What an operation that is set up holds.
LEMMA OpSet ==
  ASSUME NEW pc \in {"rmdir", "rename"}, NEW h \in Nat, h # 0, NEW ok \in BOOLEAN, NEW old \in Names \cup {NoName},
         NEW p \in Seq(Names), NEW q \in Seq(Names), NEW d, NEW R, h \in DOMAIN d, pc = "rename" => h \in R /\ q # <<>>,
         NEW o, o = [pc |-> pc, h |-> h, ok |-> ok, old |-> old, from |-> p, to |-> q]
  PROVE  OpIn(o, d, R)
BY DEF OpIn

LEMMA DeleteObjectIn == ASSUME NEW h \in told PROVE FilesInv /\ DeleteObject(h) => FilesInv'
<1> SUFFICES ASSUME FilesInv, DeleteObject(h) PROVE FilesInv'
  OBVIOUS
<1>1. PICK p : p = build_full_path(fs_db, h)
  OBVIOUS
<1>2. PICK can : can = (p # <<>> /\ Exists(fs, p) /\ Below(fs, p) = {})
  OBVIOUS
<1>3. h \in DOMAIN fs_db /\ h # 0 /\ op.pc = "idle" /\ dataset' = dataset /\ renamed' = renamed
  BY DEF DeleteObject, Live, Free
<1>4. Db(fs_db) /\ h \in Nat /\ CardIn(fs) /\ fs.wds \in Nat /\ p \in Seq(Names) /\ 0 \in DOMAIN fs_db
      /\ DbIn(fs_db, renamed, fs.wds, told) /\ OpIn(op, fs_db, renamed)
  BY <1>1, <1>3, Entries, PathTypes, WdsAre DEF FilesInv, DbIn
<1>5. CASE fs_db[h].dir
  <2>1. /\ IF IsDir(fs, p) THEN \E order \in Walks(fs, p) : fs' = Empty(fs, p, order) ELSE UNCHANGED fs
        /\ op' = [Idle EXCEPT !.pc = "rmdir", !.h = h, !.ok = IsDir(fs, p), !.from = p]
        /\ fs_db' = fs_db /\ told' = told
    BY <1>1, <1>5 DEF DeleteObject
  <2>2. CardIn(fs') /\ fs'.wds = fs.wds
    <3>1. CASE IsDir(fs, p)
      <4>1. PICK order \in Walks(fs, p) : fs' = Empty(fs, p, order)
        BY <2>1, <3>1
      <4> QED
        BY <1>4, <4>1, EmptyIn
    <3>2. CASE ~ IsDir(fs, p)
      BY <1>4, <2>1, <3>2
    <3> QED
      BY <3>1, <3>2
  <2>3. IsDir(fs, p) \in BOOLEAN
    <3>1. p \in DOMAIN fs.disk => fs.disk[p].dir \in BOOLEAN
      BY <1>4, Nodes DEF CardIn
    <3> QED
      BY <3>1 DEF IsDir
  <2>4. OpIn(op', fs_db', renamed')
    <3>1. op' = [pc |-> "rmdir", h |-> h, ok |-> IsDir(fs, p), old |-> NoName, from |-> p, to |-> <<>>]
      BY <2>1 DEF Idle
    <3>2. <<>> \in Seq(Names)
      OBVIOUS
    <3> QED
      BY <1>3, <1>4, <2>1, <2>3, <3>1, <3>2, OpSet
  <2> QED
    BY <1>3, <1>4, <2>1, <2>2, <2>4 DEF FilesInv
<1>6. CASE fs_db[h].dir = FALSE
  <2>1. /\ fs' = (IF can THEN RmWatch(Unlink(fs, p), WatchesOf(fs_db, {h})) ELSE fs)
        /\ fs_db' = (IF can THEN Flag(fs_db, {h}) ELSE fs_db)
        /\ told' = (IF can THEN told \ {h} ELSE told)
        /\ op' = op
    BY <1>1, <1>2, <1>6 DEF DeleteObject
  <2>2. CASE can
    <3>1. p \in DOMAIN fs.disk /\ Below(fs, p) = {}
      BY <1>2, <2>2 DEF Exists
    <3>2. CardIn(Unlink(fs, p)) /\ Unlink(fs, p).wds = fs.wds
      BY <1>4, <3>1, UnlinkIn
    <3>3. CardIn(fs') /\ fs'.wds = fs.wds
      BY <2>1, <2>2, <3>2, RmWatchIn
    <3>4. DbIn(Flag(fs_db, {h}), renamed, fs.wds, told \ {h}) /\ DOMAIN Flag(fs_db, {h}) = DOMAIN fs_db
      <4>1. 0 \notin {h} /\ told \ {h} \subseteq told
        BY <1>3
      <4> QED
        BY <1>4, <4>1, FlagIn
    <3>5. OpIn(op', fs_db', renamed')
      BY <1>3, <1>4, <2>1, <2>2, <3>4, OpStays
    <3> QED
      BY <1>3, <2>1, <2>2, <3>3, <3>4, <3>5 DEF FilesInv
  <2>3. CASE ~ can
    BY <1>3, <2>1, <2>3 DEF FilesInv
  <2> QED
    BY <1>2, <2>2, <2>3
<1> QED
  BY <1>3, <1>4, <1>5, <1>6, Entries

\* What the first pass and then the second make of a database.
LEMMA SyncIn ==
  ASSUME NEW d, NEW R, NEW w \in Nat, NEW t, DbIn(d, R, w, t), NEW h \in DOMAIN d, NEW f, Card(f), NEW p \in Seq(Names),
         NEW order \in SetToSeqs(Missing(d, f, p, h)), NEW seen, seen = ScanAdd(d, f, p, h, order), NEW gone, 0 \notin gone
  PROVE  DbIn(Flag(seen, gone), R, w, t) /\ DOMAIN d \subseteq DOMAIN Flag(seen, gone)
<1>1. Db(d) /\ 0 \in DOMAIN d
  BY RootIn DEF DbIn
<1>2. More(d, seen)
  BY <1>1, ScanDoes
<1>3. t \subseteq t \cup (DOMAIN seen \ {0}) /\ w <= w
  OBVIOUS
<1>4. DbIn(seen, R, w, t) /\ DOMAIN d \subseteq DOMAIN seen
  BY <1>1, <1>2, <1>3, MoreIn
<1>5. DbIn(Flag(seen, gone), R, w, t) /\ DOMAIN Flag(seen, gone) = DOMAIN seen
  BY <1>1, <1>4, FlagIn
<1> QED
  BY <1>4, <1>5

LEMMA DeleteFolderIn == FilesInv /\ DeleteFolder => FilesInv'
<1> SUFFICES ASSUME FilesInv, DeleteFolder PROVE FilesInv'
  OBVIOUS
<1>1. PICK p : p = op.from
  OBVIOUS
<1>2. PICK h : h = op.h
  OBVIOUS
<1>3. PICK can : can = (op.ok /\ p \in DOMAIN fs.disk /\ Below(fs, p) = {})
  OBVIOUS
<1>4. /\ Db(fs_db) /\ CardIn(fs) /\ Card(fs) /\ fs.wds \in Nat /\ p \in Seq(Names) /\ 0 \in DOMAIN fs_db
      /\ DbIn(fs_db, renamed, fs.wds, told) /\ h \in DOMAIN fs_db /\ h # 0
  BY <1>1, <1>2, WdsAre, OpRoot DEF FilesInv, DbIn, OpIn, DeleteFolder, CardIn
<1>5. dataset' = dataset /\ renamed' = renamed /\ op' = Idle
  BY DEF DeleteFolder
<1>6. CASE can
  <2>1. /\ fs' = RmWatch(Unlink(fs, p), WatchesOf(fs_db, {h}))
        /\ fs_db' = Flag(fs_db, {h}) /\ told' = told \ {h}
    BY <1>1, <1>2, <1>3, <1>6 DEF DeleteFolder
  <2>2. CardIn(Unlink(fs, p)) /\ Unlink(fs, p).wds = fs.wds
    BY <1>3, <1>4, <1>6, UnlinkIn
  <2>3. CardIn(fs') /\ fs'.wds = fs.wds
    BY <2>1, <2>2, RmWatchIn
  <2>4. 0 \notin {h} /\ told \ {h} \subseteq told
    BY <1>4
  <2>5. DbIn(Flag(fs_db, {h}), renamed, fs.wds, told \ {h})
    BY <1>4, <2>4, FlagIn
  <2> QED
    BY <1>5, <2>1, <2>3, <2>5, IdleIn DEF FilesInv
<1>7. CASE ~ can
  <2>1. \E order \in SetToSeqs(Missing(fs_db, fs, p, h)) :
          LET seen == ScanAdd(fs_db, fs, p, h, order) IN
          /\ fs_db' = Flag(seen, Gone(seen, fs, h))
          /\ fs' = RmWatch(fs, WatchesOf(seen, Gone(seen, fs, h)))
          /\ told' = told
    BY <1>1, <1>2, <1>3, <1>7 DEF DeleteFolder
  <2>2. PICK order \in SetToSeqs(Missing(fs_db, fs, p, h)) :
          LET seen == ScanAdd(fs_db, fs, p, h, order) IN
          /\ fs_db' = Flag(seen, Gone(seen, fs, h))
          /\ fs' = RmWatch(fs, WatchesOf(seen, Gone(seen, fs, h)))
          /\ told' = told
    BY <2>1
  <2>3. PICK seen : seen = ScanAdd(fs_db, fs, p, h, order)
    OBVIOUS
  <2>4. PICK gone : gone = Gone(seen, fs, h)
    OBVIOUS
  <2>5. fs_db' = Flag(seen, gone) /\ fs' = RmWatch(fs, WatchesOf(seen, gone)) /\ told' = told
    BY <2>2, <2>3, <2>4
  <2>6. 0 \notin gone
    BY <2>4 DEF Gone, Children
  <2>7. CardIn(fs') /\ fs'.wds = fs.wds
    BY <1>4, <2>5, RmWatchIn
  <2>8. PICK w : w = fs.wds
    OBVIOUS
  <2>9. DbIn(fs_db, renamed, w, told) /\ w \in Nat
    BY <1>4, <2>8
  <2>10. DbIn(Flag(seen, gone), renamed, w, told)
    BY <1>4, <2>3, <2>6, <2>9, SyncIn
  <2> QED
    BY <1>5, <2>5, <2>7, <2>8, <2>10, IdleIn DEF FilesInv
<1> QED
  BY <1>3, <1>6, <1>7

LEMMA SetNameIn == ASSUME NEW h \in told, NEW n \in Names PROVE FilesInv /\ SetName(h, n) => FilesInv'
<1> SUFFICES ASSUME FilesInv, SetName(h, n) PROVE FilesInv'
  OBVIOUS
<1>1. PICK e : e = [fs_db EXCEPT ![h].name = n]
  OBVIOUS
<1>2. PICK p : p = build_full_path(fs_db, h)
  OBVIOUS
<1>3. PICK q : q = build_full_path(e, h)
  OBVIOUS
<1>4. PICK Q : Q = renamed \cup {h}
  OBVIOUS
<1>5. /\ fs_db' = e /\ renamed' = Q /\ h \in DOMAIN fs_db /\ h # 0
      /\ op' = [Idle EXCEPT !.pc = "rename", !.h = h, !.old = fs_db[h].name, !.from = p, !.to = q]
      /\ fs' = fs /\ told' = told /\ dataset' = dataset
  BY <1>1, <1>2, <1>3, <1>4 DEF SetName, Live
<1>6. Db(fs_db) /\ FiledIn(fs_db, renamed) /\ TwinFree(fs_db, renamed) /\ DbIn(fs_db, renamed, fs.wds, told)
  BY DEF FilesInv, DbIn
<1>7. n \in Names \cup {NoName} /\ n # NoName
  BY MtpFilesAssumption
<1>8. Db(e) /\ HasName(fs_db, e, h, n)
  BY <1>1, <1>5, <1>6, <1>7, SetNameDoes
<1>9. FiledIn(e, Q) /\ TwinFree(e, Q)
  BY <1>4, <1>5, <1>6, <1>8, RenamedKeeps
<1>10. DOMAIN e = DOMAIN fs_db /\ \A g \in DOMAIN fs_db : e[g].wd = fs_db[g].wd
  BY <1>8 DEF HasName
<1>11. DbIn(e, Q, fs.wds, told)
  BY <1>6, <1>8, <1>9, <1>10, RootIn DEF DbIn
<1>12. p \in Seq(Names) /\ q \in Seq(Names) /\ Up(e, h) \in Seq(Names) /\ fs_db[h].name \in Names \cup {NoName} /\ h \in Nat
  BY <1>2, <1>3, <1>5, <1>6, <1>8, <1>10, PathTypes, Entries
<1>13. q # <<>>
  <2>1. q = Append(Up(e, h), n)
    BY <1>3, <1>5, <1>7, <1>8, <1>10, PathIs DEF HasName
  <2> QED
    BY <1>12, <2>1
<1>14. OpIn(op', fs_db', renamed')
  <2>1. op' = [pc |-> "rename", h |-> h, ok |-> FALSE, old |-> fs_db[h].name, from |-> p, to |-> q]
    BY <1>5 DEF Idle
  <2>2. h \in DOMAIN e /\ h \in Q
    BY <1>4, <1>5, <1>10
  <2>3. PICK o : o = op'
    OBVIOUS
  <2>4. PICK old \in Names \cup {NoName} : old = fs_db[h].name
    BY <1>12
  <2>5. o = [pc |-> "rename", h |-> h, ok |-> FALSE, old |-> old, from |-> p, to |-> q]
    BY <2>1, <2>3, <2>4
  <2>6. "rename" \in {"rmdir", "rename"} /\ FALSE \in BOOLEAN
    OBVIOUS
  <2>7. OpIn(o, e, Q)
    BY <1>5, <1>12, <1>13, <2>2, <2>5, <2>6, OpSet
  <2> QED
    BY <1>5, <2>3, <2>7
<1> QED
  BY <1>5, <1>11, <1>14 DEF FilesInv

LEMMA RenameObjectIn == FilesInv /\ RenameObject => FilesInv'
<1> SUFFICES ASSUME FilesInv, RenameObject PROVE FilesInv'
  OBVIOUS
<1>1. op' = Idle /\ told' = told /\ dataset' = dataset /\ renamed' = renamed /\ op.pc = "rename"
  BY DEF RenameObject
<1>2. /\ op.h \in DOMAIN fs_db /\ op.h # 0 /\ op.h \in renamed /\ op.to # <<>> /\ op.from \in Seq(Names) /\ op.to \in Seq(Names)
      /\ op.old \in Names \cup {NoName}
  BY <1>1 DEF FilesInv, OpIn
<1>3. CASE fs' = fs /\ fs_db' = fs_db
  BY <1>1, <1>3, IdleIn DEF FilesInv
<1>4. CASE op.from # op.to /\ op.from # <<>> /\ CanRename(fs, op.from, op.to) /\ fs' = Rename(fs, op.from, op.to) /\ fs_db' = fs_db
  <2>1. op.from \in DOMAIN fs.disk
    BY <1>4 DEF CanRename
  <2>2. CardIn(fs') /\ fs'.wds = fs.wds
    BY <1>2, <1>4, <2>1, RenameIn DEF FilesInv
  <2> QED
    BY <1>1, <1>4, <2>2, IdleIn DEF FilesInv
<1>5. CASE fs_db' = [fs_db EXCEPT ![op.h].name = op.old] /\ fs' = fs
  <2>1. PICK h : h = op.h
    OBVIOUS
  <2>2. PICK e : e = fs_db'
    OBVIOUS
  <2>3. PICK n \in Names \cup {NoName} : n = op.old
    BY <1>2
  <2>4. e = [fs_db EXCEPT ![h].name = n] /\ h \in DOMAIN fs_db /\ h # 0 /\ renamed = renamed \cup {h}
    BY <1>2, <1>5, <2>1, <2>2, <2>3
  <2>5. Db(fs_db) /\ FiledIn(fs_db, renamed) /\ TwinFree(fs_db, renamed) /\ DbIn(fs_db, renamed, fs.wds, told)
    BY DEF FilesInv, DbIn
  <2>6. Db(e) /\ HasName(fs_db, e, h, n)
    BY <2>4, <2>5, SetNameDoes
  <2>7. FiledIn(e, renamed) /\ TwinFree(e, renamed)
    BY <2>4, <2>5, <2>6, RenamedKeeps
  <2>8. DOMAIN e = DOMAIN fs_db /\ \A g \in DOMAIN fs_db : e[g].wd = fs_db[g].wd
    BY <2>6 DEF HasName
  <2>9. DbIn(e, renamed, fs.wds, told)
    BY <2>4, <2>5, <2>6, <2>7, <2>8, RootIn DEF DbIn
  <2> QED
    BY <1>1, <1>5, <2>2, <2>9, IdleIn DEF FilesInv
<1> QED
  BY <1>3, <1>4, <1>5 DEF RenameObject

\* A round of the inotify thread: what it makes of the database.
LEMMA AddedIn ==
  ASSUME NEW d, NEW R, NEW w \in Nat, NEW t, DbIn(d, R, w, t), NEW h \in DOMAIN d, NEW n \in Names \cup {NoName}, NEW dir \in BOOLEAN,
         NEW e, e = add_entry(d, n, h, dir)
  PROVE  DbIn(e, R, w, t) /\ DOMAIN d \subseteq DOMAIN e /\ More(d, e)
<1>1. Db(d) /\ 0 \in DOMAIN d
  BY RootIn DEF DbIn
<1>2. More(d, e)
  BY <1>1, AddDoes
<1>3. t \subseteq t \cup (DOMAIN e \ {0}) /\ w <= w
  BY <1>1
<1> QED
  BY <1>1, <1>2, <1>3, MoreIn

LEMMA EntryAddedIn ==
  ASSUME FilesInv, NEW h \in DOMAIN fs_db, NEW name \in Names, EntryAdded(h, name)
  PROVE  /\ DbIn(fs_db', renamed, fs.wds, told) /\ DOMAIN fs_db \subseteq DOMAIN fs_db' /\ More(fs_db, fs_db')
         /\ adding' = DOMAIN fs_db' \ DOMAIN fs_db /\ removing' = removing
<1>1. PICK p : p = Append(build_full_path(fs_db, h), name)
  OBVIOUS
<1>2. \E n \in {IF Exists(fs, p) THEN name ELSE NoName}, dir \in IF Exists(fs, p) THEN {IsDir(fs, p)} ELSE BOOLEAN :
        /\ fs_db' = add_entry(fs_db, n, h, dir) /\ adding' = DOMAIN fs_db' \ DOMAIN fs_db /\ removing' = removing
  BY <1>1 DEF EntryAdded
<1>3. IsDir(fs, p) \in BOOLEAN
  <2>1. p \in DOMAIN fs.disk => fs.disk[p].dir \in BOOLEAN
    BY Nodes DEF FilesInv, CardIn
  <2> QED
    BY <2>1 DEF IsDir
<1>4. PICK n \in Names \cup {NoName}, dir \in BOOLEAN :
        /\ fs_db' = add_entry(fs_db, n, h, dir) /\ adding' = DOMAIN fs_db' \ DOMAIN fs_db /\ removing' = removing
  BY <1>2, <1>3
<1>5. PICK w : w = fs.wds
  OBVIOUS
<1>6. PICK e : e = fs_db'
  OBVIOUS
<1>8. w \in Nat /\ DbIn(fs_db, renamed, w, told) /\ e = add_entry(fs_db, n, h, dir)
  BY <1>4, <1>5, <1>6, WdsAre DEF FilesInv
<1>9. DbIn(e, renamed, w, told) /\ DOMAIN fs_db \subseteq DOMAIN e /\ More(fs_db, e)
  BY ZenonT(40), <1>8, AddedIn
<1> QED
  BY <1>4, <1>5, <1>6, <1>9

LEMMA EntryRemovedIn ==
  ASSUME FilesInv, NEW h \in DOMAIN fs_db, NEW name \in Names, EntryRemoved(h, name)
  PROVE  /\ DbIn(fs_db', renamed, fs.wds, told) /\ DOMAIN fs_db \subseteq DOMAIN fs_db'
         /\ \E gone : /\ gone \subseteq DOMAIN fs_db /\ fs_db' = Flag(fs_db, gone) /\ removing' = gone /\ adding' = adding
                      /\ 0 \notin gone
<1>1. PICK found : found = find_entry(fs_db, name, h)
  OBVIOUS
<1>2. PICK gone : gone = (IF found = {} THEN {} ELSE {Min(found)})
  OBVIOUS
<1>3. fs_db' = Flag(fs_db, gone) /\ removing' = gone /\ adding' = adding
  BY <1>1, <1>2 DEF EntryRemoved
<1>4. found \subseteq DOMAIN fs_db \ {0}
  BY <1>1 DEF find_entry
<1>5. DbIn(fs_db, renamed, fs.wds, told) /\ Db(fs_db) /\ fs.wds \in Nat /\ 0 \in DOMAIN fs_db
  BY WdsAre, RootIn DEF FilesInv, DbIn
<1>6. found \subseteq Nat
  BY <1>4, <1>5, Entries
<1>7. 0 \notin gone /\ gone \subseteq DOMAIN fs_db
  <2>1. CASE found = {}
    BY <1>2, <2>1
  <2>2. CASE found # {}
    BY <1>2, <1>4, <1>6, <2>2, MinIn
  <2> QED
    BY <2>1, <2>2
<1>8. told \subseteq told
  OBVIOUS
<1>9. DbIn(Flag(fs_db, gone), renamed, fs.wds, told) /\ DOMAIN Flag(fs_db, gone) = DOMAIN fs_db
  BY <1>5, <1>7, <1>8, FlagIn
<1> QED
  BY <1>3, <1>7, <1>9

LEMMA RoundIn == FilesInv /\ Round => FilesInv'
<1> SUFFICES ASSUME FilesInv, Round PROVE FilesInv'
  OBVIOUS
<1>1. PICK ev : ev = Head(fs.queue)
  OBVIOUS
<1>2. PICK last \in BOOLEAN : last = (~ Session \/ Matches(ev.wd) \subseteq {0})
  OBVIOUS
<1>3. PICK dropped : dropped = {fs_db[h].wd : h \in {g \in DOMAIN fs_db : fs_db'[g].wd = NoWd}}
  OBVIOUS
<1>4. /\ fs.queue # <<>> /\ op' = op /\ renamed' = renamed /\ dataset' = dataset /\ told' = told
      /\ fs' = RmWatch([fs EXCEPT !.queue = IF last THEN Tail(@) ELSE @], dropped)
  BY <1>1, <1>2, <1>3 DEF Round
<1>5. CardIn(fs) /\ DbIn(fs_db, renamed, fs.wds, told) /\ Db(fs_db) /\ OpIn(op, fs_db, renamed)
  BY DEF FilesInv, DbIn
<1>6. CardIn(fs') /\ fs'.wds = fs.wds
  <2>1. PICK f : f = [fs EXCEPT !.queue = IF last THEN Tail(@) ELSE @]
    OBVIOUS
  <2>2. CardIn(f) /\ f.wds = fs.wds
    <3>1. CASE last
      <4>1. f = [fs EXCEPT !.queue = Tail(@)]
        BY <2>1, <3>1
      <4> QED
        BY <1>4, <1>5, <4>1, PopDoes DEF CardIn
    <3>2. CASE ~ last
      <4>1. fs \in [disk : {fs.disk}, queue : {fs.queue}, watch : {fs.watch}, inos : {fs.inos}, wds : {fs.wds}]
        BY <1>5 DEF CardIn, Card, Shaped
      <4>2. f = fs
        BY <2>1, <3>2, <4>1
      <4> QED
        BY <1>5, <4>2
    <3> QED
      BY <3>1, <3>2
  <2> QED
    BY <1>4, <2>1, <2>2, RmWatchIn
<1>7. DbIn(fs_db', renamed, fs.wds, told) /\ DOMAIN fs_db \subseteq DOMAIN fs_db'
  <2>1. \/ UNCHANGED <<fs_db, push>>
        \/ Matches(ev.wd) # {} /\ (EntryAdded(Max(Matches(ev.wd)), ev.name) \/ EntryRemoved(Max(Matches(ev.wd)), ev.name))
    BY <1>1 DEF Round
  <2>2. CASE UNCHANGED <<fs_db, push>>
    BY <1>5, <2>2
  <2>3. CASE Matches(ev.wd) # {} /\ (EntryAdded(Max(Matches(ev.wd)), ev.name) \/ EntryRemoved(Max(Matches(ev.wd)), ev.name))
    <3>1. PICK h : h = Max(Matches(ev.wd))
      OBVIOUS
    <3>2. Matches(ev.wd) \subseteq DOMAIN fs_db
      BY DEF Matches
    <3>3. h \in DOMAIN fs_db
      BY <1>5, <2>3, <3>1, <3>2, MaxIn
    <3>4. ev \in EventsOf(fs)
      BY <1>1, <1>4, <1>5 DEF CardIn, Watches
    <3>5. ev.name \in Names
      BY <3>4 DEF EventsOf
    <3>6. EntryAdded(h, ev.name) \/ EntryRemoved(h, ev.name)
      BY <2>3, <3>1
    <3> QED
      BY <3>3, <3>5, <3>6, EntryAddedIn, EntryRemovedIn
  <2> QED
    BY <2>1, <2>2, <2>3
<1>8. OpIn(op', fs_db', renamed')
  BY <1>4, <1>5, <1>7, OpStays
<1> QED
  BY <1>4, <1>6, <1>7, <1>8 DEF FilesInv

LEMMA DeviceIn == FilesInv /\ Device => FilesInv'
<1> SUFFICES ASSUME FilesInv, Device PROVE FilesInv'
  OBVIOUS
<1>1. CardIn(fs) /\ fs.wds \in Nat /\ DOMAIN fs.disk \subseteq Paths
  BY WdsAre DEF FilesInv, CardIn, Card, Tree
<1>2. \A p \in Paths : p \in Seq(Names) /\ p # <<>>
  <2> SUFFICES ASSUME NEW p \in Paths PROVE p \in Seq(Names) /\ p # <<>>
    OBVIOUS
  <2>1. p \in Seq(Names) /\ Len(p) \in 1 .. MaxDepth
    BY PathsAre
  <2> QED
    BY <2>1
<1>3. ASSUME CardIn(fs'), fs'.wds = fs.wds, UNCHANGED <<fs_db, told, dataset, op, renamed>> PROVE FilesInv'
  BY <1>3 DEF FilesInv
<1>4. ASSUME NEW p \in Paths, NEW dir \in BOOLEAN, DevCreate(p, dir) PROVE FilesInv'
  <2>1. ~ Exists(fs, p) /\ IsDir(fs, Front(p)) /\ (dir = TRUE => Len(p) < MaxDepth) /\ fs' = Create(fs, p, dir)
    BY <1>4 DEF DevCreate
  <2>2. CardIn(fs') /\ fs'.wds = fs.wds
    BY <1>1, <1>2, <2>1, CreateIn
  <2> QED
    BY <1>3, <1>4, <2>2 DEF DevCreate
<1>5. ASSUME NEW p \in DOMAIN fs.disk, DevRemove(p) PROVE FilesInv'
  <2>1. CardIn(fs') /\ fs'.wds = fs.wds
    BY <1>1, <1>5, UnlinkIn DEF DevRemove
  <2> QED
    BY <1>3, <1>5, <2>1 DEF DevRemove
<1>6. ASSUME NEW p \in DOMAIN fs.disk, NEW q \in Paths, DevRename(p, q) PROVE FilesInv'
  <2>1. CardIn(fs') /\ fs'.wds = fs.wds
    BY <1>1, <1>2, <1>6, RenameIn DEF DevRename
  <2> QED
    BY <1>3, <1>6, <2>1 DEF DevRename
<1> QED
  BY <1>4, <1>5, <1>6 DEF Device

\* What the host is told of is in the database.
LEMMA PushIn == FilesInv /\ OnItsWay /\ (Push \/ PushDropped) => FilesInv'
<1> SUFFICES ASSUME FilesInv, OnItsWay, Push \/ PushDropped PROVE FilesInv'
  OBVIOUS
<1>1. /\ UNCHANGED <<fs, fs_db, dataset, op, renamed>>
      /\ told' = told \/ told' = (told \cup (adding \cap DOMAIN fs_db)) \ removing
  BY DEF Push, PushDropped
<1>2. told' \subseteq DOMAIN fs_db \ {0}
  BY <1>1 DEF FilesInv, DbIn, OnItsWay, Announces
<1> QED
  BY <1>1, <1>2 DEF FilesInv, DbIn

\* What is announced stays true of the database, or is missed: entries that go while the host
\* is yet to hear of them are, and no entry comes back.
LivesBut(d, e, hs) ==
  /\ DOMAIN d \subseteq DOMAIN e
  /\ \A x \in DOMAIN d : (d[x].live /\ x \notin hs => e[x].live) /\ (e[x].live => d[x].live)
LEMMA AnnouncesStay ==
  ASSUME NEW d, NEW e, NEW A, NEW D, NEW M, NEW N, NEW hs, Announces(d, A, D, M), LivesBut(d, e, hs),
         (M \cap (A \cup D)) \cup (hs \cap A) \subseteq N
  PROVE  Announces(e, A, D, N)
BY DEF Announces, LivesBut

LEMMA MoreLives == \A d, e : More(d, e) => LivesBut(d, e, {})
BY DEF More, LivesBut

LEMMA FlagLives ==
  ASSUME NEW d, Db(d), NEW hs, 0 \notin hs
  PROVE  LivesBut(d, Flag(d, hs), hs)
<1>1. PICK e : e = Flag(d, hs)
  OBVIOUS
<1>2. Less(d, e) /\ Flags(d, e, hs)
  BY <1>1, FlagDoes
<1> QED
  BY <1>1, <1>2 DEF Less, Flags, Flagged, LivesBut

LEMMA LivesTwice ==
  ASSUME NEW d, NEW e, NEW g, NEW hs, LivesBut(d, e, {}), LivesBut(e, g, hs)
  PROVE  LivesBut(d, g, hs)
BY DEF LivesBut

LEMMA NameLives == \A d, e, h, n : HasName(d, e, h, n) => LivesBut(d, e, {})
BY DEF HasName, LivesBut

LEMMA SameLives == \A d : LivesBut(d, d, {})
BY DEF LivesBut

\* A step of the host or of the console leaves the announcements as they are.
LEMMA WayStays ==
  ASSUME OnItsWay, adding' = adding, removing' = removing, NEW hs, LivesBut(fs_db, fs_db', hs),
         (missed \cap (adding \cup removing)) \cup (hs \cap adding) \subseteq missed'
  PROVE  OnItsWay'
BY AnnouncesStay DEF OnItsWay

\* It adds entries, or changes none.
LEMMA WayMore ==
  ASSUME OnItsWay, adding' = adding, removing' = removing, missed' = missed, LivesBut(fs_db, fs_db', {})
  PROVE  OnItsWay'
<1>1. (missed \cap (adding \cup removing)) \cup ({} \cap adding) \subseteq missed'
  OBVIOUS
<1> QED
  BY <1>1, WayStays

\* It flags entries.
LEMMA WayFlag ==
  ASSUME OnItsWay, adding' = adding, removing' = removing, NEW hs, Late(hs), LivesBut(fs_db, fs_db', hs)
  PROVE  OnItsWay'
<1>1. (missed \cap (adding \cup removing)) \cup (hs \cap adding) \subseteq missed'
  BY DEF Late
<1> QED
  BY <1>1, WayStays

LEMMA NewObjectWay ==
  ASSUME FilesInv, NEW h, NEW ds \in Datasets, NewObject(h, ds)
  PROVE  LivesBut(fs_db, fs_db', {})
<1>1. ds.name \in Names /\ ds.dir \in BOOLEAN /\ TRUE \in BOOLEAN /\ FALSE \in BOOLEAN
  BY DEF Datasets
<1>2. fs_db' = fs_db \/ (h \in DOMAIN fs_db /\ \E dir \in BOOLEAN : fs_db' = add_entry(fs_db, ds.name, h, dir))
  <2>1. CASE Live(fs_db, h) /\ fs_db[h].dir
    <3>1. NewFolder(h, ds.name) \/ NewFile(h, ds.name)
      BY <2>1 DEF NewObject
    <3> QED
      BY <1>1, <2>1, <3>1 DEF NewFolder, NewFile, Live
  <2>2. CASE ~ (Live(fs_db, h) /\ fs_db[h].dir)
    BY <2>2 DEF NewObject
  <2> QED
    BY <2>1, <2>2
<1>3. CASE fs_db' = fs_db
  BY <1>3, SameLives
<1>4. ASSUME h \in DOMAIN fs_db, NEW dir \in BOOLEAN, fs_db' = add_entry(fs_db, ds.name, h, dir)
      PROVE  LivesBut(fs_db, fs_db', {})
  <2>1. PICK e : e = fs_db'
    OBVIOUS
  <2>2. PICK n \in Names : n = ds.name
    BY <1>1
  <2>3. e = add_entry(fs_db, n, h, dir) /\ Db(fs_db)
    BY <1>4, <2>1, <2>2 DEF FilesInv, DbIn
  <2>4. More(fs_db, e)
    BY <1>4, <2>3, AddDoes
  <2> QED
    BY <2>1, <2>4, MoreLives
<1> QED
  BY <1>2, <1>3, <1>4

LEMMA HostWay == FilesInv /\ OnItsWay /\ Host => OnItsWay'
<1> SUFFICES ASSUME FilesInv, OnItsWay, Host PROVE OnItsWay'
  OBVIOUS
<1>1. Db(fs_db) /\ DbIn(fs_db, renamed, fs.wds, told) /\ Card(fs)
  BY DEF FilesInv, DbIn, CardIn
<1>2. CASE OpenSession
  <2>1. LivesBut(fs_db, fs_db', {}) /\ adding' = adding /\ removing' = removing /\ missed' = missed
    BY <1>2 DEF OpenSession, Session, LivesBut, push
  <2> QED
    BY <2>1, WayMore
<1>3. CASE Drop
  BY <1>3 DEF Drop, OnItsWay, Announces, push
<1>4. ASSUME NEW h \in told \cup {0}, ListFolder(h) PROVE OnItsWay'
  <2>1. PICK p : p = build_full_path(fs_db, h)
    OBVIOUS
  <2>2. /\ h \in DOMAIN fs_db /\ adding' = adding /\ removing' = removing /\ missed' = missed
        /\ \E order \in SetToSeqs(Missing(fs_db, fs, p, h)) : fs_db' = ScanAdd(fs_db, fs, p, h, order)
    BY <1>4, <2>1 DEF ListFolder, Live, push
  <2>3. PICK order \in SetToSeqs(Missing(fs_db, fs, p, h)) : fs_db' = ScanAdd(fs_db, fs, p, h, order)
    BY <2>2
  <2>4. p \in Seq(Names)
    BY <1>1, <2>1, <2>2, PathTypes
  <2>5. More(fs_db, fs_db')
    BY <1>1, <2>2, <2>3, <2>4, ScanDoes
  <2> QED
    BY <2>2, <2>5, MoreLives, WayMore
<1>5. CASE ListDrop
  <2>1. PICK gone : gone = Gone(fs_db, fs, op.h)
    OBVIOUS
  <2>2. fs_db' = Flag(fs_db, gone) /\ Late(gone) /\ adding' = adding /\ removing' = removing
    BY <1>5, <2>1 DEF ListDrop, push
  <2>3. 0 \notin gone
    BY <2>1 DEF Gone, Children
  <2>4. LivesBut(fs_db, fs_db', gone)
    BY <1>1, <2>2, <2>3, FlagLives
  <2> QED
    BY <2>2, <2>4, WayFlag
<1>6. CASE ListReply
  <2>1. adding' = adding /\ removing' = removing /\ missed \cap (adding \cup removing) \subseteq missed'
    BY <1>6 DEF ListReply, push
  <2>2. PICK e : e = fs_db'
    OBVIOUS
  <2>3. e = fs_db \/ \E w : e = [fs_db EXCEPT ![op.h].wd = w]
    BY <1>6, <2>2 DEF ListReply
  <2>4. LivesBut(fs_db, e, {})
    <3>1. ASSUME NEW w, e = [fs_db EXCEPT ![op.h].wd = w] PROVE LivesBut(fs_db, e, {})
      <4>1. \A x \in DOMAIN fs_db : fs_db[x] \in Entry
        BY <1>1 DEF Db
      <4>2. ASSUME NEW x \in DOMAIN fs_db PROVE e[x].live = fs_db[x].live
        <5>1. e[x] = fs_db[x] \/ e[x] = [fs_db[x] EXCEPT !.wd = w]
          BY <3>1
        <5> QED
          BY <4>1, <5>1 DEF Entry
      <4> QED
        BY <3>1, <4>2 DEF LivesBut
    <3> QED
      BY <2>3, <3>1, SameLives
  <2>5. (missed \cap (adding \cup removing)) \cup ({} \cap adding) \subseteq missed'
    BY <2>1
  <2> QED
    BY <2>1, <2>2, <2>4, <2>5, WayStays
<1>7. ASSUME NEW h \in told \cup {0}, NEW ds \in Datasets, SendObjectInfo(h, ds) PROVE OnItsWay'
  <2>1. NewObject(h, ds) /\ adding' = adding /\ removing' = removing /\ missed' = missed
    BY <1>7 DEF SendObjectInfo, push
  <2> QED
    BY <2>1, NewObjectWay, WayMore
<1>8. ASSUME NEW h \in told \cup {0}, SendObjectInfoCut(h) PROVE OnItsWay'
  <2>1. NewObject(h, dataset[1]) /\ dataset # <<>> /\ adding' = adding /\ removing' = removing /\ missed' = missed
    BY <1>8 DEF SendObjectInfoCut, push
  <2>2. dataset[1] \in Datasets
    BY <2>1 DEF FilesInv
  <2> QED
    BY <2>1, <2>2, NewObjectWay, WayMore
<1>9. CASE SendObject
  <2>1. fs_db' = fs_db /\ adding' = adding /\ removing' = removing /\ missed' = missed
    BY <1>9 DEF SendObject, push
  <2> QED
    BY <2>1, SameLives, WayMore
<1>10. ASSUME NEW h \in told, DeleteObject(h) PROVE OnItsWay'
  <2>1. h # 0 /\ adding' = adding /\ removing' = removing
    BY <1>10 DEF DeleteObject, push
  <2>2. CASE fs_db' = fs_db /\ missed \subseteq missed'
    <3>1. (missed \cap (adding \cup removing)) \cup ({} \cap adding) \subseteq missed'
      BY <2>2
    <3>2. LivesBut(fs_db, fs_db', {})
      BY <2>2, SameLives
    <3> QED
      BY <2>1, <3>1, <3>2, WayStays
  <2>3. CASE fs_db' = Flag(fs_db, {h}) /\ Late({h})
    <3>1. LivesBut(fs_db, fs_db', {h})
      <4>1. 0 \notin {h}
        BY <2>1
      <4> QED
        BY <1>1, <2>3, <4>1, FlagLives
    <3> QED
      BY <2>1, <2>3, <3>1, WayFlag
  <2> QED
    BY <1>10, <2>2, <2>3 DEF DeleteObject, Late
<1>11. CASE DeleteFolder
  <2>1. op.h # 0 /\ op.h \in DOMAIN fs_db /\ op.from \in Seq(Names) /\ adding' = adding /\ removing' = removing
    BY <1>11 DEF DeleteFolder, push, FilesInv, OpIn
  <2>2. CASE fs_db' = Flag(fs_db, {op.h}) /\ Late({op.h})
    <3>1. LivesBut(fs_db, fs_db', {op.h})
      <4>1. 0 \notin {op.h}
        BY <2>1
      <4> QED
        BY <1>1, <2>2, <4>1, FlagLives
    <3> QED
      BY <2>1, <2>2, <3>1, WayFlag
  <2>3. ASSUME NEW order \in SetToSeqs(Missing(fs_db, fs, op.from, op.h)), NEW seen,
               seen = ScanAdd(fs_db, fs, op.from, op.h, order), NEW gone, gone = Gone(seen, fs, op.h),
               fs_db' = Flag(seen, gone), Late(gone)
        PROVE  OnItsWay'
    <3>1. More(fs_db, seen)
      BY <1>1, <2>1, <2>3, ScanDoes
    <3>2. LivesBut(fs_db, seen, {}) /\ Db(seen)
      BY <3>1, MoreLives DEF More
    <3>3. 0 \notin gone
      BY <2>3 DEF Gone, Children
    <3>4. LivesBut(seen, fs_db', gone)
      BY <2>3, <3>2, <3>3, FlagLives
    <3>5. LivesBut(fs_db, fs_db', gone)
      BY <3>2, <3>4, LivesTwice
    <3> QED
      BY <2>1, <2>3, <3>5, WayFlag
  <2> QED
    BY <1>11, <2>2, <2>3 DEF DeleteFolder
<1>12. ASSUME NEW h \in told, NEW n \in Names, SetName(h, n) PROVE OnItsWay'
  <2>1. /\ fs_db' = [fs_db EXCEPT ![h].name = n] /\ h # 0 /\ h \in DOMAIN fs_db
        /\ adding' = adding /\ removing' = removing /\ missed' = missed
    BY <1>12 DEF SetName, push, Live
  <2>2. HasName(fs_db, fs_db', h, n)
    BY <1>1, <2>1, SetNameDoes
  <2> QED
    BY <2>1, <2>2, NameLives, WayMore
<1>13. CASE RenameObject
  <2>1. adding' = adding /\ removing' = removing /\ missed' = missed
    BY <1>13 DEF RenameObject, push
  <2>2. op.h \in DOMAIN fs_db /\ op.h # 0 /\ op.old \in Names \cup {NoName}
    BY <1>13 DEF RenameObject, FilesInv, OpIn
  <2>3. CASE fs_db' = fs_db
    BY <2>1, <2>3, SameLives, WayMore
  <2>4. CASE fs_db' = [fs_db EXCEPT ![op.h].name = op.old]
    <3>1. HasName(fs_db, fs_db', op.h, op.old)
      BY <1>1, <2>2, <2>4, SetNameDoes
    <3> QED
      BY <2>1, <3>1, NameLives, WayMore
  <2> QED
    BY <1>13, <2>3, <2>4 DEF RenameObject
<1> QED
  BY <1>2, <1>3, <1>4, <1>5, <1>6, <1>7, <1>8, <1>9, <1>10, <1>11, <1>12, <1>13 DEF Host, Datasets

LEMMA RoundWay == FilesInv /\ OnItsWay /\ Round => OnItsWay'
<1> SUFFICES ASSUME FilesInv, OnItsWay, Round PROVE OnItsWay'
  OBVIOUS
<1>1. PICK ev : ev = Head(fs.queue)
  OBVIOUS
<1>2. /\ fs.queue # <<>> /\ adding = {} /\ removing = {} /\ missed' = missed
      /\ \/ UNCHANGED <<fs_db, push>>
         \/ Matches(ev.wd) # {} /\ (EntryAdded(Max(Matches(ev.wd)), ev.name) \/ EntryRemoved(Max(Matches(ev.wd)), ev.name))
  BY <1>1 DEF Round
<1>3. CASE UNCHANGED <<fs_db, push>>
  BY <1>2, <1>3 DEF OnItsWay, push
<1>4. CASE Matches(ev.wd) # {} /\ (EntryAdded(Max(Matches(ev.wd)), ev.name) \/ EntryRemoved(Max(Matches(ev.wd)), ev.name))
  <2>1. PICK h : h = Max(Matches(ev.wd))
    OBVIOUS
  <2>2. Db(fs_db) /\ Matches(ev.wd) \subseteq DOMAIN fs_db
    BY DEF Matches, FilesInv, DbIn
  <2>3. h \in DOMAIN fs_db
    BY <1>4, <2>1, <2>2, MaxIn
  <2>4. ev \in EventsOf(fs)
    BY <1>1, <1>2 DEF FilesInv, CardIn, Watches
  <2>5. ev.name \in Names
    BY <2>4 DEF EventsOf
  <2>6. CASE EntryAdded(h, ev.name)
    <3>1. More(fs_db, fs_db') /\ adding' = DOMAIN fs_db' \ DOMAIN fs_db /\ removing' = removing
      BY <2>3, <2>5, <2>6, EntryAddedIn
    <3> QED
      BY <1>2, <3>1 DEF OnItsWay, Announces, More
  <2>7. CASE EntryRemoved(h, ev.name)
    <3>1. PICK gone : gone \subseteq DOMAIN fs_db /\ fs_db' = Flag(fs_db, gone) /\ removing' = gone /\ adding' = adding /\ 0 \notin gone
      BY <2>3, <2>5, <2>7, EntryRemovedIn
    <3>2. PICK e : e = fs_db'
      OBVIOUS
    <3>3. Less(fs_db, e) /\ Flags(fs_db, e, gone)
      BY <2>2, <3>1, <3>2, FlagDoes
    <3>4. \A x \in gone : x \in DOMAIN e /\ ~ e[x].live
      BY <3>1, <3>3 DEF Less, Flags, Flagged
    <3> QED
      BY <1>2, <3>1, <3>2, <3>4 DEF OnItsWay, Announces
  <2> QED
    BY <1>4, <2>1, <2>6, <2>7
<1> QED
  BY <1>2, <1>3, <1>4

LEMMA FilesNextIn == FilesInv /\ OnItsWay /\ [FilesNext]_fileVars => FilesInv' /\ OnItsWay'
<1> SUFFICES ASSUME FilesInv, OnItsWay, [FilesNext]_fileVars PROVE FilesInv' /\ OnItsWay'
  OBVIOUS
<1>1. CASE UNCHANGED fileVars
  BY <1>1, FilesSame DEF fileVars, OnItsWay
<1>2. CASE Round
  BY <1>2, RoundIn, RoundWay
<1>3. CASE Device
  <2>1. fs_db' = fs_db /\ adding' = adding /\ removing' = removing /\ missed' = missed
    BY <1>3 DEF Device, DevCreate, DevRemove, DevRename, push
  <2> QED
    BY <1>3, <2>1, DeviceIn, SameLives, WayMore
<1>4. CASE Push \/ PushDropped
  <2>1. adding' = {} /\ removing' = {}
    BY <1>4 DEF Push, PushDropped
  <2> QED
    BY <1>4, <2>1, PushIn DEF OnItsWay, Announces
<1>5. CASE Host
  <2>1. FilesInv'
    BY <1>5, OpenSessionIn, DropIn, ListFolderIn, ListDropIn, ListReplyIn, SendObjectInfoIn, SendObjectInfoCutIn,
       SendObjectIn, DeleteObjectIn, DeleteFolderIn, SetNameIn, RenameObjectIn DEF Host, Datasets
  <2> QED
    BY <1>5, <2>1, HostWay
<1> QED
  BY <1>1, <1>2, <1>3, <1>4, <1>5 DEF FilesNext

LEMMA InitWay == FilesInit => OnItsWay
BY DEF FilesInit, OnItsWay, Announces

\* The database is always sound: handles are dense and older than their children, the host is told
\* of entries that exist, and whatever order listings, uploads, events and the console's own
\* changes come in, a file has one handle unless the host renamed an entry (alloc_entry,
\* search_entry, add_entry).
THEOREM FilesAreSound == FilesSpec => []DbIsSound
<1>1. FilesInv => DbIsSound
  <2> SUFFICES ASSUME FilesInv PROVE DbIsSound
    OBVIOUS
  <2>1. Db(fs_db) /\ Card(fs) /\ TwinFree(fs_db, renamed) /\ DbIn(fs_db, renamed, fs.wds, told)
    BY DEF FilesInv, CardIn, DbIn
  <2>2. DOMAIN fs.disk \subseteq Paths /\ \A p \in DOMAIN fs.disk : IsDir(fs, Front(p))
    BY <2>1 DEF Card, Tree
  <2>3. DOMAIN fs_db = 0 .. (Cardinality(DOMAIN fs_db) - 1)
    BY <2>1 DEF Db
  <2>4. \A h \in DOMAIN fs_db : fs_db[h] \in Entry /\ fs_db[h].wd <= fs.wds /\ (h # 0 => fs_db[h].parent < h)
    BY <2>1 DEF Db, DbIn
  <2>5. told \subseteq DOMAIN fs_db \ {0}
    BY <2>1 DEF DbIn
  <2>6. NoTwins
    BY <2>1 DEF NoTwins, TwinFree
  <2>7. FilesTypeOK
    BY <2>2, <2>3, <2>4, <2>5 DEF FilesTypeOK
  <2> QED
    BY <2>6, <2>7 DEF DbIsSound
<1> QED
  BY <1>1, FilesInitIn, InitWay, FilesNextIn, PTL DEF FilesSpec

\* Whatever the host, the inotify thread and the console's programs do to the card, the last event
\* that waits for the thread about a name in a watched folder says whether a file of that name is
\* there now, although the kernel merges events and a rename is two of them (inotify_thread).
THEOREM EventsTell == FilesSpec => []Tells(fs)
<1>1. FilesInv => Tells(fs)
  BY DEF FilesInv, CardIn
<1> QED
  BY <1>1, FilesInitIn, InitWay, FilesNextIn, PTL DEF FilesSpec

-----------------------------------------------------------------------------
(* DATABASE, CARD AND HOST.  What keeps them in step.                      *)

\* The watch of a folder, and the descriptors in use.
WatchAt(f, p, w) == Watching(f, p) /\ f.watch[Ino(f, p)] = w
Values(f) == {f.watch[i] : i \in DOMAIN f.watch}

\* An entry that holds a watch leads to what is watched, unless the host saw it move, or what was
\* above it is gone.
KeptAt(f, d, B, h) ==
  d[h].live /\ h \notin B /\ d[h].wd \in Values(f) /\ build_full_path(d, h) # <<>> => WatchAt(f, build_full_path(d, h), d[h].wd)

\* Watched, of a card and a database.
Follows(f, d, B, R, h) ==
  d[h].live /\ h \notin B /\ WatchAt(f, build_full_path(d, h), d[h].wd) /\ \A r \in R : d[r].parent # h

\* The events about a name that are still to reach an entry: of the first one, the entries from the
\* cursor on have been told.
Awaits(f, c, h, w, n) == {i \in DOMAIN f.queue : About(f.queue[i], w, n) /\ (i > 1 \/ c = <<>> \/ h < c[1])}
Known(d, h, n) == \E x \in Children(d, h) : d[x].name = n
SeenAt(f, d, c, h) ==
  \A n \in Names : Awaits(f, c, h, d[h].wd, n) = {} => (n \in Kids(f, build_full_path(d, h)) <=> Known(d, h, n))
HostAt(d, t, h) == Children(d, h) = {x \in t : d[x].parent = h}

\* What is in a folder that is followed is in the database, or its event is on the way; and the
\* host knows what the database does.
InStepAt(f, d, t, B, R, c, W, h) ==
  KeptAt(f, d, B, h) /\ (Follows(f, d, B, R, h) => HostAt(d, t, h) /\ (W \/ SeenAt(f, d, c, h)))
CursorIn(f, c) == c = <<>> \/ (f.queue # <<>> /\ c[1] \in Nat)

LEMMA FolderIs == \A f, p : IsDir(f, p) <=> p \in Folders(f)
BY DEF IsDir, Folders

\* A descriptor belongs to one folder.
LEMMA WatchIsOne ==
  ASSUME NEW f, Card(f), Watches(f), NEW x, NEW y, NEW w, WatchAt(f, x, w), WatchAt(f, y, w)
  PROVE  x = y
<1>1. x \in Folders(f) /\ y \in Folders(f) /\ Ino(f, x) = Ino(f, y)
  BY FolderIs DEF WatchAt, Watching, Watches
<1>2. \A p \in DOMAIN f.disk : f.disk[p].ino \in Nat \ {0} /\ p # <<>>
  BY Nodes
<1>3. CASE x = <<>>
  BY <1>1, <1>2, <1>3 DEF Ino, Folders
<1>4. CASE y = <<>>
  BY <1>1, <1>2, <1>4 DEF Ino, Folders
<1>5. CASE x # <<>> /\ y # <<>>
  BY <1>1, <1>5 DEF Ino, Folders, Card, Tree
<1> QED
  BY <1>3, <1>4, <1>5

LEMMA WatchValue ==
  ASSUME NEW f, Watches(f), f.wds \in Nat
  PROVE  /\ \A x, w : WatchAt(f, x, w) => w \in Values(f)
         /\ \A w \in Values(f) : w \in Nat /\ w <= f.wds /\ w # NoWd
BY DEF WatchAt, Watching, Values, Watches, NoWd

\* A folder that is followed after a change of the card was followed before.
LEMMA FollowedBefore ==
  ASSUME NEW f, Card(f), Watches(f), NEW g, NEW y, NEW d, NEW h, NEW B, NEW C, B \subseteq C, NEW R,
         KeptAt(f, d, B, h), Follows(g, d, C, R, h), SameWatch(f, y, g, build_full_path(d, h)),
         Card(g)
  PROVE  y = build_full_path(d, h) /\ Follows(f, d, B, R, h)
<1> DEFINE p == build_full_path(d, h)
<1>1. WatchAt(f, y, d[h].wd)
  BY FolderIs DEF SameWatch, WatchAt, Follows
<1>2. WatchAt(f, p, d[h].wd)
  <2>1. CASE p # <<>>
    <3>1. d[h].wd \in Values(f)
      BY <1>1 DEF WatchAt, Watching, Values
    <3> QED
      BY <2>1, <3>1 DEF KeptAt, Follows
  <2>2. CASE p = <<>>
    <3>1. Ino(f, y) = 0
      BY <2>2 DEF SameWatch, Ino
    <3>2. y = <<>>
      BY <3>1, Nodes DEF SameWatch, Ino, Folders
    <3> QED
      BY <1>1, <2>2, <3>2
  <2> QED
    BY <2>1, <2>2
<1>3. y = p
  BY <1>1, <1>2, WatchIsOne
<1> QED
  BY <1>2, <1>3 DEF Follows

\* The events that an entry awaits, after new ones.
LEMMA AwaitsMore ==
  ASSUME NEW f, NEW g, Watches(f), Watches(g), Extends(f, g), NEW c, CursorIn(f, c), NEW h, NEW w, NEW n,
         Awaits(g, c, h, w, n) = {}
  PROVE  Awaits(f, c, h, w, n) = {} /\ News(f, g, w, n) = {}
<1>1. Len(f.queue) \in Nat /\ DOMAIN f.queue = 1 .. Len(f.queue) /\ Len(g.queue) \in Nat /\ DOMAIN g.queue = 1 .. Len(g.queue)
  BY DEF Watches
<1>2. Awaits(f, c, h, w, n) = {}
  <2> SUFFICES ASSUME NEW i \in Awaits(f, c, h, w, n) PROVE FALSE
    OBVIOUS
  <2>1. i \in DOMAIN f.queue /\ About(f.queue[i], w, n) /\ (i > 1 \/ c = <<>> \/ h < c[1])
    BY DEF Awaits
  <2>2. i \in DOMAIN g.queue /\ g.queue[i] = f.queue[i]
    BY <1>1, <2>1 DEF Extends
  <2> QED
    BY <2>1, <2>2 DEF Awaits
<1>3. News(f, g, w, n) = {}
  <2> SUFFICES ASSUME NEW i \in News(f, g, w, n) PROVE FALSE
    OBVIOUS
  <2>1. i \in DOMAIN g.queue /\ i > Len(f.queue) /\ About(g.queue[i], w, n)
    BY DEF News
  <2>2. i > 1 \/ c = <<>>
    <3>1. CASE c # <<>>
      <4>1. f.queue # <<>> /\ f.queue \in Seq(EventsOf(f))
        BY <3>1 DEF CursorIn, Watches
      <4>2. Len(f.queue) # 0
        BY <4>1
      <4> QED
        BY <1>1, <2>1, <4>2
    <3> QED
      BY <3>1
  <2> QED
    BY <2>1, <2>2 DEF Awaits
<1> QED
  BY <1>2, <1>3

\* A change of the card keeps an entry in step when its watch still leads where its path does.
LEMMA CardStep ==
  ASSUME NEW f, Card(f), Watches(f), NEW g, Card(g), Watches(g), StepsBut(f, g, {}),
         NEW c, CursorIn(f, c), NEW d, NEW h, NEW t, NEW B, NEW C, B \subseteq C, NEW R, NEW W,
         InStepAt(f, d, t, B, R, c, W, h), KeptAt(g, d, C, h)
  PROVE  InStepAt(g, d, t, C, R, c, W, h)
<1> SUFFICES ASSUME Follows(g, d, C, R, h) PROVE HostAt(d, t, h) /\ (W \/ SeenAt(g, d, c, h))
  BY DEF InStepAt
<1> DEFINE p == build_full_path(d, h)
           w == d[h].wd
<1>1. p \in Folders(g) /\ Watching(g, p) /\ g.watch[Ino(g, p)] = w
  BY FolderIs DEF Follows, WatchAt, Watching
<1>2. PICK y \in Folders(f) : SameWatch(f, y, g, p) /\ \A n \in Names : NewsTell(f, y, g, p, n)
  BY <1>1 DEF StepsBut
<1>3. y = p /\ Follows(f, d, B, R, h)
  BY <1>2, FollowedBefore DEF InStepAt
<1>4. HostAt(d, t, h) /\ (W \/ SeenAt(f, d, c, h))
  BY <1>3 DEF InStepAt
<1>5. ASSUME SeenAt(f, d, c, h) PROVE SeenAt(g, d, c, h)
  <2> SUFFICES ASSUME NEW n \in Names, Awaits(g, c, h, w, n) = {} PROVE n \in Kids(g, p) <=> Known(d, h, n)
    BY DEF SeenAt
  <2>1. Awaits(f, c, h, w, n) = {} /\ News(f, g, w, n) = {}
    BY AwaitsMore DEF StepsBut
  <2>2. n \in Kids(f, p) <=> Known(d, h, n)
    BY <1>5, <2>1 DEF SeenAt
  <2>3. n \in Kids(g, p) <=> n \in Kids(f, p)
    BY <1>1, <1>2, <1>3, <2>1 DEF NewsTell
  <2> QED
    BY <2>2, <2>3
<1> QED
  BY <1>4, <1>5

LEMMA CursorStays ==
  ASSUME NEW f, NEW g, Watches(f), Watches(g), Extends(f, g), NEW c, CursorIn(f, c)
  PROVE  CursorIn(g, c)
<1> SUFFICES ASSUME c # <<>> PROVE g.queue # <<>>
  BY DEF CursorIn
<1>1. f.queue # <<>> /\ f.queue \in Seq(EventsOf(f)) /\ g.queue \in Seq(EventsOf(g))
  BY DEF CursorIn, Watches
<1>2. Len(f.queue) # 0 /\ Len(f.queue) \in Nat /\ Len(g.queue) \in Nat
  BY <1>1
<1>3. Len(g.queue) # 0
  BY <1>2 DEF Extends
<1> QED
  BY <1>3

\* What a new node, nodes that go and a move leave of the watches.
LEMMA KeptNew ==
  ASSUME NEW f, Card(f), NEW g, NEW p, NEW dir, HasNew(f, g, p, dir), NEW d, NEW h, NEW B, NEW C, B \subseteq C, KeptAt(f, d, B, h)
  PROVE  KeptAt(g, d, C, h)
<1> DEFINE r == build_full_path(d, h)
<1> SUFFICES ASSUME d[h].live, h \notin C, d[h].wd \in Values(g), r # <<>> PROVE WatchAt(g, r, d[h].wd)
  BY DEF KeptAt
<1>1. WatchAt(f, r, d[h].wd)
  BY DEF KeptAt, HasNew, Values
<1>2. r \in DOMAIN f.disk /\ f.disk[r].dir
  BY <1>1 DEF WatchAt, Watching, IsDir
<1>3. r \in DOMAIN g.disk /\ g.disk[r] = f.disk[r] /\ g.watch = f.watch
  BY <1>2 DEF HasNew
<1> QED
  BY <1>1, <1>2, <1>3 DEF WatchAt, Watching, IsDir, Ino

LEMMA KeptCut ==
  ASSUME NEW f, Card(f), Watches(f), NEW g, NEW R, R \subseteq DOMAIN f.disk, HasCut(f, g, R),
         NEW d, NEW h, NEW B, NEW C, B \subseteq C, KeptAt(f, d, B, h)
  PROVE  KeptAt(g, d, C, h)
<1> DEFINE r == build_full_path(d, h)
<1> SUFFICES ASSUME d[h].live, h \notin C, d[h].wd \in Values(g), r # <<>> PROVE WatchAt(g, r, d[h].wd)
  BY DEF KeptAt
<1>1. PICK i \in DOMAIN g.watch : g.watch[i] = d[h].wd
  BY DEF Values
<1>2. i \in DOMAIN f.watch /\ f.watch[i] = d[h].wd /\ \A q \in R : f.disk[q].ino # i
  BY <1>1 DEF HasCut
<1>3. WatchAt(f, r, d[h].wd)
  BY <1>2 DEF KeptAt, Values
<1>4. i = Ino(f, r) /\ r \in Folders(f)
  BY <1>2, <1>3, FolderIs DEF WatchAt, Watching, Watches
<1>5. r \notin R
  BY <1>2, <1>4 DEF Ino
<1>6. r \in Folders(g) /\ Ino(g, r) = Ino(f, r)
  BY <1>4, <1>5 DEF HasCut
<1> QED
  BY <1>1, <1>4, <1>6, FolderIs DEF WatchAt, Watching

LEMMA KeptMoved ==
  ASSUME NEW f, Card(f), Watches(f), NEW g, NEW p, NEW q, HasMoved(f, g, p, q), p \in DOMAIN f.disk,
         NEW d, NEW h, NEW B, NEW C, B \subseteq C, KeptAt(f, d, B, h),
         d[h].live /\ h \notin C /\ d[h].wd \in Values(f) /\ build_full_path(d, h) # <<>> => ~ Passes(build_full_path(d, h), p)
  PROVE  KeptAt(g, d, C, h)
<1> DEFINE r == build_full_path(d, h)
<1> SUFFICES ASSUME d[h].live, h \notin C, d[h].wd \in Values(g), r # <<>> PROVE WatchAt(g, r, d[h].wd)
  BY DEF KeptAt
<1>1. PICK i \in DOMAIN g.watch : g.watch[i] = d[h].wd
  BY DEF Values
<1>2. i \in DOMAIN f.watch /\ f.watch[i] = d[h].wd /\ (q \in DOMAIN f.disk => f.disk[q].ino # i)
  BY <1>1 DEF HasMoved
<1>3. WatchAt(f, r, d[h].wd) /\ ~ Passes(r, p)
  BY <1>2 DEF KeptAt, Values
<1>4. i = Ino(f, r) /\ r \in DOMAIN f.disk /\ f.disk[r].dir
  BY <1>2, <1>3 DEF WatchAt, Watching, Watches, IsDir
<1>5. r # q
  BY <1>2, <1>4 DEF Ino
<1>6. r # p
  <2>1. p \in Seq(Names)
    BY Nodes
  <2>2. Len(p) \in Nat /\ SubSeq(p, 1, Len(p)) = p
    BY <2>1
  <2>3. Passes(p, p)
    BY <2>2 DEF Passes
  <2> QED
    BY <1>3, <2>3
<1>7. r \in Stays(f, p, q)
  BY <1>3, <1>4, <1>5, <1>6 DEF Stays, Below
<1>8. r \in DOMAIN g.disk /\ g.disk[r] = f.disk[r]
  BY <1>7 DEF HasMoved
<1> QED
  BY <1>1, <1>4, <1>8 DEF WatchAt, Watching, IsDir, Ino

\* Watches that are given up.
LEMMA KeptLess ==
  ASSUME NEW f, Card(f), Watches(f), NEW ws, NEW g, g = RmWatch(f, ws), NEW d, NEW h, NEW t, NEW B, NEW R, NEW c, NEW W,
         InStepAt(f, d, t, B, R, c, W, h)
  PROVE  InStepAt(g, d, t, B, R, c, W, h)
<1> DEFINE p == build_full_path(d, h)
<1>1. /\ g.disk = f.disk /\ g.inos = f.inos /\ g.queue = f.queue
      /\ DOMAIN g.watch = {i \in DOMAIN f.watch : f.watch[i] \notin ws}
      /\ \A i \in DOMAIN g.watch : g.watch[i] = f.watch[i]
  BY RmWatchDoes
<1>2. IsDir(g, p) = IsDir(f, p) /\ Ino(g, p) = Ino(f, p) /\ Kids(g, p) = Kids(f, p)
  BY <1>1, SameNodes
<1>3. \A w : WatchAt(g, p, w) <=> WatchAt(f, p, w) /\ w \notin ws
  BY <1>1, <1>2 DEF WatchAt, Watching
<1>4. \A w \in Values(g) : w \in Values(f) /\ w \notin ws
  BY <1>1 DEF Values
<1>5. KeptAt(g, d, B, h)
  BY <1>3, <1>4 DEF InStepAt, KeptAt
<1>6. Follows(g, d, B, R, h) => Follows(f, d, B, R, h)
  BY <1>3 DEF Follows
<1>7. SeenAt(f, d, c, h) => SeenAt(g, d, c, h)
  BY <1>1, <1>2 DEF SeenAt, Awaits
<1> QED
  BY <1>5, <1>6, <1>7 DEF InStepAt

-----------------------------------------------------------------------------
(* What changes the paths of the entries.                                  *)

\* Outside of S, names, and what paths are built from, are as they were.
SameUp(d, e, S) ==
  \A x \in DOMAIN d \ S :
    /\ e[x].name = d[x].name /\ e[x].parent = d[x].parent
    /\ d[x].parent # 0 => /\ e[d[x].parent].live = d[d[x].parent].live
                          /\ d[d[x].parent].live => d[x].parent \notin S
LEMMA PathsStay ==
  ASSUME NEW d, Db(d), NEW e, Db(e), DOMAIN d \subseteq DOMAIN e, NEW S, SameUp(d, e, S)
  PROVE  \A x \in DOMAIN d \ S : build_full_path(e, x) = build_full_path(d, x)
<1> DEFINE T == {x \in DOMAIN d \ S : build_full_path(e, x) # build_full_path(d, x)}
<1>1. \A h \in DOMAIN d : h \in Nat
  BY Entries
<1>2. ASSUME NEW x \in DOMAIN d \ S, \A i \in DOMAIN d \ S : i < x => build_full_path(e, i) = build_full_path(d, i)
      PROVE  build_full_path(e, x) = build_full_path(d, x)
  <2>1. d[x].parent \in DOMAIN d /\ (d[x].parent < x \/ (x = 0 /\ d[x].parent = 0))
    BY Entries
  <2>2. /\ e[x].name = d[x].name /\ e[x].parent = d[x].parent
        /\ d[x].parent # 0 => /\ e[d[x].parent].live = d[d[x].parent].live
                              /\ d[d[x].parent].live => d[x].parent \notin S
    BY DEF SameUp
  <2>3. Up(e, x) = Up(d, x)
    BY <1>2, <2>1, <2>2 DEF Up
  <2>4. build_full_path(d, x) = IF x = 0 \/ d[x].name = NoName THEN Up(d, x) ELSE Append(Up(d, x), d[x].name)
    BY PathIs
  <2>5. build_full_path(e, x) = IF x = 0 \/ e[x].name = NoName THEN Up(e, x) ELSE Append(Up(e, x), e[x].name)
    BY PathIs
  <2> HIDE DEF Up
  <2> QED
    BY <2>2, <2>3, <2>4, <2>5
<1>3. T = {}
  <2> SUFFICES ASSUME T # {} PROVE FALSE
    OBVIOUS
  <2>1. PICK h \in T : \A i \in T : h <= i
    BY <1>1, NatMin
  <2>2. \A i \in DOMAIN d : i < h => i \notin T
    BY <1>1, <2>1
  <2>3. build_full_path(e, h) = build_full_path(d, h)
    BY <1>2, <2>2
  <2> QED
    BY <2>3
<1> QED
  BY <1>3

\* Children of H flagged: what is not younger than H keeps its path, and a short path stays or is lost.
ChildrenOf(d, hs, H) == \A x \in hs : x \in DOMAIN d /\ x # 0 /\ d[x].parent = H
LEMMA FlagUp ==
  ASSUME NEW d, Db(d), NEW H \in DOMAIN d, NEW hs, ChildrenOf(d, hs, H), NEW e, Less(d, e), Flags(d, e, hs)
  PROVE  /\ \A x \in DOMAIN d : x <= H => build_full_path(e, x) = build_full_path(d, x)
         /\ \A x \in DOMAIN d : e[x].live => d[x].live /\ x \notin hs /\ e[x] = d[x]
         /\ \A x \in DOMAIN d : x \notin hs => e[x] = d[x]
         /\ \A x \in DOMAIN d : e[x].parent = d[x].parent /\ e[x].name = d[x].name
<1> DEFINE S == {x \in DOMAIN d : x > H}
<1>1. \A x \in DOMAIN d : /\ e[x].parent = d[x].parent /\ e[x].name = d[x].name
                          /\ x \in hs => e[x].live = FALSE
                          /\ x \notin hs => e[x] = d[x]
  BY DEF Flags, Flagged
<1>2. \A x \in DOMAIN d : x \in Nat /\ d[x].parent \in DOMAIN d /\ (d[x].parent < x \/ (x = 0 /\ d[x].parent = 0))
  BY Entries
<1>3. \A x \in hs : x > H
  BY <1>2 DEF ChildrenOf
<1>4. SameUp(d, e, S)
  <2> SUFFICES ASSUME NEW x \in DOMAIN d, ~ (x > H)
               PROVE  /\ e[x].name = d[x].name /\ e[x].parent = d[x].parent
                      /\ d[x].parent # 0 => e[d[x].parent].live = d[d[x].parent].live /\ d[x].parent \notin S
    BY DEF SameUp
  <2>1. d[x].parent \notin hs /\ d[x].parent \notin S
    BY <1>2, <1>3
  <2> QED
    BY <1>1, <1>2, <2>1
<1>5. \A x \in DOMAIN d \ S : build_full_path(e, x) = build_full_path(d, x)
  <2> HIDE DEF S
  <2> QED
    BY <1>4, PathsStay DEF Less
<1>6. \A x \in DOMAIN d : x <= H => x \notin S
  BY <1>2
<1> QED
  BY <1>1, <1>5, <1>6

LEMMA FlagPaths ==
  ASSUME NEW d, Db(d), NEW e, Less(d, e)
  PROVE  \A x \in DOMAIN d : Len(build_full_path(d, x)) <= 1 => build_full_path(e, x) \in {build_full_path(d, x), <<>>}
<1> DEFINE T == {x \in DOMAIN d : Len(build_full_path(d, x)) <= 1 /\ build_full_path(e, x) \notin {build_full_path(d, x), <<>>}}
<1>1. \A h \in DOMAIN d : h \in Nat
  BY Entries
<1>2. ASSUME NEW x \in DOMAIN d, Len(build_full_path(d, x)) <= 1,
             \A i \in DOMAIN d : i < x /\ Len(build_full_path(d, i)) <= 1 => build_full_path(e, i) \in {build_full_path(d, i), <<>>}
      PROVE  build_full_path(e, x) \in {build_full_path(d, x), <<>>}
  <2>1. d[x].parent \in DOMAIN d /\ (d[x].parent < x \/ (x = 0 /\ d[x].parent = 0))
    BY Entries
  <2>2. /\ e[x].name = d[x].name /\ e[x].parent = d[x].parent /\ Db(e) /\ DOMAIN e = DOMAIN d
        /\ e[d[x].parent].live => d[d[x].parent].live
    BY <2>1 DEF Less
  <2>3. Up(d, x) \in Seq(Names) /\ Up(e, x) \in Seq(Names) /\ d[x].name \in Names \cup {NoName}
    BY <2>2, PathTypes, Entries
  <2>4. Len(Up(d, x)) <= 1 => Up(e, x) \in {Up(d, x), <<>>}
    BY <1>2, <2>1, <2>2 DEF Up
  <2>5. build_full_path(d, x) = IF x = 0 \/ d[x].name = NoName THEN Up(d, x) ELSE Append(Up(d, x), d[x].name)
    BY PathIs
  <2>6. build_full_path(e, x) = IF x = 0 \/ e[x].name = NoName THEN Up(e, x) ELSE Append(Up(e, x), e[x].name)
    BY <2>2, PathIs
  <2> HIDE DEF Up
  <2>7. CASE x = 0 \/ d[x].name = NoName
    BY <1>2, <2>2, <2>4, <2>5, <2>6, <2>7
  <2>8. CASE x # 0 /\ d[x].name # NoName
    <3>1. Len(build_full_path(d, x)) = Len(Up(d, x)) + 1 /\ Len(Up(d, x)) \in Nat
      BY <2>3, <2>5, <2>8
    <3>2. Len(Up(d, x)) = 0
      BY <1>2, <3>1
    <3>3. Up(d, x) = <<>>
      BY <2>3, <3>2
    <3>4. Up(e, x) = <<>>
      BY <2>4, <3>2, <3>3
    <3> QED
      BY <2>2, <2>5, <2>6, <2>8, <3>3, <3>4
  <2> QED
    BY <2>7, <2>8
<1>3. T = {}
  <2> SUFFICES ASSUME T # {} PROVE FALSE
    OBVIOUS
  <2>1. PICK h \in T : \A i \in T : h <= i
    BY <1>1, NatMin
  <2>2. \A i \in DOMAIN d : i < h => i \notin T
    BY <1>1, <2>1
  <2>3. build_full_path(e, h) \in {build_full_path(d, h), <<>>}
    BY <1>2, <2>1, <2>2
  <2> QED
    BY <2>1, <2>3
<1> QED
  BY <1>3

-----------------------------------------------------------------------------
(* More entries, and less.                                                 *)

LEMMA MorePaths ==
  ASSUME NEW d, Db(d), NEW e, More(d, e)
  PROVE  \A x \in DOMAIN d : build_full_path(e, x) = build_full_path(d, x)
<1>1. Db(e) /\ DOMAIN d \subseteq DOMAIN e /\ \A x \in DOMAIN d : e[x] = d[x] /\ d[x].parent \in DOMAIN d
  BY Entries DEF More
<1>2. SameUp(d, e, {})
  BY <1>1 DEF SameUp
<1> QED
  BY <1>1, <1>2, PathsStay

LEMMA MoreFollow ==
  ASSUME NEW f, NEW d, Db(d), NEW e, More(d, e), NEW B, NEW R, R \subseteq DOMAIN d, NEW h \in DOMAIN d
  PROVE  /\ KeptAt(f, d, B, h) => KeptAt(f, e, B, h)
         /\ Follows(f, e, B, R, h) => Follows(f, d, B, R, h)
         /\ e[h] = d[h] /\ build_full_path(e, h) = build_full_path(d, h)
<1>1. \A x \in DOMAIN d : e[x] = d[x]
  BY DEF More
<1>2. build_full_path(e, h) = build_full_path(d, h)
  BY MorePaths
<1> QED
  BY <1>1, <1>2 DEF KeptAt, Follows

\* New entries, all children of H, leave the others in step.
NewIn(d, e, H) == \A x \in DOMAIN e \ DOMAIN d : e[x].parent = H
LEMMA MoreAt ==
  ASSUME NEW f, Watches(f), f.wds \in Nat, NEW d, Db(d), NEW e, More(d, e), NEW H, NewIn(d, e, H),
         NEW t, NEW t2, t \subseteq t2, t \subseteq DOMAIN d, \A x \in t2 \ t : e[x].parent = H,
         NEW B, NEW R, R \subseteq DOMAIN d, NEW c, NEW W, NEW h \in DOMAIN e, h # H,
         h \in DOMAIN d => InStepAt(f, d, t, B, R, c, W, h)
  PROVE  InStepAt(f, e, t2, B, R, c, W, h)
<1>1. CASE h \in DOMAIN d
  <2>1. /\ KeptAt(f, d, B, h) => KeptAt(f, e, B, h)
        /\ Follows(f, e, B, R, h) => Follows(f, d, B, R, h)
        /\ e[h] = d[h] /\ build_full_path(e, h) = build_full_path(d, h)
    BY <1>1, MoreFollow
  <2>2. \A x \in DOMAIN d : x \in DOMAIN e /\ e[x] = d[x]
    BY DEF More
  <2>3. Children(e, h) = Children(d, h)
    BY <2>2 DEF Children, NewIn
  <2>4. {x \in t2 : e[x].parent = h} = {x \in t : d[x].parent = h}
    BY <2>2
  <2>5. HostAt(d, t, h) => HostAt(e, t2, h)
    BY <2>3, <2>4 DEF HostAt
  <2>6. \A n : Known(e, h, n) <=> Known(d, h, n)
    BY <2>2, <2>3 DEF Known, Children
  <2>7. SeenAt(f, d, c, h) => SeenAt(f, e, c, h)
    BY <2>1, <2>6 DEF SeenAt
  <2> QED
    BY <1>1, <2>1, <2>5, <2>7 DEF InStepAt
<1>2. CASE h \notin DOMAIN d
  <2>1. e[h].wd = NoWd
    BY <1>2 DEF More
  <2>2. e[h].wd \notin Values(f) /\ \A p : ~ WatchAt(f, p, e[h].wd)
    BY <2>1, WatchValue
  <2> QED
    BY <2>2 DEF InStepAt, KeptAt, Follows
<1> QED
  BY <1>1, <1>2

\* A folder that is watched is short.
LEMMA WatchedIsShort ==
  ASSUME NEW f, Card(f), NEW p, NEW w, WatchAt(f, p, w)
  PROVE  Len(p) <= 1
<1>1. p = <<>> \/ (p \in DOMAIN f.disk /\ f.disk[p].dir)
  BY DEF WatchAt, Watching, IsDir
<1>2. CASE p = <<>>
  <2>1. Len(p) = 0
    BY <1>2
  <2> QED
    BY <2>1
<1>3. CASE p \in DOMAIN f.disk /\ f.disk[p].dir
  BY <1>3, Nodes DEF MaxDepth
<1> QED
  BY <1>1, <1>2, <1>3

\* Some children of H flagged deleted.
Flagging(d, e, hs, H) == Db(d) /\ H \in DOMAIN d /\ ChildrenOf(d, hs, H) /\ Less(d, e) /\ Flags(d, e, hs)
LEMMA FlagFollow ==
  ASSUME NEW f, Card(f), Watches(f), NEW d, NEW e, NEW hs, NEW H, Flagging(d, e, hs, H),
         NEW B, NEW R, R \subseteq DOMAIN d, NEW h \in DOMAIN d, KeptAt(f, d, B, h)
  PROVE  /\ KeptAt(f, e, B, h)
         /\ e[h].live /\ h \notin B /\ e[h].wd \in Values(f) /\ build_full_path(e, h) # <<>> =>
              /\ e[h] = d[h] /\ build_full_path(e, h) = build_full_path(d, h)
         /\ Follows(f, e, B, R, h) =>
              /\ Follows(f, d, B, R, h)
              /\ e[h] = d[h] /\ build_full_path(e, h) = build_full_path(d, h)
<1> DEFINE p == build_full_path(d, h)
           q == build_full_path(e, h)
<1>1. /\ e[h].live => d[h].live /\ h \notin hs /\ e[h] = d[h]
      /\ \A x \in DOMAIN d : e[x].parent = d[x].parent
  BY FlagUp DEF Flagging
<1>2. Len(p) <= 1 => q \in {p, <<>>}
  BY FlagPaths DEF Flagging
<1>3. d[h].live /\ h \notin B /\ d[h].wd \in Values(f) /\ p # <<>> => WatchAt(f, p, d[h].wd) /\ Len(p) <= 1
  BY WatchedIsShort DEF KeptAt
<1>4. Len(<<>>) <= 1
  <2>1. Len(<<>>) = 0
    OBVIOUS
  <2> QED
    BY <2>1
<1>5. ASSUME e[h].live, h \notin B, e[h].wd \in Values(f), q # <<>> PROVE e[h] = d[h] /\ q = p /\ WatchAt(f, p, d[h].wd)
  BY <1>1, <1>2, <1>3, <1>4, <1>5
<1>6. KeptAt(f, e, B, h)
  BY <1>5 DEF KeptAt
<1>7. ASSUME Follows(f, e, B, R, h) PROVE Follows(f, d, B, R, h) /\ e[h] = d[h] /\ q = p
  <2>1. e[h].live /\ h \notin B /\ WatchAt(f, q, e[h].wd) /\ e[h] = d[h] /\ d[h].live /\ \A r \in R : d[r].parent # h
    BY <1>1, <1>7 DEF Follows
  <2>2. e[h].wd \in Values(f)
    BY <2>1 DEF WatchAt, Watching, Values
  <2>3. q = p
    <3>1. CASE q = <<>>
      <4>1. p = <<>>
        <5> SUFFICES ASSUME p # <<>> PROVE FALSE
          OBVIOUS
        <5>1. WatchAt(f, p, d[h].wd)
          BY <1>3, <2>1, <2>2
        <5> QED
          BY <2>1, <3>1, <5>1, WatchIsOne
      <4> QED
        BY <3>1, <4>1
    <3>2. CASE q # <<>>
      BY <1>5, <2>1, <2>2, <3>2
    <3> QED
      BY <3>1, <3>2
  <2> QED
    BY <2>1, <2>3 DEF Follows
<1> QED
  BY <1>5, <1>6, <1>7

LEMMA FlagAt ==
  ASSUME NEW f, Card(f), Watches(f), NEW d, NEW e, NEW hs, NEW H, Flagging(d, e, hs, H),
         NEW B, NEW R, R \subseteq DOMAIN d, NEW t, t \subseteq DOMAIN d, NEW t2, t2 \subseteq t, t \ hs \subseteq t2,
         NEW c, NEW W, NEW h \in DOMAIN d, h # H, InStepAt(f, d, t, B, R, c, W, h)
  PROVE  InStepAt(f, e, t2, B, R, c, W, h)
<1>1. /\ KeptAt(f, e, B, h)
      /\ Follows(f, e, B, R, h) =>
           Follows(f, d, B, R, h) /\ e[h] = d[h] /\ build_full_path(e, h) = build_full_path(d, h)
  BY FlagFollow DEF InStepAt
<1>2. /\ \A x \in DOMAIN d : e[x].live => d[x].live /\ x \notin hs /\ e[x] = d[x]
      /\ \A x \in DOMAIN d : x \notin hs => e[x] = d[x]
      /\ \A x \in DOMAIN d : e[x].parent = d[x].parent /\ e[x].name = d[x].name
      /\ DOMAIN e = DOMAIN d /\ \A x \in hs : d[x].parent = H
  <2>1. Db(d) /\ H \in DOMAIN d /\ ChildrenOf(d, hs, H) /\ Less(d, e) /\ Flags(d, e, hs)
    BY DEF Flagging
  <2>2. DOMAIN e = DOMAIN d /\ \A x \in hs : d[x].parent = H
    BY <2>1 DEF ChildrenOf, Less
  <2> QED
    BY <2>1, <2>2, FlagUp
<1>3. Children(e, h) = Children(d, h)
  BY <1>2 DEF Children
<1>4. {x \in t2 : e[x].parent = h} = {x \in t : d[x].parent = h}
  BY <1>2
<1>5. HostAt(d, t, h) => HostAt(e, t2, h)
  BY <1>3, <1>4 DEF HostAt
<1>6. \A n : Known(e, h, n) <=> Known(d, h, n)
  BY <1>2, <1>3 DEF Known, Children
<1>7. Follows(f, e, B, R, h) /\ SeenAt(f, d, c, h) => SeenAt(f, e, c, h)
  BY <1>1, <1>6 DEF SeenAt
<1> QED
  BY <1>1, <1>5, <1>7 DEF InStepAt

\* The folder whose children they are.
ChildrenLess(d, e, hs, H) ==
  /\ Children(e, H) = Children(d, H) \ hs
  /\ \A n : Known(e, H, n) <=> \E x \in Children(d, H) \ hs : d[x].name = n
  /\ build_full_path(e, H) = build_full_path(d, H) /\ e[H] = d[H]
LEMMA FlagSelf ==
  ASSUME NEW d, NEW e, NEW hs, NEW H, Flagging(d, e, hs, H)
  PROVE  /\ ChildrenLess(d, e, hs, H)
         /\ \A t : t \subseteq DOMAIN d /\ HostAt(d, t, H) => HostAt(e, t \ hs, H)
<1>1. /\ \A x \in DOMAIN d : e[x].live => d[x].live /\ x \notin hs /\ e[x] = d[x]
      /\ \A x \in DOMAIN d : x \notin hs => e[x] = d[x]
      /\ \A x \in DOMAIN d : e[x].parent = d[x].parent /\ e[x].name = d[x].name
      /\ \A x \in DOMAIN d : x <= H => build_full_path(e, x) = build_full_path(d, x)
      /\ DOMAIN e = DOMAIN d /\ H \in DOMAIN d /\ Db(d)
  BY FlagUp DEF Flagging, Less
<1>2. H \in Nat /\ H <= H
  BY <1>1, Entries
<1>3. Children(e, H) = Children(d, H) \ hs
  BY <1>1 DEF Children
<1>4. ASSUME NEW t, t \subseteq DOMAIN d, HostAt(d, t, H) PROVE HostAt(e, t \ hs, H)
  <2>1. {x \in t \ hs : e[x].parent = H} = {x \in t : d[x].parent = H} \ hs
    BY <1>1, <1>4
  <2> QED
    BY <1>3, <1>4, <2>1 DEF HostAt
<1>5. H \notin hs
  <2>1. \A x \in hs : x # 0 /\ x \in DOMAIN d /\ d[x].parent = H
    BY DEF Flagging, ChildrenOf
  <2> QED
    BY <1>1, <2>1, Entries
<1> QED
  <2>1. ChildrenLess(d, e, hs, H)
    BY <1>1, <1>2, <1>3, <1>5 DEF ChildrenLess, Known, Children
  <2> QED
    BY <1>4, <2>1

-----------------------------------------------------------------------------
(* What the host is due to know.                                           *)

\* The entries the host has been told of; of those whose event is on its way, or was missed, the
\* ones that are live.
DueOf(d, t, M) == {x \in DOMAIN d \ {0} : (x \in M /\ d[x].live) \/ (x \notin M /\ x \in t)}
Due == DueOf(fs_db, told, missed \cup adding \cup removing)

LEMMA DueIs ==
  /\ Due = DueOf(fs_db, told, missed \cup adding \cup removing)
  /\ Due' = DueOf(fs_db', told', missed' \cup adding' \cup removing')
  /\ Due \subseteq DOMAIN fs_db /\ 0 \notin Due
BY DEF Due, DueOf

\* No entry comes or goes.
SameLive(d, e) == DOMAIN e = DOMAIN d /\ \A x \in DOMAIN d : e[x].live = d[x].live
LEMMA DueSame ==
  ASSUME NEW d, NEW e, SameLive(d, e), NEW t, NEW M
  PROVE  DueOf(e, t, M) = DueOf(d, t, M)
BY DEF DueOf, SameLive

LEMMA DueStays ==
  ASSUME SameLive(fs_db, fs_db'), told' = told, missed' = missed, adding' = adding, removing' = removing
  PROVE  Due' = Due
BY DueIs, DueSame

\* Entries are added, and their events are on the way, or the host is not told.
LEMMA DueGrows ==
  ASSUME NEW d, NEW e, More(d, e), NEW t, t \subseteq DOMAIN d, NEW M
  PROVE  /\ DueOf(d, t, M) \subseteq DueOf(e, t, M)
         /\ DueOf(e, t, M) \ DueOf(d, t, M) \subseteq DOMAIN e \ DOMAIN d
BY DEF DueOf, More

LEMMA DueAdded ==
  ASSUME NEW d, NEW e, More(d, e), NEW t, t \subseteq DOMAIN d, NEW M
  PROVE  DueOf(e, t, M \cup (DOMAIN e \ DOMAIN d)) = DueOf(d, t, M) \cup (DOMAIN e \ DOMAIN d)
BY DEF DueOf, More

\* One is added, unless it is there, and the host is told.
LEMMA DueNew ==
  ASSUME NEW d, Db(d), NEW h \in DOMAIN d, NEW n \in Names, NEW dir \in BOOLEAN, NEW e, e = add_entry(d, n, h, dir),
         NEW t, NEW k, k = Min(find_entry(e, n, h)), NEW t2, t2 = t \cup {k}, NEW M
  PROVE  DueOf(e, t2, M) = DueOf(d, t, M) \cup {k}
<1>1. /\ More(d, e) /\ find_entry(e, n, h) # {} /\ find_entry(e, n, h) \subseteq DOMAIN e \ {0}
      /\ find_entry(d, n, h) # {} => e = d
      /\ find_entry(d, n, h) = {} => \E j : DOMAIN e = DOMAIN d \cup {j}
  <2>1. More(d, e)
    BY AddDoes
  <2>2. find_entry(e, n, h) # {} /\ find_entry(e, n, h) \subseteq DOMAIN e \ {0}
    BY AddDoes
  <2>3. find_entry(d, n, h) # {} => e = d
    BY DEF add_entry
  <2>4. find_entry(d, n, h) = {} => DOMAIN e = DOMAIN d \cup {Cardinality(DOMAIN d)}
    BY DEF add_entry, alloc_entry, With
  <2> QED
    BY <2>1, <2>2, <2>3, <2>4
<1>2. DOMAIN d \subseteq DOMAIN e /\ Db(e) /\ \A x \in DOMAIN d : e[x] = d[x]
  BY <1>1 DEF More
<1>3. k \in find_entry(e, n, h)
  <2>1. \A x \in DOMAIN e : x \in Nat
    BY <1>2, Entries
  <2> QED
    BY <1>1, <2>1, MinIn
<1>4. k \in DOMAIN e \ {0} /\ e[k].live
  BY <1>1, <1>3 DEF find_entry
<1>5. DOMAIN e = DOMAIN d \cup {k}
  <2>1. CASE find_entry(d, n, h) # {}
    BY <1>1, <1>4, <2>1
  <2>2. CASE find_entry(d, n, h) = {}
    <3>1. k \notin DOMAIN d
      <4> SUFFICES ASSUME k \in DOMAIN d PROVE FALSE
        OBVIOUS
      <4>1. k \in find_entry(d, n, h)
        BY <1>2, <1>3 DEF find_entry
      <4> QED
        BY <2>2, <4>1
    <3> QED
      BY <1>1, <1>4, <2>2, <3>1
  <2> QED
    BY <2>1, <2>2
<1> QED
  BY <1>2, <1>4, <1>5 DEF DueOf

\* Entries go: the host finds out, or is told, or is yet to be told.
LEMMA DueFlags ==
  ASSUME NEW d, NEW e, NEW hs, DOMAIN e = DOMAIN d, Flags(d, e, hs), NEW t, NEW M
  PROVE  DueOf(e, t, M) \subseteq DueOf(d, t, M) /\ DueOf(d, t, M) \ hs \subseteq DueOf(e, t, M)
<1>1. \A x \in DOMAIN d : IF x \in hs THEN ~ e[x].live ELSE e[x] = d[x]
  BY DEF Flags, Flagged
<1> QED
  BY <1>1 DEF DueOf

LEMMA DueRemoved ==
  ASSUME NEW d, NEW e, NEW hs, DOMAIN e = DOMAIN d, Flags(d, e, hs), NEW t, NEW u, u = t \ hs, NEW M
  PROVE  DueOf(e, u, M) = DueOf(d, t, M) \ hs
<1>1. \A x \in DOMAIN d : IF x \in hs THEN ~ e[x].live ELSE e[x] = d[x]
  BY DEF Flags, Flagged
<1> QED
  BY <1>1 DEF DueOf

LEMMA DuePending ==
  ASSUME NEW d, NEW e, NEW hs, DOMAIN e = DOMAIN d, Flags(d, e, hs), NEW t, NEW M, NEW N, N = M \cup hs
  PROVE  DueOf(e, t, N) = DueOf(d, t, M) \ hs
<1>1. \A x \in DOMAIN d : IF x \in hs THEN ~ e[x].live ELSE e[x] = d[x]
  BY DEF Flags, Flagged
<1> QED
  BY <1>1 DEF DueOf

\* The steps that leave it as it is.
LEMMA DeviceDue == Device => Due' = Due
<1> SUFFICES ASSUME Device PROVE Due' = Due
  OBVIOUS
<1>1. fs_db' = fs_db /\ told' = told /\ missed' = missed /\ adding' = adding /\ removing' = removing
  BY DEF Device, DevCreate, DevRemove, DevRename, push
<1> QED
  BY <1>1, DueIs

LEMMA SendObjectDue == SendObject => Due' = Due
<1> SUFFICES ASSUME SendObject PROVE Due' = Due
  OBVIOUS
<1>1. fs_db' = fs_db /\ told' = told /\ missed' = missed /\ adding' = adding /\ removing' = removing
  BY DEF SendObject, push
<1> QED
  BY <1>1, DueIs

LEMMA PushDue == OnItsWay /\ FilesInv /\ (Push \/ PushDropped) => Due' = Due
<1> SUFFICES ASSUME OnItsWay, FilesInv, Push \/ PushDropped PROVE Due' = Due
  OBVIOUS
<1>1. fs_db' = fs_db /\ adding' = {} /\ removing' = {}
  BY DEF Push, PushDropped
<1>2. CASE Push
  <2>1. told' = (told \cup (adding \cap DOMAIN fs_db)) \ removing /\ missed' = missed
    BY <1>2 DEF Push
  <2>2. DueOf(fs_db, told', missed) = DueOf(fs_db, told, missed \cup adding \cup removing)
    BY <2>1 DEF DueOf, OnItsWay, Announces
  <2>3. missed' \cup adding' \cup removing' = missed
    BY <1>1, <2>1
  <2> QED
    BY <1>1, <2>2, <2>3, DueIs
<1>3. CASE PushDropped
  <2>1. told' = told /\ missed' \cup adding' \cup removing' = missed \cup adding \cup removing
    BY <1>1, <1>3 DEF PushDropped
  <2> QED
    BY <1>1, <2>1, DueIs
<1> QED
  BY <1>2, <1>3

-----------------------------------------------------------------------------
(* The inductive invariant.                                                *)

\* Between the two passes of a listing and its watch.
Listed(f, d, B, c, o) ==
  (o.pc \in {"drop", "watch"} /\ o.h \notin B) =>
    IF o.ok
    THEN /\ IsDir(f, o.from)
         /\ \A n \in Names :
              (Watching(f, o.from) => Awaits(f, c, o.h, f.watch[Ino(f, o.from)], n) = {}) =>
                /\ n \in Kids(f, o.from) => Known(d, o.h, n)
                /\ o.pc = "watch" /\ Known(d, o.h, n) => n \in Kids(f, o.from)
    ELSE d[o.h].wd \notin Values(f)

\* Between the new name of an entry and that of its file, nothing at or below the entry is followed.
Closed(d, S) == \A x \in DOMAIN d : d[x].parent # 0 /\ d[d[x].parent].live /\ d[x].parent \in S => x \in S
Renaming(f, d, B, o) ==
  o.pc = "rename" =>
    /\ \E S \in SUBSET DOMAIN d : o.h \in S /\ Closed(d, S) /\ \A x \in S : x \in B \/ d[x].wd = NoWd
    /\ \A h \in DOMAIN d : d[h].live /\ h \notin B /\ d[h].wd \in Values(f) /\ build_full_path(d, h) # <<>> =>
         ~ Passes(build_full_path(d, h), o.from)

\* A listing or a deletion knows where its folder is; a folder that is being listed is in step when
\* the listing is over.
OpAt(o, d) ==
  /\ o.pc \in {"drop", "watch", "rmdir"} => d[o.h].live /\ o.from = build_full_path(d, o.h)
  /\ o.pc = "watch" => o.ok
Exempt(o) == IF o.pc \in {"drop", "watch"} /\ o.ok THEN {o.h} ELSE {}

AllIn(f, d, t, B, R, c, W, X) == \A h \in DOMAIN d \ X : InStepAt(f, d, t, B, R, c, W, h)
OpInStep(f, d, B, c, o) == Listed(f, d, B, c, o) /\ Renaming(f, d, B, o) /\ OpAt(o, d)
StepIn ==
  /\ AllIn(fs, fs_db, Due, blind, renamed, cursor, wild, Exempt(op))
  /\ OpInStep(fs, fs_db, blind, cursor, op)
  /\ CursorIn(fs, cursor) /\ renamed \subseteq DOMAIN fs_db
StepInv == FilesInv /\ OnItsWay /\ StepIn

LEMMA IdleAt == \A f, d, B, c, o : o.pc = "idle" => OpInStep(f, d, B, c, o) /\ Exempt(o) = {}
BY DEF OpInStep, Listed, Renaming, OpAt, Exempt

\* What FilesInv says of the two parts.
LEMMA Given ==
  FilesInv => /\ Card(fs) /\ Watches(fs) /\ Tells(fs) /\ fs.wds \in Nat
              /\ Db(fs_db) /\ FiledIn(fs_db, renamed) /\ TwinFree(fs_db, renamed)
              /\ told \subseteq DOMAIN fs_db \ {0} /\ Due \subseteq DOMAIN fs_db
              /\ op.h \in Nat /\ op.from \in Seq(Names) /\ op.ok \in BOOLEAN /\ (op.pc # "idle" => op.h \in DOMAIN fs_db)
<1> SUFFICES ASSUME FilesInv PROVE
        /\ op.h \in Nat /\ op.from \in Seq(Names) /\ op.ok \in BOOLEAN /\ (op.pc # "idle" => op.h \in DOMAIN fs_db)
  BY WdsAre, DueIs DEF FilesInv, CardIn, DbIn
<1> QED
  BY DEF FilesInv, OpIn

-----------------------------------------------------------------------------
(* Changes of the card.                                                    *)

\* A folder that stays; when it is not watched, nothing changes in it.
SameFolder(f, g, x) ==
  IsDir(f, x) =>
    /\ IsDir(g, x) /\ Ino(g, x) = Ino(f, x) /\ (Watching(f, x) <=> Watching(g, x))
    /\ Watching(f, x) => g.watch[Ino(g, x)] = f.watch[Ino(f, x)]
    /\ ~ Watching(f, x) => Kids(g, x) = Kids(f, x)

LEMMA ListedStep ==
  ASSUME NEW f, Card(f), Watches(f), NEW g, Card(g), Watches(g), StepsBut(f, g, {}), Values(g) \subseteq Values(f),
         NEW c, CursorIn(f, c), NEW d, NEW B, NEW C, B \subseteq C, NEW o, Listed(f, d, B, c, o),
         o.pc \in {"drop", "watch"} /\ o.ok /\ o.h \notin C => SameFolder(f, g, o.from)
  PROVE  Listed(g, d, C, c, o)
<1> SUFFICES ASSUME o.pc \in {"drop", "watch"}, o.h \notin C
             PROVE  IF o.ok
                    THEN /\ IsDir(g, o.from)
                         /\ \A n \in Names :
                              (Watching(g, o.from) => Awaits(g, c, o.h, g.watch[Ino(g, o.from)], n) = {}) =>
                                /\ n \in Kids(g, o.from) => Known(d, o.h, n)
                                /\ o.pc = "watch" /\ Known(d, o.h, n) => n \in Kids(g, o.from)
                    ELSE d[o.h].wd \notin Values(g)
  BY DEF Listed
<1>1. CASE ~ o.ok
  BY <1>1 DEF Listed
<1>2. CASE o.ok
  <2> DEFINE x == o.from
  <2>1. IsDir(f, x) /\ SameFolder(f, g, x)
    BY <1>2 DEF Listed
  <2>2. /\ IsDir(g, x) /\ Ino(g, x) = Ino(f, x) /\ (Watching(f, x) <=> Watching(g, x))
        /\ Watching(f, x) => g.watch[Ino(g, x)] = f.watch[Ino(f, x)]
        /\ ~ Watching(f, x) => Kids(g, x) = Kids(f, x)
    BY <2>1 DEF SameFolder
  <2>3. ASSUME NEW n \in Names, Watching(g, x) => Awaits(g, c, o.h, g.watch[Ino(g, x)], n) = {}
        PROVE  /\ n \in Kids(g, x) <=> n \in Kids(f, x)
               /\ Watching(f, x) => Awaits(f, c, o.h, f.watch[Ino(f, x)], n) = {}
    <3>1. CASE ~ Watching(f, x)
      BY <2>2, <3>1
    <3>2. CASE Watching(f, x)
      <4>1. Watching(g, x) /\ x \in Folders(g) /\ g.watch[Ino(g, x)] = f.watch[Ino(f, x)]
        BY <2>2, <3>2, FolderIs
      <4>2. Awaits(f, c, o.h, f.watch[Ino(f, x)], n) = {} /\ News(f, g, g.watch[Ino(g, x)], n) = {}
        BY <2>3, <4>1, AwaitsMore DEF StepsBut
      <4>3. PICK y \in Folders(f) : SameWatch(f, y, g, x) /\ NewsTell(f, y, g, x, n)
        BY <4>1 DEF StepsBut
      <4>4. WatchAt(f, y, f.watch[Ino(f, x)]) /\ WatchAt(f, x, f.watch[Ino(f, x)])
        BY <3>2, <4>1, <4>3 DEF SameWatch, WatchAt
      <4>5. y = x
        BY <4>4, WatchIsOne
      <4> QED
        BY <4>2, <4>3, <4>5 DEF NewsTell
    <3> QED
      BY <3>1, <3>2
  <2>4. \A n \in Names :
          (Watching(g, x) => Awaits(g, c, o.h, g.watch[Ino(g, x)], n) = {}) =>
            /\ n \in Kids(g, x) => Known(d, o.h, n)
            /\ o.pc = "watch" /\ Known(d, o.h, n) => n \in Kids(g, x)
    BY <1>2, <2>3 DEF Listed
  <2> QED
    BY <1>2, <2>2, <2>4
<1> QED
  BY <1>1, <1>2

LEMMA RenamingStep ==
  ASSUME NEW f, NEW g, Values(g) \subseteq Values(f), NEW d, NEW B, NEW C, B \subseteq C, NEW o, Renaming(f, d, B, o)
  PROVE  Renaming(g, d, C, o)
BY DEF Renaming

LEMMA SameFolderNew ==
  ASSUME NEW f, Card(f), Watches(f), NEW g, NEW p, NEW dir, HasNew(f, g, p, dir), NEW x \in Seq(Names),
         x # Front(p) \/ Watching(f, x)
  PROVE  SameFolder(f, g, x)
<1> SUFFICES ASSUME IsDir(f, x)
             PROVE  /\ IsDir(g, x) /\ Ino(g, x) = Ino(f, x) /\ (Watching(f, x) <=> Watching(g, x))
                    /\ Watching(f, x) => g.watch[Ino(g, x)] = f.watch[Ino(f, x)]
                    /\ ~ Watching(f, x) => Kids(g, x) = Kids(f, x)
  BY DEF SameFolder
<1>1. IsDir(g, x) /\ Ino(g, x) = Ino(f, x) /\ g.watch = f.watch
  BY DEF IsDir, Ino, HasNew
<1>2. ASSUME x # Front(p) PROVE Kids(g, x) = Kids(f, x)
  <2>1. \A n \in Names : Append(x, n) # p
    BY <1>2, InFolder
  <2> QED
    BY <2>1 DEF Kids, HasNew
<1> QED
  BY <1>1, <1>2 DEF Watching

LEMMA SameFolderCut ==
  ASSUME NEW f, Card(f), Watches(f), NEW g, NEW p, HasCut(f, g, {p}), NEW x \in Seq(Names),
         x # p, x # Front(p) \/ Watching(f, x)
  PROVE  SameFolder(f, g, x)
<1> SUFFICES ASSUME IsDir(f, x)
             PROVE  /\ IsDir(g, x) /\ Ino(g, x) = Ino(f, x) /\ (Watching(f, x) <=> Watching(g, x))
                    /\ Watching(f, x) => g.watch[Ino(g, x)] = f.watch[Ino(f, x)]
                    /\ ~ Watching(f, x) => Kids(g, x) = Kids(f, x)
  BY DEF SameFolder
<1>1. x \in Folders(g)
  BY FolderIs DEF HasCut
<1>2. IsDir(g, x) /\ Ino(g, x) = Ino(f, x) /\ (Watching(f, x) <=> Watching(g, x))
  BY <1>1, FolderIs DEF HasCut
<1>3. Watching(f, x) => g.watch[Ino(g, x)] = f.watch[Ino(f, x)]
  BY <1>2 DEF HasCut, Watching
<1>4. ASSUME x # Front(p) PROVE Kids(g, x) = Kids(f, x)
  <2>1. \A n \in Names : Append(x, n) # p
    BY <1>4, InFolder
  <2> QED
    BY <2>1 DEF Kids, HasCut
<1> QED
  BY <1>2, <1>3, <1>4

LEMMA SameFolderMoved ==
  ASSUME NEW f, Card(f), Watches(f), NEW g, NEW p \in DOMAIN f.disk, NEW q \in Seq(Names), q # <<>>, p # q, CanRename(f, p, q),
         HasMoved(f, g, p, q), NEW x \in Seq(Names),
         ~ Passes(x, p), ~ Passes(x, q), (x # Front(p) /\ x # Front(q)) \/ Watching(f, x)
  PROVE  SameFolder(f, g, x)
<1> SUFFICES ASSUME IsDir(f, x)
             PROVE  /\ IsDir(g, x) /\ Ino(g, x) = Ino(f, x) /\ (Watching(f, x) <=> Watching(g, x))
                    /\ Watching(f, x) => g.watch[Ino(g, x)] = f.watch[Ino(f, x)]
                    /\ ~ Watching(f, x) => Kids(g, x) = Kids(f, x)
  BY DEF SameFolder
<1>0. p \in Seq(Names) /\ p # <<>>
  BY Nodes
<1>1. x # p /\ x # q
  <2>1. \A y \in Seq(Names) : Passes(y, y)
    <3> SUFFICES ASSUME NEW y \in Seq(Names) PROVE Passes(y, y)
      OBVIOUS
    <3>1. Len(y) \in Nat /\ SubSeq(y, 1, Len(y)) = y
      OBVIOUS
    <3> QED
      BY <3>1 DEF Passes
  <2> QED
    BY <1>0, <2>1
<1>2. x # <<>> => x \in Stays(f, p, q)
  BY <1>1 DEF IsDir, Stays, Below
<1>3. IsDir(g, x) /\ Ino(g, x) = Ino(f, x)
  BY <1>2 DEF HasMoved, IsDir, Ino
<1>4. q \in DOMAIN f.disk => f.disk[q].ino # Ino(f, x)
  <2> SUFFICES ASSUME q \in DOMAIN f.disk, f.disk[q].ino = Ino(f, x) PROVE FALSE
    OBVIOUS
  <2>1. CASE x = <<>>
    BY <2>1, Nodes DEF Ino
  <2>2. CASE x # <<>>
    BY <1>1, <2>2 DEF IsDir, Ino, Card, Tree
  <2> QED
    BY <2>1, <2>2
<1>5. /\ (Watching(f, x) <=> Watching(g, x))
      /\ Watching(f, x) => g.watch[Ino(g, x)] = f.watch[Ino(f, x)]
  BY <1>3, <1>4 DEF HasMoved, Watching
<1>6. ASSUME x # Front(p), x # Front(q) PROVE Kids(g, x) = Kids(f, x)
  <2>1. ASSUME NEW n \in Names PROVE Append(x, n) \in DOMAIN g.disk <=> Append(x, n) \in DOMAIN f.disk
    <3>1. Append(x, n) # p /\ Append(x, n) # q
      BY <1>6, InFolder
    <3>2. \A m \in Names : Append(x, n) # Append(p, m) /\ Append(x, n) # Append(q, m)
      <4> SUFFICES ASSUME NEW m \in Names PROVE Append(x, n) # Append(p, m) /\ Append(x, n) # Append(q, m)
        OBVIOUS
      <4>1. Front(Append(x, n)) = x
        BY InFolder
      <4>2. Front(Append(p, m)) = p
        BY <1>0, InFolder
      <4>3. Front(Append(q, m)) = q
        BY InFolder
      <4> QED
        BY <1>1, <4>1, <4>2, <4>3
    <3>3. Below(f, p) = {Append(p, m) : m \in Kids(f, p)} /\ Kids(f, p) \subseteq Names
      BY RenamePlaces DEF Kids
    <3> QED
      BY <3>1, <3>2, <3>3 DEF HasMoved, Stays
  <2> QED
    BY <2>1 DEF Kids
<1> QED
  BY <1>3, <1>5, <1>6

\* What a change of the card leaves of the entries' watches.
KeepsAll(f, g, d, B, C) == \A h \in DOMAIN d : KeptAt(f, d, B, h) => KeptAt(g, d, C, h)
CardStepIn(f, g) ==
  Card(g) /\ Watches(g) /\ StepsBut(f, g, {}) /\ Values(g) \subseteq Values(f)

LEMMA CardAll ==
  ASSUME NEW f, Card(f), Watches(f), NEW g, CardStepIn(f, g),
         NEW c, CursorIn(f, c), NEW d, NEW t, NEW B, NEW C, B \subseteq C, NEW R, NEW W, NEW X,
         AllIn(f, d, t, B, R, c, W, X), KeepsAll(f, g, d, B, C)
  PROVE  AllIn(g, d, t, C, R, c, W, X) /\ CursorIn(g, c)
<1>1. ASSUME NEW h \in DOMAIN d \ X PROVE InStepAt(g, d, t, C, R, c, W, h)
  <2>1. InStepAt(f, d, t, B, R, c, W, h)
    BY DEF AllIn
  <2>2. KeptAt(g, d, C, h)
    BY <2>1 DEF InStepAt, KeepsAll
  <2> QED
    BY <2>1, <2>2, CardStep DEF CardStepIn
<1>2. CursorIn(g, c)
  BY CursorStays DEF CardStepIn, StepsBut
<1> QED
  BY <1>1, <1>2 DEF AllIn

LEMMA NewCard ==
  ASSUME NEW f, CardIn(f), NEW p \in Seq(Names), ~ Exists(f, p), IsDir(f, Front(p)),
         NEW dir \in BOOLEAN, dir = TRUE => Len(p) < MaxDepth, NEW g, g = Create(f, p, dir),
         NEW d, NEW B, NEW C, B \subseteq C
  PROVE  CardStepIn(f, g) /\ KeepsAll(f, g, d, B, C) /\ HasNew(f, g, p, dir) /\ Tells(g)
<1>1. p # <<>> /\ p \notin DOMAIN f.disk
  BY DEF Exists
<1>2. Card(g) /\ Watches(g) /\ StepsBut(f, g, {}) /\ Tells(g) /\ HasNew(f, g, p, dir)
  BY <1>1, CreateDoes DEF CardIn
<1>3. Values(g) \subseteq Values(f)
  BY <1>2 DEF HasNew, Values
<1>4. KeepsAll(f, g, d, B, C)
  BY <1>2, KeptNew DEF KeepsAll, CardIn
<1> QED
  BY <1>2, <1>3, <1>4 DEF CardStepIn

LEMMA CutCard ==
  ASSUME NEW f, CardIn(f), NEW p \in DOMAIN f.disk, Below(f, p) = {}, NEW g, g = Unlink(f, p),
         NEW d, NEW B, NEW C, B \subseteq C
  PROVE  CardStepIn(f, g) /\ KeepsAll(f, g, d, B, C) /\ HasCut(f, g, {p}) /\ Tells(g)
<1>1. Card(g) /\ Watches(g) /\ StepsBut(f, g, {}) /\ Tells(g) /\ HasCut(f, g, {p})
  BY UnlinkDoes DEF CardIn
<1>2. Values(g) \subseteq Values(f)
  BY <1>1 DEF HasCut, Values
<1>3. KeepsAll(f, g, d, B, C)
  BY <1>1, KeptCut DEF KeepsAll, CardIn
<1> QED
  BY <1>1, <1>2, <1>3 DEF CardStepIn

LEMMA EmptyCard ==
  ASSUME NEW f, CardIn(f), NEW p \in Seq(Names), NEW order \in Walks(f, p), NEW g, g = Empty(f, p, order),
         NEW d, NEW B, NEW C, B \subseteq C
  PROVE  CardStepIn(f, g) /\ KeepsAll(f, g, d, B, C)
<1>1. Card(g) /\ Watches(g) /\ StepsBut(f, g, {}) /\ HasCut(f, g, Below(f, p)) /\ Below(f, p) \subseteq DOMAIN f.disk
  BY EmptyDoes DEF CardIn, Below
<1>2. Values(g) \subseteq Values(f)
  BY <1>1 DEF HasCut, Values
<1>3. KeepsAll(f, g, d, B, C)
  BY <1>1, KeptCut DEF KeepsAll, CardIn
<1> QED
  BY <1>1, <1>2, <1>3 DEF CardStepIn

\* The entries that are to be trusted do not pass through p.
NonePasses(f, d, C, p) ==
  \A h \in DOMAIN d : d[h].live /\ h \notin C /\ d[h].wd \in Values(f) /\ build_full_path(d, h) # <<>> =>
                        ~ Passes(build_full_path(d, h), p)
LEMMA MovedCard ==
  ASSUME NEW f, CardIn(f), NEW p \in DOMAIN f.disk, NEW q \in Seq(Names), q # <<>>, p # q, CanRename(f, p, q),
         NEW g, g = Rename(f, p, q), NEW d, NEW B, NEW C, B \subseteq C, NonePasses(f, d, C, p)
  PROVE  CardStepIn(f, g) /\ KeepsAll(f, g, d, B, C) /\ HasMoved(f, g, p, q)
<1>1. Card(g) /\ Watches(g) /\ StepsBut(f, g, {}) /\ HasMoved(f, g, p, q)
  BY RenameDoes DEF CardIn
<1>2. Values(g) \subseteq Values(f)
  BY <1>1 DEF HasMoved, Values
<1>3. KeepsAll(f, g, d, B, C)
  <2> SUFFICES ASSUME NEW h \in DOMAIN d, KeptAt(f, d, B, h) PROVE KeptAt(g, d, C, h)
    BY DEF KeepsAll
  <2>1. d[h].live /\ h \notin C /\ d[h].wd \in Values(f) /\ build_full_path(d, h) # <<>> => ~ Passes(build_full_path(d, h), p)
    BY DEF NonePasses
  <2> QED
    BY <1>1, <2>1, KeptMoved DEF CardIn
<1> QED
  BY <1>1, <1>2, <1>3 DEF CardStepIn

\* A change of the card by another program, whatever the io thread is in.
LEMMA OnCard ==
  ASSUME StepInv, CardStepIn(fs, fs'), blind \subseteq blind', KeepsAll(fs, fs', fs_db, blind, blind'),
         UNCHANGED <<fs_db, Due, op, cursor, wild, renamed>>,
         op.pc \in {"drop", "watch"} /\ op.ok /\ op.h \notin blind' => SameFolder(fs, fs', op.from)
  PROVE  StepIn'
<1>1. Card(fs) /\ Watches(fs) /\ StepIn
  BY Given DEF StepInv
<1>2. AllIn(fs', fs_db, Due, blind', renamed, cursor, wild, Exempt(op)) /\ CursorIn(fs', cursor)
  BY <1>1, CardAll DEF StepIn
<1>3. Listed(fs', fs_db, blind', cursor, op)
  BY <1>1, ListedStep DEF StepIn, OpInStep, CardStepIn
<1>4. Renaming(fs', fs_db, blind', op)
  BY <1>1, RenamingStep DEF StepIn, OpInStep, CardStepIn
<1> QED
  BY <1>1, <1>2, <1>3, <1>4 DEF StepIn, OpInStep

LEMMA BlindedIs ==
  ASSUME NEW S
  PROVE  /\ blind \subseteq Blinded(S)
         /\ op.pc \in {"drop", "watch"} /\ op.h \notin Blinded(S) => op.from \notin S \/ Watching(fs, op.from)
BY DEF Blinded

LEMMA DeviceStep == StepInv /\ Device => StepIn'
<1> SUFFICES ASSUME StepInv, Device PROVE StepIn'
  OBVIOUS
<1>1. /\ Card(fs) /\ Watches(fs) /\ CardIn(fs) /\ op.from \in Seq(Names) /\ (op.pc # "idle" => op.h \in DOMAIN fs_db)
      /\ op.pc \in {"drop", "watch"} => op.from = build_full_path(fs_db, op.h)
  BY Given DEF StepInv, FilesInv, StepIn, OpInStep, OpAt
<1>0. Due' = Due
  BY DeviceDue
<1>2. \A p \in Paths : p \in Seq(Names) /\ p # <<>>
  <2> SUFFICES ASSUME NEW p \in Paths PROVE p \in Seq(Names) /\ p # <<>>
    OBVIOUS
  <2>1. p \in Seq(Names) /\ Len(p) \in 1 .. MaxDepth
    BY PathsAre
  <2> QED
    BY <2>1
<1>3. \A p : op.pc \in {"drop", "watch"} /\ op.h \notin EntriesAt(p) => ~ Passes(op.from, p)
  BY <1>1 DEF EntriesAt
<1>4. ASSUME NEW p \in Paths, NEW dir \in BOOLEAN, DevCreate(p, dir) PROVE StepIn'
  <2>1. ~ Exists(fs, p) /\ IsDir(fs, Front(p)) /\ (dir = TRUE => Len(p) < MaxDepth) /\ fs' = Create(fs, p, dir)
        /\ blind' = Blinded({Front(p)}) /\ UNCHANGED <<fs_db, Due, op, cursor, wild, renamed>>
    BY <1>0, <1>4 DEF DevCreate
  <2>2. PICK C : C = blind'
    OBVIOUS
  <2>3. PICK g : g = fs'
    OBVIOUS
  <2>4. blind \subseteq C
    BY <2>1, <2>2, BlindedIs
  <2>5. CardStepIn(fs, g) /\ KeepsAll(fs, g, fs_db, blind, C) /\ HasNew(fs, g, p, dir)
    BY <1>1, <1>2, <2>1, <2>3, <2>4, NewCard
  <2>6. op.pc \in {"drop", "watch"} /\ op.h \notin C => SameFolder(fs, g, op.from)
    BY <1>1, <2>1, <2>2, <2>5, BlindedIs, SameFolderNew
  <2> QED
    BY <2>1, <2>2, <2>3, <2>4, <2>5, <2>6, OnCard
<1>5. ASSUME NEW p \in DOMAIN fs.disk, DevRemove(p) PROVE StepIn'
  <2>1. Below(fs, p) = {} /\ fs' = Unlink(fs, p) /\ blind' = Blinded({Front(p)}) \cup EntriesAt(p)
        /\ UNCHANGED <<fs_db, Due, op, cursor, wild, renamed>>
    BY <1>0, <1>5 DEF DevRemove
  <2>2. PICK C : C = blind'
    OBVIOUS
  <2>3. PICK g : g = fs'
    OBVIOUS
  <2>4. blind \subseteq C
    BY <2>1, <2>2, BlindedIs
  <2>5. CardStepIn(fs, g) /\ KeepsAll(fs, g, fs_db, blind, C) /\ HasCut(fs, g, {p})
    BY <1>1, <2>1, <2>3, <2>4, CutCard
  <2>6. ASSUME op.pc \in {"drop", "watch"}, op.h \notin C PROVE SameFolder(fs, g, op.from)
    <3>1. op.h \notin EntriesAt(p) /\ (op.from # Front(p) \/ Watching(fs, op.from))
      BY <2>1, <2>2, <2>6, BlindedIs
    <3>2. ~ Passes(op.from, p)
      BY <1>3, <2>6, <3>1
    <3>3. Passes(p, p)
      <4>1. p \in Seq(Names)
        BY <1>1, Nodes
      <4>2. Len(p) \in Nat /\ SubSeq(p, 1, Len(p)) = p
        BY <4>1
      <4> QED
        BY <4>2 DEF Passes
    <3>4. op.from # p
      BY <3>2, <3>3
    <3> QED
      BY <1>1, <2>5, <3>1, <3>4, SameFolderCut
  <2> QED
    BY <2>1, <2>2, <2>3, <2>4, <2>5, <2>6, OnCard
<1>6. ASSUME NEW p \in DOMAIN fs.disk, NEW q \in Paths, DevRename(p, q) PROVE StepIn'
  <2>1. p # q /\ CanRename(fs, p, q) /\ fs' = Rename(fs, p, q)
        /\ blind' = Blinded({Front(p), Front(q)}) \cup EntriesAt(p) \cup EntriesAt(q)
        /\ UNCHANGED <<fs_db, Due, op, cursor, wild, renamed>>
    BY <1>0, <1>6 DEF DevRename
  <2>2. PICK C : C = blind'
    OBVIOUS
  <2>3. PICK g : g = fs'
    OBVIOUS
  <2>4. blind \subseteq C
    BY <2>1, <2>2, BlindedIs
  <2>5. NonePasses(fs, fs_db, C, p)
    BY <2>1, <2>2 DEF NonePasses, EntriesAt
  <2>6. CardStepIn(fs, g) /\ KeepsAll(fs, g, fs_db, blind, C) /\ HasMoved(fs, g, p, q)
    BY <1>1, <1>2, <2>1, <2>3, <2>4, <2>5, MovedCard
  <2>7. ASSUME op.pc \in {"drop", "watch"}, op.h \notin C PROVE SameFolder(fs, g, op.from)
    <3>1. /\ op.h \notin EntriesAt(p) /\ op.h \notin EntriesAt(q)
          /\ (op.from # Front(p) /\ op.from # Front(q)) \/ Watching(fs, op.from)
      BY <2>1, <2>2, <2>7, BlindedIs
    <3>2. ~ Passes(op.from, p) /\ ~ Passes(op.from, q)
      BY <1>3, <2>7, <3>1
    <3> QED
      BY <1>1, <1>2, <2>1, <2>6, <3>1, <3>2, SameFolderMoved
  <2> QED
    BY <2>1, <2>2, <2>3, <2>4, <2>6, <2>7, OnCard
<1> QED
  BY <1>4, <1>5, <1>6 DEF Device

LEMMA SendObjectStep == StepInv /\ SendObject => StepIn'
<1> SUFFICES ASSUME StepInv, SendObject PROVE StepIn'
  OBVIOUS
<1> DEFINE p == build_full_path(fs_db, target[1])
<1>1. UNCHANGED <<fs_db, Due, op, cursor, wild, blind, renamed>> /\ op.pc = "idle"
  BY SendObjectDue DEF SendObject, Free
<1>2. CASE fs' = fs
  BY <1>1, <1>2 DEF StepInv, StepIn
<1>3. CASE Live(fs_db, target[1]) /\ ~ Exists(fs, p) /\ IsDir(fs, Front(p))
  <2>1. fs' = Create(fs, p, FALSE)
    BY <1>3 DEF SendObject
  <2>2. p \in Seq(Names)
    BY <1>3, PathTypes, Given DEF Live, StepInv
  <2>3. PICK g : g = fs'
    OBVIOUS
  <2>4. CardStepIn(fs, g) /\ KeepsAll(fs, g, fs_db, blind, blind)
    BY <1>3, <2>1, <2>2, <2>3, NewCard DEF StepInv, FilesInv
  <2> QED
    BY <1>1, <2>3, <2>4, OnCard
<1> QED
  BY <1>2, <1>3 DEF SendObject

-----------------------------------------------------------------------------
(* Sessions and listings.                                                  *)

\* An entry without a watch has nothing to be in step with.
LEMMA NoWatchAt ==
  ASSUME NEW f, Watches(f), f.wds \in Nat, NEW d, NEW t, NEW B, NEW R, NEW c, NEW W, NEW h, d[h].wd = NoWd
  PROVE  InStepAt(f, d, t, B, R, c, W, h)
<1>1. d[h].wd \notin Values(f) /\ \A p : ~ WatchAt(f, p, d[h].wd)
  BY WatchValue
<1> QED
  BY <1>1 DEF InStepAt, KeptAt, Follows

LEMMA BlindMore ==
  ASSUME NEW f, NEW d, NEW t, NEW B, NEW C, NEW R, NEW c, NEW W, NEW h, h \in B => h \in C, InStepAt(f, d, t, B, R, c, W, h)
  PROVE  InStepAt(f, d, t, C, R, c, W, h)
BY DEF InStepAt, KeptAt, Follows

\* The path of a child that has a name.
LEMMA ChildPath ==
  ASSUME NEW d, Db(d), NEW h \in DOMAIN d, d[h].live, NEW x \in Children(d, h), d[x].name \in Names
  PROVE  build_full_path(d, x) = Append(build_full_path(d, h), d[x].name)
<1>1. x \in DOMAIN d /\ x # 0 /\ d[x].parent = h /\ d[x].name # NoName
  BY MtpFilesAssumption DEF Children
<1>2. build_full_path(d, x) = Append(Up(d, x), d[x].name)
  BY <1>1, PathIs
<1>3. h = 0 => build_full_path(d, h) = <<>>
  <2> SUFFICES ASSUME h = 0 PROVE build_full_path(d, h) = <<>>
    OBVIOUS
  <2>1. d[h].parent = 0 /\ Up(d, h) = <<>>
    BY DEF Db, Up
  <2> QED
    BY <2>1, PathIs
<1>4. Up(d, x) = build_full_path(d, h)
  BY <1>1, <1>3 DEF Up
<1> QED
  BY <1>2, <1>4

\* An entry whose own state and whose children are as they were.
SameEntry(d, e, x) ==
  /\ DOMAIN e = DOMAIN d /\ e[x].live = d[x].live /\ e[x].wd = d[x].wd /\ build_full_path(e, x) = build_full_path(d, x)
  /\ \A y \in DOMAIN d : e[y].parent = d[y].parent /\ e[y].live = d[y].live /\ (d[y].parent = x => e[y].name = d[y].name)
LEMMA SameEntryAt ==
  ASSUME NEW f, NEW d, NEW e, NEW x, SameEntry(d, e, x), NEW t, NEW t2, t \subseteq DOMAIN d, t2 \subseteq DOMAIN d,
         \A y \in DOMAIN d : d[y].parent = x => (y \in t <=> y \in t2),
         NEW B, NEW C, x \in B => x \in C, NEW R, NEW Q, R \subseteq Q, Q \subseteq DOMAIN d, NEW c, NEW W,
         InStepAt(f, d, t, B, R, c, W, x)
  PROVE  InStepAt(f, e, t2, C, Q, c, W, x)
<1>1. /\ DOMAIN e = DOMAIN d /\ e[x].live = d[x].live /\ e[x].wd = d[x].wd /\ build_full_path(e, x) = build_full_path(d, x)
      /\ \A y \in DOMAIN d : e[y].parent = d[y].parent /\ e[y].live = d[y].live /\ (d[y].parent = x => e[y].name = d[y].name)
  BY DEF SameEntry
<1>2. KeptAt(f, e, C, x)
  BY <1>1 DEF InStepAt, KeptAt
<1>3. Follows(f, e, C, Q, x) => Follows(f, d, B, R, x)
  BY <1>1 DEF Follows
<1>4. Children(e, x) = Children(d, x)
  BY <1>1 DEF Children
<1>5. {y \in t2 : e[y].parent = x} = {y \in t : d[y].parent = x}
  BY <1>1
<1>6. HostAt(d, t, x) => HostAt(e, t2, x)
  BY <1>4, <1>5 DEF HostAt
<1>7. \A n : Known(e, x, n) <=> Known(d, x, n)
  BY <1>1, <1>4 DEF Known, Children
<1>8. SeenAt(f, d, c, x) => SeenAt(f, e, c, x)
  BY <1>1, <1>7 DEF SeenAt
<1> QED
  BY <1>2, <1>3, <1>6, <1>8 DEF InStepAt

LEMMA OpenSessionStep == StepInv /\ OpenSession => StepIn'
<1> SUFFICES ASSUME StepInv, OpenSession PROVE StepIn'
  OBVIOUS
<1>1. /\ fs_db' = RootOnly /\ UNCHANGED <<fs, op, cursor, wild, blind, renamed>> /\ op.pc = "idle" /\ fs_db = <<>>
  BY DEF OpenSession, Free, Session
<1>2. renamed = {}
  BY <1>1 DEF StepInv, StepIn
<1>3. PICK e : e = fs_db'
  OBVIOUS
<1>4. DOMAIN e = {0} /\ e[0].wd = NoWd
  BY <1>1, <1>3 DEF RootOnly
<1>7. PICK t : t = Due'
  OBVIOUS
<1>5. \A h \in DOMAIN e : InStepAt(fs, e, t, blind, renamed, cursor, wild, h)
  BY <1>4, NoWatchAt, Given DEF StepInv
<1>6. CursorIn(fs, cursor)
  BY DEF StepInv, StepIn
<1> QED
  BY <1>1, <1>2, <1>3, <1>5, <1>6, <1>7, IdleAt DEF StepIn, AllIn

LEMMA DropStep == StepInv /\ Drop => StepIn'
<1> SUFFICES ASSUME StepInv, Drop PROVE StepIn'
  OBVIOUS
<1>1. /\ fs_db' = <<>> /\ renamed' = {} /\ UNCHANGED <<op, cursor>> /\ op.pc = "idle"
      /\ fs' = RmWatch(fs, WatchesOf(fs_db, DOMAIN fs_db))
  BY DEF Drop, Free
<1>2. PICK e : e = fs_db'
  OBVIOUS
<1>3. DOMAIN e = {}
  BY <1>1, <1>2
<1>4. PICK g : g = fs'
  OBVIOUS
<1>5. g.queue = fs.queue
  BY <1>1, <1>4, RmWatchDoes, Given DEF StepInv
<1>6. CursorIn(g, cursor)
  BY <1>5 DEF StepInv, StepIn, CursorIn
<1> QED
  BY <1>1, <1>2, <1>3, <1>4, <1>6, IdleAt DEF StepIn, AllIn

LEMMA ListFolderStep == ASSUME NEW h \in told \cup {0} PROVE StepInv /\ ListFolder(h) => StepIn'
<1> SUFFICES ASSUME StepInv, ListFolder(h) PROVE StepIn'
  OBVIOUS
<1> USE Given DEF StepInv
<1>1. PICK p : p = build_full_path(fs_db, h)
  OBVIOUS
<1>2. PICK order \in SetToSeqs(Missing(fs_db, fs, p, h)) : fs_db' = ScanAdd(fs_db, fs, p, h, order)
  BY <1>1 DEF ListFolder
<1>3. /\ UNCHANGED <<fs, cursor, wild, renamed>> /\ op.pc = "idle"
      /\ h \in DOMAIN fs_db /\ fs_db[h].live
      /\ blind' = (IF IsDir(fs, p) THEN blind \ {h} ELSE blind)
  BY <1>1 DEF ListFolder, Free, Live
<1>4. PICK o : o = op'
  OBVIOUS
<1>5. o.pc = "drop" /\ o.h = h /\ o.from = p /\ (o.ok <=> IsDir(fs, p))
  <2>1. PICK ok \in BOOLEAN : ok <=> IsDir(fs, p)
    <3>1. IsDir(fs, p) \in BOOLEAN
      BY DEF IsDir
    <3> QED
      BY <3>1
  <2>2. op' = [Idle EXCEPT !.pc = "drop", !.h = h, !.ok = IsDir(fs, p), !.from = p]
    BY <1>1 DEF ListFolder
  <2> QED
    BY <1>4, <2>2 DEF Idle
<1>6. PICK e : e = fs_db'
  OBVIOUS
<1>7. p \in Seq(Names)
  BY <1>1, <1>3, PathTypes
<1>8. More(fs_db, e) /\ FirstPass(fs_db, e, fs, p, h)
  BY <1>2, <1>3, <1>6, <1>7, ScanDoes
<1>9. NewIn(fs_db, e, h) /\ DOMAIN fs_db \subseteq DOMAIN e
  BY <1>8 DEF NewIn, FirstPass, More
<1>10. PICK C : C = blind'
  OBVIOUS
<1>11. /\ KeptAt(fs, e, blind, h) /\ e[h] = fs_db[h] /\ build_full_path(e, h) = p
       /\ InStepAt(fs, fs_db, Due, blind, renamed, cursor, wild, h)
  <2>1. InStepAt(fs, fs_db, Due, blind, renamed, cursor, wild, h)
    BY <1>3, IdleAt DEF StepIn, AllIn
  <2>2. More(fs_db, e) /\ renamed \subseteq DOMAIN fs_db /\ h \in DOMAIN fs_db
    BY <1>3, <1>8 DEF StepIn
  <2>3. /\ KeptAt(fs, fs_db, blind, h) => KeptAt(fs, e, blind, h)
        /\ e[h] = fs_db[h] /\ build_full_path(e, h) = build_full_path(fs_db, h)
    BY <2>2, MoreFollow
  <2>4. KeptAt(fs, fs_db, blind, h)
    BY <2>1 DEF InStepAt
  <2> QED
    BY <1>1, <2>1, <2>3, <2>4
<1>16. PICK t : t = Due'
  OBVIOUS
<1>17. Due \subseteq t /\ t \ Due \subseteq DOMAIN e \ DOMAIN fs_db
  <2>1. told' = told /\ missed' = missed /\ adding' = adding /\ removing' = removing
    BY DEF ListFolder, push
  <2>2. told \subseteq DOMAIN fs_db
    OBVIOUS
  <2>3. PICK M : M = missed \cup adding \cup removing
    OBVIOUS
  <2>4. Due = DueOf(fs_db, told, M) /\ t = DueOf(e, told, M)
    BY <1>6, <1>16, <2>1, <2>3, DueIs
  <2> QED
    BY <1>8, <2>2, <2>4, DueGrows
<1>18. \A x \in t \ Due : e[x].parent = h
  BY <1>9, <1>17 DEF NewIn
<1>12. ASSUME NEW x \in DOMAIN e \ Exempt(o) PROVE InStepAt(fs, e, t, C, renamed, cursor, wild, x)
  <2>1. CASE x # h
    <3>1. x \in DOMAIN fs_db => InStepAt(fs, fs_db, Due, blind, renamed, cursor, wild, x)
      BY <1>3, IdleAt DEF StepIn, AllIn
    <3>2. InStepAt(fs, e, t, blind, renamed, cursor, wild, x)
      BY <1>8, <1>9, <1>17, <1>18, <2>1, <3>1, MoreAt DEF StepIn
    <3>3. x \in blind => x \in C
      BY <1>3, <1>10, <2>1
    <3> QED
      BY <3>2, <3>3, BlindMore
  <2>2. CASE x = h
    <3>1. ~ IsDir(fs, p) /\ C = blind
      BY <1>3, <1>5, <1>10, <2>2 DEF Exempt
    <3>2. ~ Follows(fs, e, C, renamed, h)
      BY <1>11, <3>1 DEF Follows, WatchAt, Watching
    <3> QED
      BY <1>11, <2>2, <3>1, <3>2 DEF InStepAt
  <2> QED
    BY <2>1, <2>2
<1>13. Listed(fs, e, C, cursor, o)
  <2>1. CASE ~ IsDir(fs, p)
    <3>1. C = blind /\ p # <<>>
      BY <1>3, <1>10, <2>1 DEF IsDir
    <3>2. h \in blind \/ fs_db[h].wd \notin Values(fs)
      BY <1>1, <1>3, <1>11, <2>1, <3>1 DEF InStepAt, KeptAt, WatchAt, Watching
    <3> QED
      BY <1>5, <1>11, <2>1, <3>1, <3>2 DEF Listed
  <2>2. CASE IsDir(fs, p)
    <3>1. ASSUME NEW n \in Names, n \in Kids(fs, p) PROVE Known(e, h, n)
      <4>1. \A x \in DOMAIN fs_db : x \in DOMAIN e /\ e[x] = fs_db[x]
        BY <1>8 DEF More
      <4>2. CASE find_entry(fs_db, n, h) # {}
        <5>1. PICK x \in find_entry(fs_db, n, h) : TRUE
          BY <4>2
        <5>2. x \in DOMAIN e \ {0} /\ e[x].live /\ e[x].parent = h /\ e[x].name = n
          BY <4>1, <5>1 DEF find_entry
        <5> QED
          BY <5>2 DEF Known, Children
      <4>3. CASE find_entry(fs_db, n, h) = {}
        <5>1. n \in Missing(fs_db, fs, p, h)
          BY <2>2, <3>1, <4>3 DEF Missing
        <5>2. PICK x \in DOMAIN e \ DOMAIN fs_db : e[x].name = n
          BY <1>8, <5>1 DEF FirstPass
        <5>3. x # 0 /\ e[x].live /\ e[x].parent = h
          BY <1>8, <5>2 DEF More, FirstPass
        <5> QED
          BY <5>2, <5>3 DEF Known, Children
      <4> QED
        BY <4>2, <4>3
    <3> QED
      BY <1>5, <2>2, <3>1 DEF Listed
  <2> QED
    BY <2>1, <2>2
<1>14. Renaming(fs, e, C, o) /\ OpAt(o, e)
  BY <1>3, <1>5, <1>11 DEF Renaming, OpAt
<1>15. CursorIn(fs, cursor) /\ renamed \subseteq DOMAIN e
  BY <1>9 DEF StepIn
<1> QED
  BY <1>3, <1>4, <1>6, <1>10, <1>12, <1>13, <1>14, <1>15, <1>16 DEF StepIn, AllIn, OpInStep

\* A flag for children of H.
LEMMA FlaggingIs ==
  ASSUME NEW d, Db(d), NEW H \in DOMAIN d, NEW hs, ChildrenOf(d, hs, H), NEW e, e = Flag(d, hs)
  PROVE  Flagging(d, e, hs, H)
<1>1. 0 \notin hs
  BY DEF ChildrenOf
<1> QED
  BY <1>1, FlagDoes DEF Flagging

LEMMA ListDropStep == StepInv /\ ListDrop => StepIn'
<1> SUFFICES ASSUME StepInv, ListDrop PROVE StepIn'
  OBVIOUS
<1> USE Given DEF StepInv
<1>1. PICK h : h = op.h
  OBVIOUS
<1>2. PICK gone : gone = Gone(fs_db, fs, h)
  OBVIOUS
<1>3. PICK lost : lost = WatchesOf(fs_db, gone)
  OBVIOUS
<1>4. PICK p : p = op.from
  OBVIOUS
<1>5. /\ UNCHANGED <<cursor, wild, renamed>> /\ op.pc = "drop" /\ h \in DOMAIN fs_db
      /\ fs_db' = Flag(fs_db, gone) /\ fs' = RmWatch(fs, lost)
      /\ blind' = (IF op.ok /\ Watching(fs, p) /\ fs.watch[Ino(fs, p)] \in lost THEN blind \cup {h} ELSE blind)
      /\ fs_db[h].live /\ p = build_full_path(fs_db, h)
  BY <1>1, <1>2, <1>3, <1>4 DEF ListDrop, StepIn, OpInStep, OpAt
<1>6. PICK e : e = fs_db'
  OBVIOUS
<1>7. PICK g : g = fs'
  OBVIOUS
<1>8. PICK C : C = blind'
  OBVIOUS
<1>9. PICK o : o = op'
  OBVIOUS
<1>10. Flagging(fs_db, e, gone, h) /\ gone \subseteq Children(fs_db, h)
  <2>1. ChildrenOf(fs_db, gone, h) /\ gone \subseteq Children(fs_db, h)
    BY <1>2 DEF ChildrenOf, Gone, Children
  <2> QED
    BY <1>5, <1>6, <2>1, FlaggingIs
<1>11. /\ \A n : Known(e, h, n) <=> \E x \in Children(fs_db, h) \ gone : fs_db[x].name = n
       /\ build_full_path(e, h) = p /\ e[h] = fs_db[h]
  <2>1. ChildrenLess(fs_db, e, gone, h)
    BY <1>10, FlagSelf
  <2> QED
    BY <1>5, <2>1 DEF ChildrenLess
<1>12. DOMAIN e = DOMAIN fs_db
  BY <1>10 DEF Flagging, Less
<1>13. /\ op.ok => o.pc = "watch" /\ o.h = h /\ o.ok /\ o.from = p /\ Exempt(o) = {h} /\ Exempt(op) = {h}
       /\ ~ op.ok => o = Idle /\ Exempt(o) = {} /\ Exempt(op) = {}
  <2>1. op \in [pc : {"idle", "drop", "watch", "rmdir", "rename"}, h : Nat, ok : BOOLEAN, old : Names \cup {NoName},
               from : Seq(Names), to : Seq(Names)]
    BY DEF FilesInv, OpIn
  <2>2. op' = IF op.ok THEN [op EXCEPT !.pc = "watch"] ELSE Idle
    BY DEF ListDrop
  <2>3. op.ok => o.pc = "watch" /\ o.h = h /\ o.ok /\ o.from = p
    BY <1>1, <1>4, <1>9, <2>1, <2>2
  <2>4. ~ op.ok => o = Idle /\ o.pc = "idle"
    BY <1>9, <2>2 DEF Idle
  <2> QED
    BY <1>1, <1>5, <2>3, <2>4 DEF Exempt
<1>19. PICK t : t = Due'
  OBVIOUS
<1>20. t \subseteq Due /\ Due \ gone \subseteq t
  <2>1. /\ told' = told /\ adding' = adding /\ removing' = removing
        /\ missed' \cup adding' \cup removing' = missed \cup adding \cup removing
    BY DEF ListDrop, push, Late
  <2>2. Flags(fs_db, e, gone)
    BY <1>10 DEF Flagging
  <2>3. PICK M : M = missed \cup adding \cup removing
    OBVIOUS
  <2>4. Due = DueOf(fs_db, told, M) /\ t = DueOf(e, told, M)
    BY <1>6, <1>19, <2>1, <2>3, DueIs
  <2> QED
    BY <1>12, <2>2, <2>4, DueFlags
<1>14. ASSUME NEW x \in DOMAIN e \ Exempt(o) PROVE InStepAt(g, e, t, C, renamed, cursor, wild, x)
  <2>1. InStepAt(fs, fs_db, Due, blind, renamed, cursor, wild, x)
    BY <1>12, <1>13 DEF StepIn, AllIn
  <2>2. InStepAt(fs, e, t, blind, renamed, cursor, wild, x)
    <3>1. CASE x # h
      BY <1>10, <1>12, <1>20, <2>1, <3>1, FlagAt DEF StepIn
    <3>2. CASE x = h
      <4>1. ~ op.ok
        BY <1>13, <3>2
      <4>2. h \in blind \/ fs_db[h].wd \notin Values(fs)
        BY <1>1, <1>5, <4>1 DEF StepIn, OpInStep, Listed
      <4>3. KeptAt(fs, e, blind, h) /\ (Follows(fs, e, blind, renamed, h) => Follows(fs, fs_db, blind, renamed, h))
        BY <1>5, <1>10, <2>1, <3>2, FlagFollow DEF StepIn, InStepAt
      <4>4. ~ Follows(fs, fs_db, blind, renamed, h)
        BY <4>2, WatchValue DEF Follows
      <4> QED
        BY <3>2, <4>3, <4>4 DEF InStepAt
    <3> QED
      BY <3>1, <3>2
  <2>3. InStepAt(g, e, t, blind, renamed, cursor, wild, x)
    BY <1>5, <1>7, <2>2, KeptLess
  <2>4. x \in blind => x \in C
    BY <1>5, <1>8
  <2> QED
    BY <2>3, <2>4, BlindMore
<1>15. /\ g.disk = fs.disk /\ g.inos = fs.inos /\ g.queue = fs.queue
       /\ DOMAIN g.watch = {i \in DOMAIN fs.watch : fs.watch[i] \notin lost}
       /\ \A i \in DOMAIN g.watch : g.watch[i] = fs.watch[i]
  BY <1>5, <1>7, RmWatchDoes
<1>16. ASSUME op.ok, h \notin C PROVE Listed(g, e, C, cursor, o)
  <2>1. h \notin blind /\ (Watching(fs, p) => fs.watch[Ino(fs, p)] \notin lost)
    BY <1>5, <1>8, <1>16
  <2>2. IsDir(fs, p)
    BY <1>1, <1>4, <1>5, <1>16, <2>1 DEF StepIn, OpInStep, Listed
  <2>3. IsDir(g, p) /\ Ino(g, p) = Ino(fs, p) /\ Kids(g, p) = Kids(fs, p)
    BY <1>15, <2>2, SameNodes
  <2>4. Watching(fs, p) => Watching(g, p) /\ g.watch[Ino(g, p)] = fs.watch[Ino(fs, p)]
    BY <1>15, <2>1, <2>3 DEF Watching
  <2>5. \A x \in Children(fs_db, h) : fs_db[x].name \in Names => (x \in gone <=> fs_db[x].name \notin Kids(fs, p))
    <3> SUFFICES ASSUME NEW x \in Children(fs_db, h), fs_db[x].name \in Names
                 PROVE  x \in gone <=> fs_db[x].name \notin Kids(fs, p)
      OBVIOUS
    <3>1. build_full_path(fs_db, x) = Append(p, fs_db[x].name)
      BY <1>5, ChildPath
    <3>2. Append(p, fs_db[x].name) # <<>>
      BY <1>4, InFolder
    <3> QED
      BY <1>2, <3>1, <3>2 DEF Gone, Exists, Kids
  <2>6. ASSUME NEW n \in Names, Watching(g, p) => Awaits(g, cursor, h, g.watch[Ino(g, p)], n) = {}
        PROVE  n \in Kids(g, p) <=> Known(e, h, n)
    <3>1. Watching(fs, p) => Awaits(fs, cursor, h, fs.watch[Ino(fs, p)], n) = {}
      BY <1>15, <2>4, <2>6 DEF Awaits
    <3>2. n \in Kids(fs, p) => Known(fs_db, h, n)
      BY <1>1, <1>4, <1>5, <1>16, <2>1, <3>1 DEF StepIn, OpInStep, Listed
    <3>3. ASSUME n \in Kids(fs, p) PROVE Known(e, h, n)
      <4>1. PICK x \in Children(fs_db, h) : fs_db[x].name = n
        BY <3>2, <3>3 DEF Known
      <4>2. x \notin gone
        BY <2>5, <3>3, <4>1
      <4> QED
        BY <1>11, <4>1, <4>2
    <3>4. ASSUME Known(e, h, n) PROVE n \in Kids(fs, p)
      <4>1. PICK x \in Children(fs_db, h) \ gone : fs_db[x].name = n
        BY <1>11, <3>4
      <4> QED
        BY <2>5, <4>1
    <3> QED
      BY <2>3, <3>3, <3>4
  <2> QED
    BY <1>13, <1>16, <2>3, <2>6 DEF Listed
<1>17. OpInStep(g, e, C, cursor, o)
  <2>1. CASE ~ op.ok
    BY <1>13, <2>1, IdleAt DEF Idle
  <2>2. CASE op.ok
    <3>1. Listed(g, e, C, cursor, o)
      <4>1. CASE h \in C
        BY <1>13, <2>2, <4>1 DEF Listed
      <4> QED
        BY <1>16, <2>2, <4>1
    <3>2. Renaming(g, e, C, o)
      BY <1>13, <2>2 DEF Renaming
    <3>3. OpAt(o, e)
      BY <1>5, <1>11, <1>13, <2>2 DEF OpAt
    <3> QED
      BY <3>1, <3>2, <3>3 DEF OpInStep
  <2> QED
    BY <2>1, <2>2
<1>18. CursorIn(g, cursor) /\ renamed \subseteq DOMAIN e
  BY <1>12, <1>15 DEF CursorIn, StepIn
<1> QED
  BY <1>5, <1>6, <1>7, <1>8, <1>9, <1>14, <1>17, <1>18, <1>19 DEF StepIn, AllIn

\* A watch that is new is nobody's yet.
LEMMA AddWatchAt ==
  ASSUME NEW f, Card(f), Watches(f), Tells(f), NEW p, NEW g, g = AddWatch(f, p), NEW d, NEW x, d[x].wd \in Nat, d[x].wd <= f.wds,
         NEW t, NEW B, NEW R, NEW c, NEW W, InStepAt(f, d, t, B, R, c, W, x)
  PROVE  InStepAt(g, d, t, B, R, c, W, x)
<1> DEFINE r == build_full_path(d, x)
           w == d[x].wd
<1>1. /\ g.disk = f.disk /\ g.inos = f.inos /\ g.queue = f.queue /\ f.wds \in Nat
      /\ \A i \in DOMAIN f.watch : i \in DOMAIN g.watch /\ g.watch[i] = f.watch[i]
      /\ \A i \in DOMAIN g.watch \ DOMAIN f.watch : g.watch[i] = f.wds + 1
  BY AddWatchDoes DEF Card, Shaped
<1>2. IsDir(g, r) = IsDir(f, r) /\ Ino(g, r) = Ino(f, r) /\ Kids(g, r) = Kids(f, r)
  BY <1>1, SameNodes
<1>3. \A i \in DOMAIN g.watch : g.watch[i] = w => i \in DOMAIN f.watch /\ f.watch[i] = w
  BY <1>1
<1>4. WatchAt(g, r, w) <=> WatchAt(f, r, w)
  BY <1>1, <1>2, <1>3 DEF WatchAt, Watching
<1>5. w \in Values(g) => w \in Values(f)
  BY <1>3 DEF Values
<1>6. KeptAt(g, d, B, x)
  BY <1>4, <1>5 DEF InStepAt, KeptAt
<1>7. Follows(g, d, B, R, x) => Follows(f, d, B, R, x)
  BY <1>4 DEF Follows
<1>8. SeenAt(f, d, c, x) => SeenAt(g, d, c, x)
  BY <1>1, <1>2 DEF SeenAt, Awaits
<1> QED
  BY <1>6, <1>7, <1>8 DEF InStepAt

LEMMA SetWdSame ==
  ASSUME NEW d, Db(d), NEW e, NEW h, NEW w, Less(d, e), HasWd(d, e, h, w)
  PROVE  \A x \in DOMAIN d : /\ build_full_path(e, x) = build_full_path(d, x)
                             /\ x # h => SameEntry(d, e, x)
<1>1. /\ Db(e) /\ DOMAIN e = DOMAIN d
      /\ \A x \in DOMAIN d : e[x].parent = d[x].parent /\ e[x].name = d[x].name /\ e[x].live = d[x].live
      /\ \A x \in DOMAIN d : x # h => e[x] = d[x]
  BY DEF Less, HasWd
<1>2. SameUp(d, e, {})
  BY <1>1, Entries DEF SameUp
<1>3. \A x \in DOMAIN d : build_full_path(e, x) = build_full_path(d, x)
  BY <1>1, <1>2, PathsStay
<1> QED
  BY <1>1, <1>3 DEF SameEntry

LEMMA ListReplyStep == StepInv /\ ListReply => StepIn'
<1> SUFFICES ASSUME StepInv, ListReply PROVE StepIn'
  OBVIOUS
<1> USE Given DEF StepInv
<1>1. PICK h : h = op.h
  OBVIOUS
<1>2. PICK p : p = op.from
  OBVIOUS
<1>3. /\ UNCHANGED <<cursor, wild, blind, renamed>> /\ op.pc = "watch" /\ op' = Idle /\ h \in DOMAIN fs_db
      /\ fs_db[h].live /\ p = build_full_path(fs_db, h) /\ op.ok /\ Exempt(op) = {h}
  BY <1>1, <1>2 DEF ListReply, StepIn, OpInStep, OpAt, Exempt
<1>4. PICK t : t = Due'
  OBVIOUS
<1>5. t = {x \in Due : fs_db[x].parent # h} \cup Children(fs_db, h)
  <2>1. /\ told' = {x \in told : fs_db[x].parent # h} \cup Children(fs_db, h)
        /\ missed' = missed \ ({x \in DOMAIN fs_db : fs_db[x].parent = h} \ (adding \cup removing))
        /\ adding' = adding /\ removing' = removing
    BY <1>1 DEF ListReply, push
  <2>2. PICK M : M = missed \cup adding \cup removing
    OBVIOUS
  <2>3. PICK N : N = missed' \cup adding' \cup removing'
    OBVIOUS
  <2>4. N \subseteq M /\ \A x \in DOMAIN fs_db : fs_db[x].parent # h /\ x \in M => x \in N
    BY <2>1, <2>2, <2>3
  <2>5. SameLive(fs_db, fs_db')
    <3>1. PICK e : e = fs_db'
      OBVIOUS
    <3>2. e = fs_db \/ \E w : e = [fs_db EXCEPT ![h].wd = w]
      BY <1>1, <3>1 DEF ListReply
    <3>3. ASSUME NEW w, e = [fs_db EXCEPT ![h].wd = w], NEW x \in DOMAIN fs_db PROVE e[x].live = fs_db[x].live
      <4>1. fs_db[x] \in Entry
        BY DEF Db
      <4>2. e[x] = fs_db[x] \/ e[x] = [fs_db[x] EXCEPT !.wd = w]
        BY <3>3
      <4> QED
        BY <4>1, <4>2 DEF Entry
    <3> QED
      BY <3>1, <3>2, <3>3 DEF SameLive
  <2>6. t = DueOf(fs_db, told', N)
    BY <1>4, <2>3, <2>5, DueIs, DueSame
  <2>7. Due = DueOf(fs_db, told, M)
    BY <2>2, DueIs
  <2>8. ASSUME NEW x PROVE x \in t <=> x \in {y \in Due : fs_db[y].parent # h} \cup Children(fs_db, h)
    <3>1. CASE x \in DOMAIN fs_db /\ fs_db[x].parent = h
      BY <2>1, <2>6, <3>1 DEF DueOf, Children
    <3>2. CASE x \in DOMAIN fs_db /\ fs_db[x].parent # h
      BY <2>1, <2>4, <2>6, <2>7, <3>2 DEF DueOf, Children
    <3>3. CASE x \notin DOMAIN fs_db
      BY <2>6, <2>7, <3>3 DEF DueOf, Children
    <3> QED
      BY <3>1, <3>2, <3>3
  <2> QED
    BY <2>8
<1>6. /\ t \subseteq DOMAIN fs_db
      /\ \A x \in DOMAIN fs_db : x # h => \A y \in DOMAIN fs_db : fs_db[y].parent = x => (y \in Due <=> y \in t)
      /\ HostAt(fs_db, t, h)
  BY <1>5 DEF Children, HostAt
<1>7. \A x \in DOMAIN fs_db : x # h => InStepAt(fs, fs_db, Due, blind, renamed, cursor, wild, x)
  BY <1>3 DEF StepIn, AllIn
<1>8. renamed \subseteq DOMAIN fs_db /\ CursorIn(fs, cursor)
  BY DEF StepIn
<1>9. \A x \in DOMAIN fs_db : x \in Nat /\ fs_db[x].wd \in Nat /\ fs_db[x].wd <= fs.wds /\ fs_db[x].dir \in BOOLEAN
  BY Entries DEF FilesInv, DbIn
<1>10. CASE fs_db[h].dir = FALSE
  <2>1. fs' = fs /\ fs_db' = fs_db
    BY <1>1, <1>10 DEF ListReply
  <2>2. ASSUME NEW x \in DOMAIN fs_db PROVE InStepAt(fs, fs_db, t, blind, renamed, cursor, wild, x)
    <3>1. CASE x = h
      <4>1. fs_db[h].wd = NoWd
        BY <1>3, <1>10 DEF Db
      <4> QED
        BY <3>1, <4>1, NoWatchAt
    <3>2. CASE x # h
      <4>1. SameEntry(fs_db, fs_db, x)
        BY DEF SameEntry
      <4> QED
        BY <1>6, <1>7, <1>8, <3>2, <4>1, SameEntryAt
    <3> QED
      BY <3>1, <3>2
  <2>3. Idle.pc = "idle"
    BY DEF Idle
  <2> QED
    BY <1>3, <1>4, <1>8, <2>1, <2>2, <2>3, IdleAt DEF StepIn, AllIn
<1>11. CASE fs_db[h].dir = TRUE
  <2>1. PICK g : g = fs'
    OBVIOUS
  <2>2. PICK w : w = (IF IsDir(fs, p) THEN g.watch[Ino(fs, p)] ELSE NoWd)
    OBVIOUS
  <2>3. g = AddWatch(fs, p) /\ fs_db' = [fs_db EXCEPT ![h].wd = w]
    BY <1>1, <1>2, <1>11, <2>1, <2>2 DEF ListReply
  <2>4. /\ Card(g) /\ Watches(g) /\ g.disk = fs.disk /\ g.inos = fs.inos /\ g.queue = fs.queue /\ g.wds \in Nat
        /\ IsDir(fs, p) => Watching(g, p)
        /\ \A i \in DOMAIN fs.watch : i \in DOMAIN g.watch /\ g.watch[i] = fs.watch[i]
    BY <2>3, AddWatchDoes
  <2>5. IsDir(g, p) = IsDir(fs, p) /\ Ino(g, p) = Ino(fs, p) /\ Kids(g, p) = Kids(fs, p)
    BY <2>4, SameNodes
  <2>6. IsDir(fs, p) => WatchAt(g, p, w)
    BY <2>2, <2>4, <2>5 DEF WatchAt
  <2>7. w \in Nat
    <3>1. CASE IsDir(fs, p)
      BY <2>4, <2>6, <3>1, WatchValue
    <3>2. CASE ~ IsDir(fs, p)
      BY <2>2, <3>2 DEF NoWd
    <3> QED
      BY <3>1, <3>2
  <2>8. PICK e : e = fs_db'
    OBVIOUS
  <2>9. Less(fs_db, e) /\ HasWd(fs_db, e, h, w)
    BY <1>3, <1>11, <2>3, <2>7, <2>8, SetWdDoes
  <2>10. DOMAIN e = DOMAIN fs_db /\ e[h].wd = w /\ e[h].live
    BY <1>3, <2>9 DEF Less, HasWd
  <2>11. \A x \in DOMAIN fs_db : /\ build_full_path(e, x) = build_full_path(fs_db, x)
                                 /\ x # h => SameEntry(fs_db, e, x)
    BY <2>9, SetWdSame
  <2>12. ASSUME NEW x \in DOMAIN fs_db, x # h PROVE InStepAt(g, e, t, blind, renamed, cursor, wild, x)
    <3>1. InStepAt(g, fs_db, Due, blind, renamed, cursor, wild, x)
      BY <1>7, <1>9, <2>3, <2>12, AddWatchAt
    <3>2. SameEntry(fs_db, e, x)
      BY <2>11, <2>12
    <3>3. t \subseteq DOMAIN fs_db /\ Due \subseteq DOMAIN fs_db
          /\ \A y \in DOMAIN fs_db : fs_db[y].parent = x => (y \in Due <=> y \in t)
      BY <1>6, <2>12
    <3> QED
      BY <1>8, <3>1, <3>2, <3>3, SameEntryAt
  <2>13. InStepAt(g, e, t, blind, renamed, cursor, wild, h)
    <3>1. CASE h \in blind
      BY <3>1 DEF InStepAt, KeptAt, Follows
    <3>2. CASE h \notin blind
      <4>1. /\ IsDir(fs, p)
            /\ \A n \in Names : (Watching(fs, p) => Awaits(fs, cursor, h, fs.watch[Ino(fs, p)], n) = {}) =>
                                  (n \in Kids(fs, p) <=> Known(fs_db, h, n))
        BY <1>1, <1>2, <1>3, <3>2 DEF StepIn, OpInStep, Listed
      <4>2. build_full_path(e, h) = p
        BY <1>3, <2>11
      <4>3. KeptAt(g, e, blind, h)
        BY <2>6, <2>10, <4>1, <4>2 DEF KeptAt
      <4>4. \A y \in DOMAIN fs_db : e[y].parent = fs_db[y].parent /\ e[y].live = fs_db[y].live /\ e[y].name = fs_db[y].name
        BY <2>9 DEF Less, HasWd
      <4>5. Children(e, h) = Children(fs_db, h)
        BY <2>10, <4>4 DEF Children
      <4>6. HostAt(e, t, h)
        <5>1. {x \in t : e[x].parent = h} = {x \in t : fs_db[x].parent = h}
          BY <1>6, <4>4
        <5> QED
          BY <1>6, <4>5, <5>1 DEF HostAt
      <4>7. SeenAt(g, e, cursor, h)
        <5> SUFFICES ASSUME NEW n \in Names, Awaits(g, cursor, h, w, n) = {} PROVE n \in Kids(g, p) <=> Known(e, h, n)
          BY <2>10, <4>2 DEF SeenAt
        <5>1. Awaits(fs, cursor, h, w, n) = {}
          BY <2>4 DEF Awaits
        <5>2. Watching(fs, p) => fs.watch[Ino(fs, p)] = w
          BY <2>2, <2>4, <4>1 DEF Watching
        <5>3. n \in Kids(fs, p) <=> Known(fs_db, h, n)
          BY <4>1, <5>1, <5>2
        <5>4. Known(e, h, n) <=> Known(fs_db, h, n)
          BY <4>4, <4>5 DEF Known, Children
        <5> QED
          BY <2>5, <5>3, <5>4
      <4> QED
        BY <4>3, <4>6, <4>7 DEF InStepAt
    <3> QED
      BY <3>1, <3>2
  <2>14. CursorIn(g, cursor) /\ renamed \subseteq DOMAIN e
    BY <1>8, <2>4, <2>10 DEF CursorIn
  <2>15. Idle.pc = "idle"
    BY DEF Idle
  <2> QED
    BY <1>3, <1>4, <2>1, <2>8, <2>10, <2>12, <2>13, <2>14, <2>15, IdleAt DEF StepIn, AllIn
<1> QED
  BY <1>3, <1>9, <1>10, <1>11

-----------------------------------------------------------------------------
(* New objects.                                                            *)

LEMMA BlindAt ==
  ASSUME NEW f, NEW d, NEW t, NEW B, NEW R, NEW c, NEW W, NEW h, h \in B
  PROVE  InStepAt(f, d, t, B, R, c, W, h)
BY DEF InStepAt, KeptAt, Follows

\* An entry for a name that is in the folder, and the host is told of it.
AddedTo(d, e, n, h) == \E dir \in BOOLEAN : e = add_entry(d, n, h, dir)
LEMMA AddedAll ==
  ASSUME NEW f, Card(f), Watches(f), NEW d, Db(d), NEW h \in DOMAIN d, NEW n \in Names,
         n \in Kids(f, build_full_path(d, h)), NEW e, AddedTo(d, e, n, h),
         NEW t, t \subseteq DOMAIN d, NEW t2, t2 = t \cup {Min(find_entry(e, n, h))},
         NEW B, NEW R, R \subseteq DOMAIN d, NEW c, NEW W, AllIn(f, d, t, B, R, c, W, {})
  PROVE  AllIn(f, e, t2, B, R, c, W, {}) /\ R \subseteq DOMAIN e
<1>0. PICK dir \in BOOLEAN : e = add_entry(d, n, h, dir)
  BY DEF AddedTo
<1>1. /\ More(d, e) /\ find_entry(e, n, h) # {} /\ find_entry(e, n, h) \subseteq DOMAIN e \ {0}
      /\ find_entry(d, n, h) # {} => e = d
      /\ find_entry(d, n, h) = {} => \E j : DOMAIN e = DOMAIN d \cup {j}
  <2>1. More(d, e)
    BY <1>0, AddDoes
  <2>2. find_entry(e, n, h) # {} /\ find_entry(e, n, h) \subseteq DOMAIN e \ {0}
    BY <1>0, AddDoes
  <2>3. find_entry(d, n, h) # {} => e = d
    BY <1>0 DEF add_entry
  <2>4. find_entry(d, n, h) = {} => DOMAIN e = DOMAIN d \cup {Cardinality(DOMAIN d)}
    BY <1>0 DEF add_entry, alloc_entry, With
  <2> QED
    BY <2>1, <2>2, <2>3, <2>4
<1>2. DOMAIN d \subseteq DOMAIN e /\ Db(e) /\ \A x \in DOMAIN d : e[x] = d[x]
  BY <1>1 DEF More
<1>3. PICK k : k = Min(find_entry(e, n, h))
  OBVIOUS
<1>4. k \in find_entry(e, n, h)
  <2>1. \A x \in DOMAIN e : x \in Nat
    BY <1>2, Entries
  <2> QED
    BY <1>1, <1>3, <2>1, MinIn
<1>5. k \in DOMAIN e \ {0} /\ e[k].name = n /\ e[k].parent = h /\ e[k].live /\ t2 = t \cup {k}
  BY <1>1, <1>3, <1>4 DEF find_entry
<1>6. f.wds \in Nat
  BY DEF Card, Shaped
<1>7. CASE find_entry(d, n, h) # {}
  <2>1. e = d
    BY <1>1, <1>7
  <2>2. ASSUME NEW x \in DOMAIN d PROVE InStepAt(f, d, t2, B, R, c, W, x)
    <3>1. InStepAt(f, d, t, B, R, c, W, x)
      BY DEF AllIn
    <3>2. CASE x # h
      <4>1. SameEntry(d, d, x)
        BY DEF SameEntry
      <4>2. t2 \subseteq DOMAIN d /\ \A y \in DOMAIN d : d[y].parent = x => (y \in t <=> y \in t2)
        BY <1>5, <2>1, <3>2
      <4> QED
        BY <3>1, <4>1, <4>2, SameEntryAt
    <3>3. CASE x = h
      <4>1. HostAt(d, t, h) => HostAt(d, t2, h)
        BY <1>5, <2>1 DEF HostAt, Children
      <4> QED
        BY <3>1, <3>3, <4>1 DEF InStepAt
    <3> QED
      BY <3>2, <3>3
  <2> QED
    BY <1>2, <2>1, <2>2 DEF AllIn
<1>8. CASE find_entry(d, n, h) = {}
  <2>1. DOMAIN e = DOMAIN d \cup {k} /\ k \notin DOMAIN d
    <3>1. PICK j : DOMAIN e = DOMAIN d \cup {j}
      BY <1>1, <1>8
    <3>2. k \notin DOMAIN d
      <4> SUFFICES ASSUME k \in DOMAIN d PROVE FALSE
        OBVIOUS
      <4>1. k \in find_entry(d, n, h)
        BY <1>2, <1>4 DEF find_entry
      <4> QED
        BY <1>8, <4>1
    <3> QED
      BY <1>5, <3>1, <3>2
  <2>2. NewIn(d, e, h)
    BY <1>5, <2>1 DEF NewIn
  <2>3. ASSUME NEW x \in DOMAIN e PROVE InStepAt(f, e, t2, B, R, c, W, x)
    <3>1. x \in DOMAIN d => InStepAt(f, d, t, B, R, c, W, x)
      BY DEF AllIn
    <3>2. CASE x # h
      <4>1. PICK u : u = t2
        OBVIOUS
      <4>2. t \subseteq u /\ \A y \in u \ t : e[y].parent = h
        BY <1>5, <4>1
      <4>3. More(d, e)
        BY <1>1
      <4>4. InStepAt(f, e, u, B, R, c, W, x)
        BY <1>6, <2>2, <3>1, <3>2, <4>2, <4>3, MoreAt
      <4> QED
        BY <4>1, <4>4
    <3>3. CASE x = h
      <4>1. /\ KeptAt(f, d, B, h) => KeptAt(f, e, B, h)
            /\ Follows(f, e, B, R, h) => Follows(f, d, B, R, h)
            /\ e[h] = d[h] /\ build_full_path(e, h) = build_full_path(d, h)
        BY <1>1, MoreFollow
      <4>2. Children(e, h) = Children(d, h) \cup {k}
        BY <1>2, <1>5, <2>1 DEF Children
      <4>3. {y \in t2 : e[y].parent = h} = {y \in t : d[y].parent = h} \cup {k}
        BY <1>2, <1>5
      <4>4. HostAt(d, t, h) => HostAt(e, t2, h)
        BY <4>2, <4>3 DEF HostAt
      <4>5. Known(e, h, n)
        BY <1>5, <4>2 DEF Known
      <4>6. \A m : m # n => (Known(e, h, m) <=> Known(d, h, m))
        BY <1>2, <1>5, <4>2 DEF Known, Children
      <4>7. SeenAt(f, d, c, h) => SeenAt(f, e, c, h)
        BY <4>1, <4>5, <4>6 DEF SeenAt
      <4> QED
        BY <3>1, <3>3, <4>1, <4>4, <4>7 DEF InStepAt
    <3> QED
      BY <3>2, <3>3
  <2> QED
    BY <1>2, <2>3 DEF AllIn
<1> QED
  BY <1>7, <1>8

LEMMA NewObjectStep ==
  ASSUME StepInv, NEW h \in DOMAIN fs_db, NEW ds \in Datasets, NewObject(h, ds), op.pc = "idle",
         UNCHANGED <<op, cursor, wild, blind, renamed, missed, adding, removing>>
  PROVE  StepIn'
<1> DEFINE n == ds.name
           p == Append(build_full_path(fs_db, h), n)
           dir == ds.dir
<1>1. n \in Names /\ dir \in BOOLEAN
  BY DEF Datasets
<1>2. /\ Card(fs) /\ CardIn(fs) /\ Db(fs_db) /\ Due \subseteq DOMAIN fs_db
      /\ AllIn(fs, fs_db, Due, blind, renamed, cursor, wild, {}) /\ CursorIn(fs, cursor) /\ renamed \subseteq DOMAIN fs_db
  BY Given, IdleAt DEF StepInv, FilesInv, StepIn
<1>3. build_full_path(fs_db, h) \in Seq(Names)
  BY <1>2, PathTypes
<1>4. p \in Seq(Names) /\ p # <<>>
  BY <1>1, <1>3, InFolder
<1>5. CASE UNCHANGED <<fs, fs_db, told>>
  BY <1>5, DueIs DEF StepInv, StepIn
<1>6. ASSUME NEW g, Card(g), Watches(g), CursorIn(g, cursor), p \in DOMAIN g.disk, fs' = g,
             AllIn(g, fs_db, Due, blind, renamed, cursor, wild, {}),
             fs_db' = add_entry(fs_db, n, h, dir), told' = told \cup {Min(find_entry(fs_db', n, h))}
      PROVE  StepIn'
  <2>1. PICK e : e = fs_db'
    OBVIOUS
  <2>2. PICK t : t = Due'
    OBVIOUS
  <2>3. n \in Kids(g, build_full_path(fs_db, h))
    BY <1>1, <1>6 DEF Kids
  <2>4. AllIn(g, e, t, blind, renamed, cursor, wild, {}) /\ renamed \subseteq DOMAIN e
    <3>1. PICK d : d = fs_db
      OBVIOUS
    <3>2. PICK m : m = n
      OBVIOUS
    <3>4. PICK k \in DOMAIN d : k = h
      BY <3>1
    <3>5. AddedTo(d, e, m, k)
      BY <1>1, <1>6, <2>1, <3>1, <3>2, <3>4 DEF AddedTo
    <3>6. t = Due \cup {Min(find_entry(e, m, k))}
      <4>1. PICK u : u = told'
        OBVIOUS
      <4>2. PICK M : M = missed \cup adding \cup removing
        OBVIOUS
      <4>3. PICK z \in BOOLEAN : z = dir
        BY <1>1
      <4>4. PICK y : y = Min(find_entry(e, m, k))
        OBVIOUS
      <4>5. Due = DueOf(d, told, M) /\ t = DueOf(e, u, M)
        BY <2>1, <2>2, <3>1, <4>1, <4>2, DueIs
      <4>6. Db(d) /\ k \in DOMAIN d /\ m \in Names /\ e = add_entry(d, m, k, z) /\ u = told \cup {y}
        BY <1>1, <1>2, <1>6, <2>1, <3>1, <3>2, <3>4, <4>1, <4>3, <4>4
      <4> HIDE DEF n, dir
      <4>7. DueOf(e, u, M) = DueOf(d, told, M) \cup {y}
        BY <4>4, <4>6, DueNew
      <4> QED
        BY <4>4, <4>5, <4>7
    <3>7. m \in Names /\ m \in Kids(g, build_full_path(d, k))
      BY <1>1, <2>3, <3>1, <3>2, <3>4
    <3>8. Card(g) /\ Watches(g) /\ Db(d) /\ Due \subseteq DOMAIN d /\ renamed \subseteq DOMAIN d
      BY <1>2, <1>6, <3>1
    <3>9. AllIn(g, d, Due, blind, renamed, cursor, wild, {})
      BY <1>6, <3>1
    <3> HIDE DEF n, dir
    <3> QED
      BY <3>5, <3>6, <3>7, <3>8, <3>9, AddedAll
  <2> QED
    BY <1>6, <2>1, <2>2, <2>4, IdleAt DEF StepIn
<1>7. ASSUME ~ Exists(fs, p), IsDir(fs, Front(p)), dir = TRUE => Len(p) < MaxDepth, fs' = Create(fs, p, dir),
             fs_db' = add_entry(fs_db, n, h, dir), told' = told \cup {Min(find_entry(fs_db', n, h))}
      PROVE  StepIn'
  <2>1. PICK g : g = fs'
    OBVIOUS
  <2>2. CardStepIn(fs, g) /\ KeepsAll(fs, g, fs_db, blind, blind) /\ HasNew(fs, g, p, dir)
    <3>1. g = Create(fs, p, dir)
      BY <1>7, <2>1
    <3> HIDE DEF p, dir
    <3> QED
      BY <1>1, <1>2, <1>4, <1>7, <3>1, NewCard
  <2>3. AllIn(g, fs_db, Due, blind, renamed, cursor, wild, {}) /\ CursorIn(g, cursor)
    BY <1>2, <2>2, CardAll DEF CardIn
  <2>4. p \in DOMAIN g.disk
    BY <2>2 DEF HasNew
  <2> QED
    BY <1>6, <1>7, <2>1, <2>2, <2>3, <2>4 DEF CardStepIn
<1>8. CASE fs_db[h].live /\ dir = TRUE
  <2>1. NewFolder(h, n) \/ UNCHANGED <<fs, fs_db, told>>
    BY <1>8 DEF NewObject, Live
  <2>2. ASSUME NewFolder(h, n) PROVE StepIn'
    <3>1. \/ UNCHANGED <<fs, fs_db, told>>
          \/ /\ IsDir(fs, Front(p)) /\ ~ Exists(fs, p) /\ Len(p) < MaxDepth
             /\ fs' = Create(fs, p, TRUE) /\ fs_db' = add_entry(fs_db, n, h, TRUE)
             /\ told' = told \cup {Min(find_entry(fs_db', n, h))}
      BY <2>2 DEF NewFolder
    <3> QED
      BY <1>5, <1>7, <1>8, <3>1
  <2> QED
    BY <1>5, <2>1, <2>2
<1>9. CASE fs_db[h].live /\ dir = FALSE
  <2>1. NewFile(h, n) \/ UNCHANGED <<fs, fs_db, told>>
    BY <1>9 DEF NewObject, Live
  <2>2. ASSUME NewFile(h, n) PROVE StepIn'
    <3>1. \/ UNCHANGED <<fs, fs_db, told>>
          \/ /\ IsDir(fs, Front(p)) /\ ~ IsDir(fs, p)
             /\ fs' = IF Exists(fs, p) THEN fs ELSE Create(fs, p, FALSE)
             /\ fs_db' = add_entry(fs_db, n, h, FALSE)
             /\ told' = told \cup {Min(find_entry(fs_db', n, h))}
      BY <2>2 DEF NewFile
    <3>2. CASE ~ Exists(fs, p) /\ fs' = Create(fs, p, FALSE)
      BY <1>5, <1>7, <1>9, <3>1, <3>2
    <3>3. CASE Exists(fs, p) /\ fs' = fs
      <4>1. p \in DOMAIN fs.disk /\ Watches(fs)
        BY <1>2, <1>4, <3>3 DEF Exists, CardIn
      <4> QED
        BY <1>2, <1>5, <1>6, <1>9, <3>1, <3>3, <4>1
    <3> QED
      BY <1>5, <3>1, <3>2, <3>3
  <2> QED
    BY <1>5, <2>1, <2>2
<1>10. CASE ~ fs_db[h].live
  BY <1>5, <1>10 DEF NewObject, Live
<1> QED
  BY <1>1, <1>8, <1>9, <1>10

LEMMA SendObjectInfoStep == ASSUME NEW h \in told \cup {0}, NEW ds \in Datasets PROVE StepInv /\ SendObjectInfo(h, ds) => StepIn'
<1> SUFFICES ASSUME StepInv, SendObjectInfo(h, ds) PROVE StepIn'
  OBVIOUS
<1>1. NewObject(h, ds) /\ UNCHANGED <<op, cursor, wild, blind, renamed, missed, adding, removing>> /\ op.pc = "idle" /\ Session
  BY DEF SendObjectInfo, Free, push
<1>2. h \in DOMAIN fs_db
  BY <1>1, HandleIn DEF StepInv
<1> QED
  BY <1>1, <1>2, NewObjectStep

LEMMA SendObjectInfoCutStep == ASSUME NEW h \in told \cup {0} PROVE StepInv /\ SendObjectInfoCut(h) => StepIn'
<1> SUFFICES ASSUME StepInv, SendObjectInfoCut(h) PROVE StepIn'
  OBVIOUS
<1>1. NewObject(h, dataset[1]) /\ UNCHANGED <<op, cursor, wild, blind, renamed, missed, adding, removing>> /\ op.pc = "idle" /\ Session /\ dataset # <<>>
  BY DEF SendObjectInfoCut, Free, push
<1>2. h \in DOMAIN fs_db
  BY <1>1, HandleIn DEF StepInv
<1>3. dataset[1] \in Datasets
  BY <1>1 DEF StepInv, FilesInv
<1> QED
  BY <1>1, <1>2, <1>3, NewObjectStep

-----------------------------------------------------------------------------
(* Deletions.                                                              *)

LEMMA GivenUp ==
  ASSUME NEW f, Card(f), Watches(f), NEW ws, NEW g, g = RmWatch(f, ws), NEW d, NEW t, NEW B, NEW R, NEW c, NEW W,
         AllIn(f, d, t, B, R, c, W, {}), CursorIn(f, c)
  PROVE  AllIn(g, d, t, B, R, c, W, {}) /\ CursorIn(g, c)
<1>1. \A x \in DOMAIN d : InStepAt(g, d, t, B, R, c, W, x)
  BY KeptLess DEF AllIn
<1>2. g.queue = f.queue
  BY RmWatchDoes
<1> QED
  BY <1>1, <1>2 DEF AllIn, CursorIn

\* An object that is deleted, with its node.
Removal(f, d, t, h, p, g, e, t2) ==
  /\ h \in DOMAIN d \ {0} /\ p = build_full_path(d, h) /\ p \in DOMAIN f.disk /\ Below(f, p) = {}
  /\ e = Flag(d, {h}) /\ g = RmWatch(Unlink(f, p), WatchesOf(d, {h})) /\ t2 = t \ {h}
LEMMA RemovedAll ==
  ASSUME NEW f, CardIn(f), NEW d, Db(d), NEW t, t \subseteq DOMAIN d, NEW h, NEW p, NEW g, NEW e, NEW t2,
         Removal(f, d, t, h, p, g, e, t2), NEW B, NEW R, R \subseteq DOMAIN d, NEW c, CursorIn(f, c),
         NEW W, AllIn(f, d, t, B, R, c, W, {})
  PROVE  AllIn(g, e, t2, B, R, c, W, {}) /\ CursorIn(g, c) /\ R \subseteq DOMAIN e
<1>0. /\ h \in DOMAIN d /\ h # 0 /\ p = build_full_path(d, h) /\ p \in DOMAIN f.disk /\ Below(f, p) = {}
      /\ e = Flag(d, {h}) /\ g = RmWatch(Unlink(f, p), WatchesOf(d, {h})) /\ t2 = t \ {h}
  BY DEF Removal
<1>1. PICK m : m = Unlink(f, p)
  OBVIOUS
<1>2. CardStepIn(f, m) /\ KeepsAll(f, m, d, B, B) /\ HasCut(f, m, {p})
  BY <1>0, <1>1, CutCard
<1>3. Card(f) /\ Watches(f) /\ Card(m) /\ Watches(m)
  BY <1>2 DEF CardIn, CardStepIn
<1>4. AllIn(m, d, t, B, R, c, W, {}) /\ CursorIn(m, c)
  BY <1>2, <1>3, CardAll
<1>5. PICK H \in DOMAIN d : H = d[h].parent
  BY <1>0, Entries
<1>6. PICK hs : hs = {h}
  OBVIOUS
<1>7. Flagging(d, e, hs, H)
  <2>1. ChildrenOf(d, hs, H)
    BY <1>0, <1>5, <1>6 DEF ChildrenOf
  <2> QED
    BY <1>0, <1>6, <2>1, FlaggingIs
<1>8. DOMAIN e = DOMAIN d /\ t2 = t \ hs
  BY <1>0, <1>6, <1>7 DEF Flagging, Less
<1>9. ASSUME NEW x \in DOMAIN d PROVE InStepAt(m, e, t2, B, R, c, W, x)
  <2>1. InStepAt(m, d, t, B, R, c, W, x)
    BY <1>4 DEF AllIn
  <2>2. CASE x # H
    <3>1. t2 \subseteq t /\ t \ hs \subseteq t2
      BY <1>8
    <3> QED
      BY <1>3, <1>7, <2>1, <2>2, <3>1, FlagAt
  <2>3. CASE x = H
    <3>1. /\ KeptAt(m, e, B, H)
          /\ Follows(m, e, B, R, H) => /\ Follows(m, d, B, R, H)
                                       /\ e[H] = d[H] /\ build_full_path(e, H) = build_full_path(d, H)
      BY <1>3, <1>7, <2>1, <2>3, FlagFollow DEF InStepAt
    <3>2. ChildrenLess(d, e, hs, H) /\ (HostAt(d, t, H) => HostAt(e, t2, H))
      BY <1>7, <1>8, FlagSelf
    <3>3. ASSUME Follows(m, d, B, R, H), SeenAt(m, d, c, H), e[H] = d[H], build_full_path(e, H) = build_full_path(d, H)
          PROVE  SeenAt(m, e, c, H)
      <4> SUFFICES ASSUME NEW n \in Names, Awaits(m, c, H, d[H].wd, n) = {}
                   PROVE  n \in Kids(m, build_full_path(d, H)) <=> Known(e, H, n)
        BY <3>3 DEF SeenAt
      <4>1. n \in Kids(m, build_full_path(d, H)) <=> Known(d, H, n)
        BY <3>3 DEF SeenAt
      <4>2. Known(e, H, n) <=> \E y \in Children(d, H) \ {h} : d[y].name = n
        BY <1>6, <3>2 DEF ChildrenLess
      <4>3. ASSUME h \in Children(d, H), d[h].name = n PROVE n \notin Kids(m, build_full_path(d, H))
        <5>1. d[H].live
          BY <3>3 DEF Follows
        <5>2. p = Append(build_full_path(d, H), n)
          BY <1>0, <4>3, <5>1, ChildPath
        <5>3. p \notin DOMAIN m.disk
          BY <1>2 DEF HasCut
        <5> QED
          BY <5>2, <5>3 DEF Kids
      <4> QED
        BY <4>1, <4>2, <4>3 DEF Known
    <3> QED
      BY <2>1, <2>3, <3>1, <3>2, <3>3 DEF InStepAt
  <2> QED
    BY <2>2, <2>3
<1>10. AllIn(m, e, t2, B, R, c, W, {})
  BY <1>8, <1>9 DEF AllIn
<1>11. g = RmWatch(m, WatchesOf(d, {h}))
  BY <1>0, <1>1
<1> QED
  BY <1>3, <1>4, <1>8, <1>10, <1>11, GivenUp

LEMMA DeleteObjectStep == ASSUME NEW h \in told PROVE StepInv /\ DeleteObject(h) => StepIn'
<1> SUFFICES ASSUME StepInv, DeleteObject(h) PROVE StepIn'
  OBVIOUS
<1>1. PICK p : p = build_full_path(fs_db, h)
  OBVIOUS
<1>2. PICK can : can = (p # <<>> /\ Exists(fs, p) /\ Below(fs, p) = {})
  OBVIOUS
<1>3. /\ h \in DOMAIN fs_db /\ h # 0 /\ fs_db[h].live /\ op.pc = "idle" /\ UNCHANGED <<cursor, wild, blind, renamed>>
  BY DEF DeleteObject, Live, Free
<1>4. /\ CardIn(fs) /\ Card(fs) /\ Watches(fs) /\ Db(fs_db) /\ Due \subseteq DOMAIN fs_db
      /\ AllIn(fs, fs_db, Due, blind, renamed, cursor, wild, {}) /\ CursorIn(fs, cursor) /\ renamed \subseteq DOMAIN fs_db
  BY <1>3, Given, IdleAt DEF StepInv, FilesInv, StepIn
<1>5. p \in Seq(Names)
  BY <1>1, <1>3, <1>4, PathTypes
<1>6. CASE fs_db[h].dir
  <2>1. /\ IF IsDir(fs, p) THEN \E order \in Walks(fs, p) : fs' = Empty(fs, p, order) ELSE UNCHANGED fs
        /\ op' = [Idle EXCEPT !.pc = "rmdir", !.h = h, !.ok = IsDir(fs, p), !.from = p]
        /\ UNCHANGED <<fs_db, told, missed, push>>
    BY <1>1, <1>6 DEF DeleteObject
  <2>7. Due' = Due
    BY <2>1, DueIs DEF push
  <2>2. PICK o : o = op'
    OBVIOUS
  <2>3. o.pc = "rmdir" /\ o.h = h /\ o.from = p
    BY <2>1, <2>2 DEF Idle
  <2>4. PICK g : g = fs'
    OBVIOUS
  <2>5. AllIn(g, fs_db, Due, blind, renamed, cursor, wild, {}) /\ CursorIn(g, cursor)
    <3>1. CASE IsDir(fs, p)
      <4>1. PICK order \in Walks(fs, p) : g = Empty(fs, p, order)
        BY <2>1, <2>4, <3>1
      <4>2. CardStepIn(fs, g) /\ KeepsAll(fs, g, fs_db, blind, blind)
        BY <1>4, <1>5, <4>1, EmptyCard
      <4> QED
        BY <1>4, <4>2, CardAll
    <3>2. CASE ~ IsDir(fs, p)
      BY <1>4, <2>1, <2>4, <3>2
    <3> QED
      BY <3>1, <3>2
  <2>6. OpInStep(g, fs_db, blind, cursor, o) /\ Exempt(o) = {}
    BY <1>1, <1>3, <2>3 DEF OpInStep, Listed, Renaming, OpAt, Exempt
  <2> QED
    BY <1>3, <1>4, <2>1, <2>2, <2>4, <2>5, <2>6, <2>7 DEF StepIn
<1>7. CASE ~ fs_db[h].dir
  <2>1. /\ fs' = (IF can THEN RmWatch(Unlink(fs, p), WatchesOf(fs_db, {h})) ELSE fs)
        /\ fs_db' = (IF can THEN Flag(fs_db, {h}) ELSE fs_db)
        /\ told' = (IF can THEN told \ {h} ELSE told)
        /\ Late(IF can THEN {h} ELSE {}) /\ UNCHANGED push
        /\ op' = op
    BY <1>1, <1>2, <1>7 DEF DeleteObject
  <2>2. CASE can
    <3>1. p \in DOMAIN fs.disk /\ Below(fs, p) = {}
      BY <1>2, <2>2 DEF Exists
    <3>2. PICK e : e = fs_db'
      OBVIOUS
    <3>3. PICK g : g = fs'
      OBVIOUS
    <3>4. PICK t : t = Due'
      OBVIOUS
    <3>7. t = Due \ {h}
      <4>1. PICK hs : hs = {h}
        OBVIOUS
      <4>2. PICK M : M = missed \cup adding \cup removing
        OBVIOUS
      <4>3. 0 \notin hs /\ e = Flag(fs_db, hs)
        BY <1>3, <2>1, <2>2, <3>2, <4>1
      <4>4. DOMAIN e = DOMAIN fs_db /\ Flags(fs_db, e, hs)
        BY <1>4, <4>3, FlagDoes DEF Less
      <4>7. PICK u : u = told \ hs
        OBVIOUS
      <4>5. Due = DueOf(fs_db, told, M) /\ t = DueOf(e, u, M)
        BY <2>1, <2>2, <3>2, <3>4, <4>1, <4>2, <4>7, DueIs DEF Late, push
      <4>6. DueOf(e, u, M) = DueOf(fs_db, told, M) \ hs
        BY <4>4, <4>7, DueRemoved
      <4> QED
        BY <4>1, <4>5, <4>6
    <3>5. Removal(fs, fs_db, Due, h, p, g, e, t)
      BY <1>1, <1>3, <2>1, <2>2, <3>1, <3>2, <3>3, <3>7 DEF Removal
    <3>6. AllIn(g, e, t, blind, renamed, cursor, wild, {}) /\ CursorIn(g, cursor) /\ renamed \subseteq DOMAIN e
      BY <1>4, <3>5, RemovedAll
    <3> QED
      BY <1>3, <2>1, <3>2, <3>3, <3>4, <3>6, IdleAt DEF StepIn
  <2>3. CASE ~ can
    <3>1. Due' = Due
      BY <2>1, <2>3, DueIs DEF Late, push
    <3> QED
      BY <1>3, <2>1, <2>3, <3>1 DEF StepInv, StepIn
  <2> QED
    BY <2>2, <2>3
<1> QED
  BY <1>6, <1>7

LEMMA DeleteFolderStep == StepInv /\ DeleteFolder => StepIn'
<1> SUFFICES ASSUME StepInv, DeleteFolder PROVE StepIn'
  OBVIOUS
<1>1. PICK p : p = op.from
  OBVIOUS
<1>2. PICK h : h = op.h
  OBVIOUS
<1>3. PICK can : can = (op.ok /\ p \in DOMAIN fs.disk /\ Below(fs, p) = {})
  OBVIOUS
<1>4. op.pc = "rmdir" /\ UNCHANGED <<cursor, wild, renamed>> /\ op' = Idle
  BY DEF DeleteFolder
<1>5. /\ CardIn(fs) /\ Card(fs) /\ Watches(fs) /\ fs.wds \in Nat /\ Db(fs_db) /\ Due \subseteq DOMAIN fs_db /\ p \in Seq(Names)
      /\ h \in DOMAIN fs_db /\ h # 0
  BY <1>1, <1>2, <1>4, Given DEF StepInv, FilesInv, OpIn
<1>6. /\ AllIn(fs, fs_db, Due, blind, renamed, cursor, wild, {}) /\ CursorIn(fs, cursor) /\ renamed \subseteq DOMAIN fs_db
      /\ p = build_full_path(fs_db, h)
  BY <1>1, <1>2, <1>4 DEF StepInv, StepIn, Exempt, OpInStep, OpAt
<1>7. PICK e : e = fs_db'
  OBVIOUS
<1>8. PICK g : g = fs'
  OBVIOUS
<1>9. PICK t : t = Due'
  OBVIOUS
<1>10. PICK C : C = blind'
  OBVIOUS
<1>11. ASSUME AllIn(g, e, t, C, renamed, cursor, wild, {}), CursorIn(g, cursor), renamed \subseteq DOMAIN e PROVE StepIn'
  <2>1. op'.pc = "idle"
    BY <1>4 DEF Idle
  <2> QED
    BY <1>4, <1>7, <1>8, <1>9, <1>10, <1>11, <2>1, IdleAt DEF StepIn
<1>12. CASE can
  <2>1. /\ g = RmWatch(Unlink(fs, p), WatchesOf(fs_db, {h}))
        /\ e = Flag(fs_db, {h}) /\ C = blind
        /\ told' = told \ {h} /\ Late({h}) /\ UNCHANGED push
    BY <1>1, <1>2, <1>3, <1>7, <1>8, <1>10, <1>12 DEF DeleteFolder
  <2>4. t = Due \ {h}
    <3>1. PICK hs : hs = {h}
      OBVIOUS
    <3>2. PICK M : M = missed \cup adding \cup removing
      OBVIOUS
    <3>3. 0 \notin hs /\ e = Flag(fs_db, hs)
      BY <1>5, <2>1, <3>1
    <3>4. DOMAIN e = DOMAIN fs_db /\ Flags(fs_db, e, hs)
      BY <1>5, <3>3, FlagDoes DEF Less
    <3>7. PICK u : u = told \ hs
      OBVIOUS
    <3>5. Due = DueOf(fs_db, told, M) /\ t = DueOf(e, u, M)
      BY <1>7, <1>9, <2>1, <3>1, <3>2, <3>7, DueIs DEF Late, push
    <3>6. DueOf(e, u, M) = DueOf(fs_db, told, M) \ hs
      BY <3>4, <3>7, DueRemoved
    <3> QED
      BY <3>1, <3>5, <3>6
  <2>2. p \in DOMAIN fs.disk /\ Below(fs, p) = {}
    BY <1>3, <1>12
  <2>3. AllIn(g, e, t, blind, renamed, cursor, wild, {}) /\ CursorIn(g, cursor) /\ renamed \subseteq DOMAIN e
    <3>1. Removal(fs, fs_db, Due, h, p, g, e, t)
      BY <1>5, <1>6, <2>1, <2>2, <2>4 DEF Removal
    <3> QED
      BY <1>5, <1>6, <3>1, RemovedAll
  <2> QED
    BY <1>11, <2>1, <2>3
<1>13. CASE ~ can
  <2>1. /\ \E order \in SetToSeqs(Missing(fs_db, fs, p, h)) :
            LET seen == ScanAdd(fs_db, fs, p, h, order) IN
            /\ e = Flag(seen, Gone(seen, fs, h)) /\ Late(Gone(seen, fs, h))
            /\ g = RmWatch(fs, WatchesOf(seen, Gone(seen, fs, h)))
        /\ told' = told /\ C = blind \cup {h} /\ UNCHANGED push
    BY <1>1, <1>2, <1>3, <1>7, <1>8, <1>10, <1>13 DEF DeleteFolder
  <2>2. PICK order \in SetToSeqs(Missing(fs_db, fs, p, h)) :
          LET seen == ScanAdd(fs_db, fs, p, h, order) IN
          /\ e = Flag(seen, Gone(seen, fs, h)) /\ Late(Gone(seen, fs, h))
          /\ g = RmWatch(fs, WatchesOf(seen, Gone(seen, fs, h)))
    BY <2>1
  <2>3. PICK seen : seen = ScanAdd(fs_db, fs, p, h, order)
    OBVIOUS
  <2>4. PICK gone : gone = Gone(seen, fs, h)
    OBVIOUS
  <2>5. PICK ws : ws = WatchesOf(seen, gone)
    OBVIOUS
  <2>6. e = Flag(seen, gone) /\ g = RmWatch(fs, ws) /\ Late(gone)
    BY <2>2, <2>3, <2>4, <2>5
  <2>7. More(fs_db, seen) /\ FirstPass(fs_db, seen, fs, p, h)
    BY <1>5, <2>3, ScanDoes
  <2>8. NewIn(fs_db, seen, h) /\ DOMAIN fs_db \subseteq DOMAIN seen /\ Db(seen)
    BY <2>7 DEF NewIn, FirstPass, More
  <2>9. Flagging(seen, e, gone, h)
    <3>1. ChildrenOf(seen, gone, h)
      BY <2>4 DEF ChildrenOf, Gone, Children
    <3> QED
      BY <1>5, <2>6, <2>8, <3>1, FlaggingIs
  <2>10. DOMAIN e = DOMAIN seen
    BY <2>9 DEF Flagging, Less
  <2>14. PICK M : M = missed \cup adding \cup removing
    OBVIOUS
  <2>15. PICK s : s = DueOf(seen, told, M)
    OBVIOUS
  <2>16. Due \subseteq s /\ s \ Due \subseteq DOMAIN seen \ DOMAIN fs_db /\ s \subseteq DOMAIN seen
    <3>1. Due = DueOf(fs_db, told, M)
      BY <2>14, DueIs
    <3>2. told \subseteq DOMAIN fs_db
      BY Given DEF StepInv
    <3>3. s \subseteq DOMAIN seen
      BY <2>15 DEF DueOf
    <3> QED
      BY <2>7, <2>15, <3>1, <3>2, <3>3, DueGrows
  <2>17. t \subseteq s /\ s \ gone \subseteq t
    <3>1. t = DueOf(e, told, M)
      BY <1>7, <1>9, <2>1, <2>6, <2>14, DueIs DEF Late, push
    <3>2. Flags(seen, e, gone)
      BY <2>9 DEF Flagging
    <3> QED
      BY <2>10, <2>15, <3>1, <3>2, DueFlags
  <2>18. \A y \in s \ Due : seen[y].parent = h
    BY <2>8, <2>16 DEF NewIn
  <2>11. ASSUME NEW x \in DOMAIN e PROVE InStepAt(fs, e, t, C, renamed, cursor, wild, x)
    <3>1. CASE x = h
      BY <2>1, <3>1, BlindAt
    <3>2. CASE x # h
      <4>1. x \in DOMAIN fs_db => InStepAt(fs, fs_db, Due, blind, renamed, cursor, wild, x)
        BY <1>6 DEF AllIn
      <4>2. InStepAt(fs, seen, s, blind, renamed, cursor, wild, x)
        BY <1>5, <1>6, <2>7, <2>8, <2>10, <2>16, <2>18, <3>2, <4>1, MoreAt
      <4>3. s \subseteq DOMAIN seen /\ renamed \subseteq DOMAIN seen /\ x \in DOMAIN seen
        BY <1>5, <1>6, <2>8, <2>10, <2>16
      <4>4. InStepAt(fs, e, t, blind, renamed, cursor, wild, x)
        BY <1>5, <2>9, <2>17, <3>2, <4>2, <4>3, FlagAt
      <4> QED
        BY <2>1, <4>4, BlindMore
    <3> QED
      BY <3>1, <3>2
  <2>12. AllIn(fs, e, t, C, renamed, cursor, wild, {})
    BY <2>11 DEF AllIn
  <2>13. AllIn(g, e, t, C, renamed, cursor, wild, {}) /\ CursorIn(g, cursor)
    BY <1>5, <1>6, <2>6, <2>12, GivenUp
  <2> QED
    BY <1>6, <1>11, <2>1, <2>8, <2>10, <2>13
<1> QED
  BY <1>12, <1>13

-----------------------------------------------------------------------------
(* Renames by the host.                                                    *)

LEMMA PassesMore ==
  ASSUME NEW r \in Seq(Names), NEW p \in Seq(Names), Passes(r, p), NEW n \in Names
  PROVE  Passes(Append(r, n), p)
<1>1. Len(p) \in Nat /\ Len(r) \in Nat /\ Len(r) >= Len(p) /\ SubSeq(r, 1, Len(p)) = p /\ Len(Append(r, n)) = Len(r) + 1
  BY DEF Passes
<1>2. SubSeq(Append(r, n), 1, Len(p)) = SubSeq(r, 1, Len(p))
  <2>1. \A i \in 1 .. Len(p) : Append(r, n)[i] = r[i]
    BY <1>1
  <2>2. SubSeq(Append(r, n), 1, Len(p)) = [i \in 1 .. Len(p) |-> Append(r, n)[i]]
    BY <1>1
  <2>3. SubSeq(r, 1, Len(p)) = [i \in 1 .. Len(p) |-> r[i]]
    BY <1>1
  <2> QED
    BY <2>1, <2>2, <2>3
<1> QED
  BY <1>1, <1>2 DEF Passes

LEMMA PassesSelf == \A p \in Seq(Names) : Passes(p, p)
<1> SUFFICES ASSUME NEW p \in Seq(Names) PROVE Passes(p, p)
  OBVIOUS
<1>1. Len(p) \in Nat /\ SubSeq(p, 1, Len(p)) = p
  OBVIOUS
<1> QED
  BY <1>1 DEF Passes

\* What is below an entry is below where it is.
LEMMA EntriesClosed ==
  ASSUME NEW d, Db(d), NEW p \in Seq(Names), NEW S, S = {x \in DOMAIN d : Passes(build_full_path(d, x), p)}
  PROVE  Closed(d, S)
<1> SUFFICES ASSUME NEW x \in DOMAIN d, d[x].parent # 0, d[d[x].parent].live, d[x].parent \in S PROVE x \in S
  BY DEF Closed
<1>1. PICK y : y = d[x].parent
  OBVIOUS
<1>2. Up(d, x) = build_full_path(d, y) /\ Passes(build_full_path(d, y), p) /\ build_full_path(d, y) \in Seq(Names)
  BY <1>1, PathTypes DEF Up
<1>3. x # 0 /\ (d[x].name = NoName \/ d[x].name \in Names)
  BY Entries
<1>4. build_full_path(d, x) = build_full_path(d, y) \/ (d[x].name \in Names /\ build_full_path(d, x) = Append(build_full_path(d, y), d[x].name))
  BY <1>2, <1>3, PathIs
<1> QED
  BY <1>2, <1>4, PassesMore

LEMMA ClosedUp ==
  ASSUME NEW d, Db(d), NEW h, NEW n, NEW e, HasName(d, e, h, n), NEW S, h \in S, Closed(d, S)
  PROVE  SameUp(d, e, S)
<1> SUFFICES ASSUME NEW x \in DOMAIN d \ S
             PROVE  /\ e[x].name = d[x].name /\ e[x].parent = d[x].parent
                    /\ d[x].parent # 0 => /\ e[d[x].parent].live = d[d[x].parent].live
                                          /\ d[d[x].parent].live => d[x].parent \notin S
  BY DEF SameUp
<1>1. x # h /\ e[x] = d[x] /\ d[x].parent \in DOMAIN d
  BY Entries DEF HasName
<1>2. e[d[x].parent].live = d[d[x].parent].live
  BY <1>1 DEF HasName
<1> QED
  BY <1>1, <1>2 DEF Closed

\* A new name leaves in step what it does not move, once nothing at or below the entry is trusted.
LEMMA RenamedAll ==
  ASSUME NEW f, Watches(f), f.wds \in Nat, NEW d, Db(d), NEW h, h \in DOMAIN d, NEW n, NEW e, Db(e), HasName(d, e, h, n),
         NEW B, NEW C, B \subseteq C, NEW S, h \in S, Closed(d, S), \A x \in S : x \in C \/ d[x].wd = NoWd,
         NEW R, NEW Q, h \in Q, R \subseteq Q, Q \subseteq DOMAIN d, NEW t, t \subseteq DOMAIN d, NEW c, NEW W,
         AllIn(f, d, t, B, R, c, W, {})
  PROVE  AllIn(f, e, t, C, Q, c, W, {})
<1>1. SameUp(d, e, S)
  BY ClosedUp
<1>2. /\ DOMAIN e = DOMAIN d /\ \A g \in DOMAIN d : g # h => e[g] = d[g]
      /\ e[h].parent = d[h].parent /\ e[h].live = d[h].live /\ e[h].wd = d[h].wd
  BY DEF HasName
<1>3. \A g \in DOMAIN d : e[g].parent = d[g].parent /\ e[g].live = d[g].live /\ e[g].wd = d[g].wd
  BY <1>2
<1>4. ASSUME NEW x \in DOMAIN d PROVE InStepAt(f, e, t, C, Q, c, W, x)
  <2>1. InStepAt(f, d, t, B, R, c, W, x)
    BY DEF AllIn
  <2>2. CASE x \in S
    BY <1>3, <2>2, BlindAt, NoWatchAt
  <2>3. CASE x \notin S
    <3>1. build_full_path(e, x) = build_full_path(d, x)
      BY <1>1, <1>2, <2>3, PathsStay
    <3>2. CASE x = d[h].parent
      <4>1. ~ Follows(f, e, C, Q, x)
        BY <1>2, <3>2 DEF Follows
      <4>2. KeptAt(f, e, C, x)
        BY <1>3, <2>1, <3>1 DEF InStepAt, KeptAt
      <4> QED
        BY <4>1, <4>2 DEF InStepAt
    <3>3. CASE x # d[h].parent
      <4>1. SameEntry(d, e, x)
        BY <1>2, <1>3, <3>1, <3>3 DEF SameEntry
      <4>2. PICK u : u = t
        OBVIOUS
      <4>3. u \subseteq DOMAIN d /\ (\A y \in DOMAIN d : d[y].parent = x => (y \in t <=> y \in u)) /\ (x \in B => x \in C)
        BY <4>2
      <4>4. InStepAt(f, e, u, C, Q, c, W, x)
        BY <2>1, <4>1, <4>3, SameEntryAt
      <4> QED
        BY <4>2, <4>4
    <3> QED
      BY <3>2, <3>3
  <2> QED
    BY <2>2, <2>3
<1> QED
  BY <1>2, <1>4 DEF AllIn

LEMMA SetNameStep == ASSUME NEW h \in told, NEW n \in Names PROVE StepInv /\ SetName(h, n) => StepIn'
<1> SUFFICES ASSUME StepInv, SetName(h, n) PROVE StepIn'
  OBVIOUS
<1>1. PICK e : e = [fs_db EXCEPT ![h].name = n]
  OBVIOUS
<1>2. PICK p : p = build_full_path(fs_db, h)
  OBVIOUS
<1>3. PICK o : o = op'
  OBVIOUS
<1>4. PICK C : C = blind'
  OBVIOUS
<1>5. PICK Q : Q = renamed'
  OBVIOUS
<1>6. /\ UNCHANGED <<fs, told, missed, adding, removing, cursor, wild>> /\ fs_db' = e /\ Q = renamed \cup {h} /\ op.pc = "idle"
      /\ h \in DOMAIN fs_db /\ h # 0
  BY <1>1, <1>5 DEF SetName, Free, Live, push
<1>7. PICK S : S = {x \in DOMAIN fs_db : Passes(build_full_path(fs_db, x), p)}
  OBVIOUS
<1>8. C = blind \cup S
  BY <1>2, <1>4, <1>7 DEF SetName, EntriesAt
<1>9. /\ Card(fs) /\ Watches(fs) /\ fs.wds \in Nat /\ Db(fs_db) /\ Due \subseteq DOMAIN fs_db
      /\ AllIn(fs, fs_db, Due, blind, renamed, cursor, wild, {}) /\ CursorIn(fs, cursor) /\ renamed \subseteq DOMAIN fs_db
  BY <1>6, Given, IdleAt DEF StepInv, StepIn
<1>10. o.pc = "rename" /\ o.h = h /\ o.from = p
  BY <1>2, <1>3 DEF SetName, Idle
<1>11. Db(e) /\ HasName(fs_db, e, h, n)
  <2>1. n \in Names \cup {NoName}
    OBVIOUS
  <2> QED
    BY <1>1, <1>6, <1>9, <2>1, SetNameDoes
<1>12. p \in Seq(Names) /\ h \in S
  BY <1>2, <1>6, <1>7, <1>9, PathTypes, PassesSelf
<1>13. Closed(fs_db, S)
  BY <1>7, <1>9, <1>12, EntriesClosed
<1>14. AllIn(fs, e, Due, C, Q, cursor, wild, {})
  <2>1. blind \subseteq C /\ (\A x \in S : x \in C \/ fs_db[x].wd = NoWd) /\ h \in Q /\ renamed \subseteq Q /\ Q \subseteq DOMAIN fs_db
    BY <1>6, <1>8, <1>9
  <2> QED
    BY <1>6, <1>9, <1>11, <1>12, <1>13, <2>1, RenamedAll
<1>15. DOMAIN e = DOMAIN fs_db /\ \A x \in DOMAIN fs_db : e[x].parent = fs_db[x].parent /\ e[x].live = fs_db[x].live
  BY <1>11 DEF HasName
<1>19. Due' = Due
  <2>1. SameLive(fs_db, fs_db')
    BY <1>6, <1>15 DEF SameLive
  <2> QED
    BY <1>6, <2>1, DueStays
<1>16. Renaming(fs, e, C, o)
  <2>1. S \in SUBSET DOMAIN e /\ h \in S /\ \A x \in S : x \in C \/ e[x].wd = NoWd
    BY <1>7, <1>8, <1>12, <1>15
  <2>2. Closed(e, S)
    BY <1>9, <1>13, <1>15, Entries DEF Closed
  <2>3. \A x \in DOMAIN e : x \notin C => ~ Passes(build_full_path(e, x), p)
    <3> SUFFICES ASSUME NEW x \in DOMAIN e, x \notin C PROVE ~ Passes(build_full_path(e, x), p)
      OBVIOUS
    <3>1. x \in DOMAIN fs_db \ S
      BY <1>8, <1>15
    <3>2. SameUp(fs_db, e, S)
      BY <1>9, <1>11, <1>12, <1>13, ClosedUp
    <3>3. build_full_path(e, x) = build_full_path(fs_db, x)
      BY <1>9, <1>11, <1>15, <3>1, <3>2, PathsStay
    <3> QED
      BY <1>7, <3>1, <3>3
  <2> QED
    BY <1>10, <2>1, <2>2, <2>3 DEF Renaming
<1>17. OpInStep(fs, e, C, cursor, o) /\ Exempt(o) = {}
  BY <1>10, <1>16 DEF OpInStep, Listed, OpAt, Exempt
<1>18. Q \subseteq DOMAIN e
  BY <1>6, <1>9, <1>15
<1> QED
  BY <1>3, <1>4, <1>5, <1>6, <1>9, <1>14, <1>17, <1>18, <1>19 DEF StepIn

LEMMA RenameObjectStep == StepInv /\ RenameObject => StepIn'
<1> SUFFICES ASSUME StepInv, RenameObject PROVE StepIn'
  OBVIOUS
<1>1. PICK p : p = op.from
  OBVIOUS
<1>2. PICK q : q = op.to
  OBVIOUS
<1>3. PICK h : h = op.h
  OBVIOUS
<1>4. op.pc = "rename" /\ UNCHANGED <<told, missed, adding, removing, cursor, wild, blind, renamed>> /\ op' = Idle
  BY DEF RenameObject, push
<1>5. /\ Card(fs) /\ Watches(fs) /\ CardIn(fs) /\ fs.wds \in Nat /\ Db(fs_db) /\ Due \subseteq DOMAIN fs_db
      /\ h \in DOMAIN fs_db /\ h # 0 /\ h \in renamed /\ p \in Seq(Names) /\ q \in Seq(Names) /\ q # <<>> /\ op.old \in Names \cup {NoName}
  BY <1>1, <1>2, <1>3, <1>4, Given DEF StepInv, FilesInv, OpIn
<1>6. /\ AllIn(fs, fs_db, Due, blind, renamed, cursor, wild, {}) /\ CursorIn(fs, cursor) /\ renamed \subseteq DOMAIN fs_db
      /\ Renaming(fs, fs_db, blind, op)
  BY <1>4 DEF StepInv, StepIn, Exempt, OpInStep
<1>7. OpInStep(fs', fs_db', blind', cursor', op') /\ Exempt(op') = {}
  <2>1. op'.pc = "idle"
    BY <1>4 DEF Idle
  <2> QED
    BY <2>1, IdleAt
<1>8. CASE UNCHANGED <<fs, fs_db>>
  BY <1>4, <1>6, <1>7, <1>8, DueIs DEF StepIn
<1>9. ASSUME p # q, CanRename(fs, p, q), fs' = Rename(fs, p, q), fs_db' = fs_db PROVE StepIn'
  <2>1. PICK g : g = Rename(fs, p, q)
    OBVIOUS
  <2>2. p \in DOMAIN fs.disk
    BY <1>9 DEF CanRename
  <2>3. NonePasses(fs, fs_db, blind, p)
    BY <1>1, <1>4, <1>6 DEF Renaming, NonePasses
  <2>4. CardStepIn(fs, g) /\ KeepsAll(fs, g, fs_db, blind, blind)
    BY <1>5, <1>9, <2>1, <2>2, <2>3, MovedCard
  <2>5. AllIn(g, fs_db, Due, blind, renamed, cursor, wild, {}) /\ CursorIn(g, cursor)
    BY <1>5, <1>6, <2>4, CardAll
  <2> QED
    BY <1>4, <1>6, <1>7, <1>9, <2>1, <2>5, DueIs DEF StepIn
<1>10. ASSUME fs_db' = [fs_db EXCEPT ![h].name = op.old], fs' = fs PROVE StepIn'
  <2>1. PICK n \in Names \cup {NoName} : n = op.old
    BY <1>5
  <2>2. PICK e : e = [fs_db EXCEPT ![h].name = n]
    OBVIOUS
  <2>3. Db(e) /\ HasName(fs_db, e, h, n)
    BY <1>5, <2>2, SetNameDoes
  <2>4. PICK S \in SUBSET DOMAIN fs_db : h \in S /\ Closed(fs_db, S) /\ \A x \in S : x \in blind \/ fs_db[x].wd = NoWd
    BY <1>3, <1>4, <1>6 DEF Renaming
  <2>5. AllIn(fs, e, Due, blind, renamed, cursor, wild, {})
    BY <1>5, <1>6, <2>3, <2>4, RenamedAll
  <2>6. DOMAIN e = DOMAIN fs_db /\ \A x \in DOMAIN fs_db : e[x].live = fs_db[x].live
    BY <2>3 DEF HasName
  <2>7. Due' = Due
    <3>1. SameLive(fs_db, fs_db')
      BY <1>10, <2>1, <2>2, <2>6 DEF SameLive
    <3> QED
      BY <1>4, <3>1, DueStays
  <2> QED
    BY <1>4, <1>6, <1>7, <1>10, <2>1, <2>2, <2>5, <2>6, <2>7 DEF StepIn
<1> QED
  BY <1>1, <1>2, <1>3, <1>8, <1>9, <1>10 DEF RenameObject

-----------------------------------------------------------------------------
(* The inotify thread.                                                     *)

\* The entry whose turn it is with the first event of the queue.
Turn(f, d, c, h) ==
  /\ f.queue # <<>> /\ h \in DOMAIN d /\ d[h].live /\ d[h].wd = f.queue[1].wd
  /\ c = <<>> \/ h < c[1]

\* All are in step but for it.
Reached(f, d, t, B, R, c, W, h) ==
  /\ Turn(f, d, c, h) /\ InStepAt(f, d, t, B, R, c, W, h) /\ AllIn(f, d, t, B, R, <<h>>, W, {h})
  /\ t \subseteq DOMAIN d /\ R \subseteq DOMAIN d

\* The cursor moves past entries that the event is not for.
LEMMA PassOver ==
  ASSUME NEW f, Watches(f), NEW d, NEW c, NEW k, NEW x \in DOMAIN d, Turn(f, d, c, x) => x < k,
         NEW t, NEW B, NEW R, NEW W, InStepAt(f, d, t, B, R, c, W, x)
  PROVE  InStepAt(f, d, t, B, R, <<k>>, W, x)
<1> SUFFICES ASSUME SeenAt(f, d, c, x), d[x].live PROVE SeenAt(f, d, <<k>>, x)
  BY DEF InStepAt, Follows
<1> SUFFICES ASSUME NEW n \in Names, Awaits(f, <<k>>, x, d[x].wd, n) = {} PROVE Awaits(f, c, x, d[x].wd, n) = {}
  BY DEF SeenAt
<1> SUFFICES ASSUME NEW i \in Awaits(f, c, x, d[x].wd, n) PROVE FALSE
  OBVIOUS
<1>1. i \in DOMAIN f.queue /\ f.queue[i].wd = d[x].wd /\ f.queue[i].name = n /\ (i > 1 \/ c = <<>> \/ x < c[1])
  BY DEF Awaits, About
<1>2. Len(f.queue) \in Nat /\ DOMAIN f.queue = 1 .. Len(f.queue)
  BY DEF Watches
<1>3. ~ (i > 1) /\ ~ (x < k)
  BY <1>1 DEF Awaits, About
<1>4. i = 1 /\ f.queue # <<>>
  BY <1>1, <1>2, <1>3
<1> QED
  BY <1>1, <1>3, <1>4 DEF Turn

\* The last event about a name in a folder that is followed tells whether it is there.
LEMMA LastTells ==
  ASSUME NEW f, CardIn(f), NEW d, NEW c, NEW H, Turn(f, d, c, H), H \in Nat, NEW B, NEW R, Follows(f, d, B, R, H),
         NEW n, n = f.queue[1].name, Awaits(f, <<H>>, H, d[H].wd, n) = {}
  PROVE  f.queue[1].kind = "create" <=> n \in Kids(f, build_full_path(d, H))
<1> DEFINE p == build_full_path(d, H)
<1>1. p \in Folders(f) /\ Watching(f, p) /\ f.watch[Ino(f, p)] = d[H].wd
  BY FolderIs DEF Follows, WatchAt, Watching
<1>2. 1 \in DOMAIN f.queue /\ f.queue[1].wd = d[H].wd
  <2>1. f.queue \in Seq(EventsOf(f)) /\ f.queue # <<>>
    BY DEF CardIn, Watches, Turn
  <2> QED
    BY <2>1 DEF Turn
<1>3. LastAbout(f.queue, 1)
  BY <1>2 DEF LastAbout, Awaits
<1> QED
  BY <1>1, <1>2, <1>3 DEF CardIn, Tells

\* A name that the first event is not about.
LEMMA OtherName ==
  ASSUME NEW f, NEW c, NEW H, NEW w, NEW n, n # f.queue[1].name, Watches(f), Awaits(f, <<H>>, H, w, n) = {}
  PROVE  Awaits(f, c, H, w, n) = {}
<1> SUFFICES ASSUME NEW i \in Awaits(f, c, H, w, n) PROVE FALSE
  OBVIOUS
<1>1. i \in DOMAIN f.queue /\ About(f.queue[i], w, n) /\ DOMAIN f.queue = 1 .. Len(f.queue) /\ Len(f.queue) \in Nat
  BY DEF Awaits, Watches
<1>2. i # 1
  BY <1>1 DEF About
<1>3. i > 1
  BY <1>1, <1>2
<1> QED
  BY <1>1, <1>3 DEF Awaits

LEMMA AddedIs ==
  ASSUME NEW d, Db(d), NEW h \in DOMAIN d, NEW n \in Names \cup {NoName}, NEW e, AddedTo(d, e, n, h)
  PROVE  /\ More(d, e) /\ NewIn(d, e, h) /\ \A x \in DOMAIN e \ DOMAIN d : e[x].name = n
         /\ \E x \in DOMAIN e \ {0} : e[x].name = n /\ e[x].parent = h /\ e[x].live
<1>1. PICK dir \in BOOLEAN : e = add_entry(d, n, h, dir)
  BY DEF AddedTo
<1>2. More(d, e)
  BY <1>1, AddDoes
<1>3. find_entry(e, n, h) # {} /\ find_entry(e, n, h) \subseteq DOMAIN e \ {0}
  BY <1>1, AddDoes
<1>4. PICK x \in find_entry(e, n, h) : x \in DOMAIN e \ {0}
  BY <1>3
<1>5. e[x].name = n /\ e[x].parent = h /\ e[x].live
  BY <1>4 DEF find_entry
<1>6. CASE find_entry(d, n, h) # {}
  <2>1. e = d
    BY <1>1, <1>6 DEF add_entry
  <2> QED
    BY <1>2, <1>4, <1>5, <2>1 DEF NewIn
<1>7. CASE find_entry(d, n, h) = {}
  <2> DEFINE v == [parent |-> h, name |-> n, filed |-> Bucket[n], dir |-> dir, live |-> TRUE, wd |-> NoWd]
  <2>1. e = With(d, Cardinality(DOMAIN d), v)
    BY <1>1, <1>7 DEF add_entry, alloc_entry
  <2> HIDE DEF v
  <2>2. \A y \in DOMAIN e \ DOMAIN d : e[y] = v
    BY <2>1 DEF With
  <2>3. v.parent = h /\ v.name = n
    BY DEF v
  <2> QED
    BY <1>2, <1>4, <1>5, <2>2, <2>3 DEF NewIn
<1> QED
  BY <1>6, <1>7

\* IN_CREATE, IN_MOVED_TO.  The name of the entry is empty when that of the event is gone.
FirstIs(f, kind, name) == f.queue[1].kind = kind /\ f.queue[1].name = name /\ name \in Names
ToldNew(d, e, t, t2) == t2 = t \cup (DOMAIN e \ DOMAIN d)
ReadAs(f, p, name, n) == n \in {name, NoName} /\ (name \in Kids(f, p) => n = name)
LEMMA EventAdds ==
  ASSUME NEW f, CardIn(f), f.wds \in Nat, NEW d, Db(d), NEW c, NEW H, NEW t, NEW B, NEW R, NEW W, Reached(f, d, t, B, R, c, W, H),
         NEW name, FirstIs(f, "create", name), NEW n, ReadAs(f, build_full_path(d, H), name, n),
         NEW e, AddedTo(d, e, n, H), NEW t2, ToldNew(d, e, t, t2)
  PROVE  AllIn(f, e, t2, B, R, <<H>>, W, {}) /\ R \subseteq DOMAIN e
<1>0. /\ Turn(f, d, c, H) /\ InStepAt(f, d, t, B, R, c, W, H) /\ AllIn(f, d, t, B, R, <<H>>, W, {H})
      /\ t \subseteq DOMAIN d /\ R \subseteq DOMAIN d /\ H \in DOMAIN d
  BY DEF Reached, Turn
<1>7. /\ name = f.queue[1].name /\ name \in Names /\ f.queue[1].kind = "create"
      /\ n \in {name, NoName} /\ (name \in Kids(f, build_full_path(d, H)) => n = name)
      /\ t2 = t \cup (DOMAIN e \ DOMAIN d)
  BY DEF FirstIs, ReadAs, ToldNew
<1>1. Watches(f) /\ NoName \notin Names
  BY MtpFilesAssumption DEF CardIn
<1>2. /\ More(d, e) /\ NewIn(d, e, H) /\ \A x \in DOMAIN e \ DOMAIN d : e[x].name = n
      /\ \E x \in DOMAIN e \ {0} : e[x].name = n /\ e[x].parent = H /\ e[x].live
  <2>1. n \in Names \cup {NoName}
    BY <1>7
  <2> QED
    BY <1>0, <2>1, AddedIs
<1>3. DOMAIN d \subseteq DOMAIN e /\ \A x \in DOMAIN d : e[x] = d[x]
  BY <1>2 DEF More
<1>4. \A x \in DOMAIN e \ DOMAIN d : x # 0 /\ e[x].live /\ e[x].parent = H
  BY <1>2 DEF More, NewIn
<1>5. ASSUME NEW x \in DOMAIN e, x # H PROVE InStepAt(f, e, t2, B, R, <<H>>, W, x)
  <2>1. x \in DOMAIN d => InStepAt(f, d, t, B, R, <<H>>, W, x)
    BY <1>0, <1>5 DEF AllIn
  <2>2. PICK u : u = t2
    OBVIOUS
  <2>3. PICK k : k = <<H>>
    OBVIOUS
  <2>4. t \subseteq u /\ \A y \in u \ t : e[y].parent = H
    BY <1>0, <1>4, <1>7, <2>2
  <2>5. x \in DOMAIN d => InStepAt(f, d, t, B, R, k, W, x)
    BY <2>1, <2>3
  <2>6. More(d, e) /\ NewIn(d, e, H)
    BY <1>2
  <2>7. InStepAt(f, e, u, B, R, k, W, x)
    BY <1>0, <1>1, <1>5, <2>4, <2>5, <2>6, MoreAt
  <2> QED
    BY <2>2, <2>3, <2>7
<1>6. InStepAt(f, e, t2, B, R, <<H>>, W, H)
  <2>1. /\ KeptAt(f, e, B, H)
        /\ Follows(f, e, B, R, H) => Follows(f, d, B, R, H)
        /\ e[H] = d[H] /\ build_full_path(e, H) = build_full_path(d, H)
    BY <1>0, <1>2, MoreFollow DEF InStepAt
  <2>2. Children(e, H) = Children(d, H) \cup (DOMAIN e \ DOMAIN d)
    BY <1>0, <1>3, <1>4 DEF Children
  <2>3. HostAt(d, t, H) => HostAt(e, t2, H)
    <3>1. {x \in t2 : e[x].parent = H} = {x \in t : d[x].parent = H} \cup (DOMAIN e \ DOMAIN d)
      BY <1>0, <1>3, <1>4, <1>7
    <3> QED
      BY <2>2, <3>1 DEF HostAt
  <2>4. ASSUME Follows(f, d, B, R, H), SeenAt(f, d, c, H) PROVE SeenAt(f, e, <<H>>, H)
    <3> SUFFICES ASSUME NEW m \in Names, Awaits(f, <<H>>, H, d[H].wd, m) = {}
                 PROVE  m \in Kids(f, build_full_path(d, H)) <=> Known(e, H, m)
      BY <2>1 DEF SeenAt
    <3>1. CASE m = name
      <4>1. m \in Kids(f, build_full_path(d, H))
        <5>1. H \in Nat
          BY <1>0, Entries
        <5> QED
          BY <1>0, <1>7, <2>4, <3>1, <5>1, LastTells
      <4>2. n = m
        BY <1>7, <3>1, <4>1
      <4>3. Known(e, H, m)
        BY <1>2, <4>2 DEF Known, Children
      <4> QED
        BY <4>1, <4>3
    <3>2. CASE m # name
      <4>1. m \in Kids(f, build_full_path(d, H)) <=> Known(d, H, m)
        BY <1>1, <1>7, <2>4, <3>2, OtherName DEF SeenAt
      <4>2. m # n
        BY <1>1, <1>7, <3>2
      <4>3. Known(e, H, m) <=> Known(d, H, m)
        <5>1. \A x \in Children(d, H) : x \in Children(e, H) /\ e[x] = d[x]
          BY <1>3, <2>2 DEF Children
        <5>2. \A x \in Children(e, H) \ Children(d, H) : e[x].name = n
          BY <1>2, <2>2
        <5> QED
          BY <4>2, <5>1, <5>2 DEF Known
      <4> QED
        BY <4>1, <4>3
    <3> QED
      BY <3>1, <3>2
  <2> QED
    BY <1>0, <2>1, <2>3, <2>4 DEF InStepAt
<1> QED
  BY <1>0, <1>3, <1>5, <1>6 DEF AllIn

\* IN_DELETE, IN_MOVED_FROM: an entry of a folder that is followed is filed under its name, and is
\* the only one of that name.
FirstOf(found, hs) == hs = IF found = {} THEN {} ELSE {Min(found)}
LEMMA EventRemoves ==
  ASSUME NEW f, CardIn(f), NEW d, Db(d), NEW c, NEW H, NEW t, NEW B, NEW R, NEW W, Reached(f, d, t, B, R, c, W, H),
         FiledIn(d, R), TwinFree(d, R), NEW name, name = f.queue[1].name, f.queue[1].kind # "create",
         NEW hs, FirstOf(find_entry(d, name, H), hs), NEW e, Flagging(d, e, hs, H), NEW t2, t2 = t \ hs
  PROVE  AllIn(f, e, t2, B, R, <<H>>, W, {}) /\ R \subseteq DOMAIN e
<1>0. /\ Turn(f, d, c, H) /\ InStepAt(f, d, t, B, R, c, W, H) /\ AllIn(f, d, t, B, R, <<H>>, W, {H})
      /\ t \subseteq DOMAIN d /\ R \subseteq DOMAIN d /\ H \in DOMAIN d
  BY DEF Reached, Turn
<1>1. Watches(f) /\ Card(f) /\ DOMAIN e = DOMAIN d
  BY DEF CardIn, Flagging, Less
<1>2. hs \subseteq find_entry(d, name, H)
  <2>1. \A x \in DOMAIN d : x \in Nat
    BY Entries
  <2>2. find_entry(d, name, H) \subseteq Nat
    BY <2>1 DEF find_entry
  <2> QED
    BY <2>2, MinIn DEF FirstOf
<1>3. ASSUME NEW x \in DOMAIN d, x # H PROVE InStepAt(f, e, t2, B, R, <<H>>, W, x)
  <2>1. PICK k : k = <<H>>
    OBVIOUS
  <2>2. InStepAt(f, d, t, B, R, k, W, x)
    BY <1>0, <1>3, <2>1 DEF AllIn
  <2>3. t2 \subseteq t /\ t \ hs \subseteq t2
    OBVIOUS
  <2>4. InStepAt(f, e, t2, B, R, k, W, x)
    BY <1>0, <1>1, <1>3, <2>2, <2>3, FlagAt
  <2> QED
    BY <2>1, <2>4
<1>4. InStepAt(f, e, t2, B, R, <<H>>, W, H)
  <2>1. /\ KeptAt(f, e, B, H)
        /\ Follows(f, e, B, R, H) => /\ Follows(f, d, B, R, H)
                                     /\ e[H] = d[H] /\ build_full_path(e, H) = build_full_path(d, H)
    BY <1>0, <1>1, FlagFollow DEF InStepAt
  <2>2. ChildrenLess(d, e, hs, H) /\ (HostAt(d, t, H) => HostAt(e, t2, H))
    BY <1>0, FlagSelf
  <2>3. ASSUME Follows(f, d, B, R, H), SeenAt(f, d, c, H), e[H] = d[H], build_full_path(e, H) = build_full_path(d, H)
        PROVE  SeenAt(f, e, <<H>>, H)
    <3> SUFFICES ASSUME NEW m \in Names, Awaits(f, <<H>>, H, d[H].wd, m) = {}
                 PROVE  m \in Kids(f, build_full_path(d, H)) <=> Known(e, H, m)
      BY <2>3 DEF SeenAt
    <3>1. Known(e, H, m) <=> \E x \in Children(d, H) \ hs : d[x].name = m
      BY <2>2 DEF ChildrenLess
    <3>2. CASE m = name
      <4>1. m \notin Kids(f, build_full_path(d, H))
        <5>1. H \in Nat
          BY <1>0, Entries
        <5> QED
          BY <1>0, <2>3, <3>2, <5>1, LastTells
      <4>2. ASSUME NEW x \in Children(d, H), d[x].name = m PROVE x \in hs
        <5>1. x \in DOMAIN d \ {0} /\ d[x].live /\ d[x].parent = H /\ x \notin R
          BY <2>3 DEF Children, Follows
        <5>2. x \in find_entry(d, name, H)
          BY <3>2, <4>2, <5>1 DEF FiledIn, find_entry
        <5>3. PICK y \in hs : TRUE
          BY <5>2 DEF FirstOf
        <5>4. y \in DOMAIN d \ {0} /\ d[y].live /\ d[y].parent = H /\ d[y].name = m /\ y \notin R
          BY <1>2, <2>3, <3>2, <5>3 DEF find_entry, Follows
        <5>5. y = x
          BY <4>2, <5>1, <5>4 DEF TwinFree
        <5> QED
          BY <5>5
      <4> QED
        BY <3>1, <4>1, <4>2
    <3>3. CASE m # name
      <4>1. m \in Kids(f, build_full_path(d, H)) <=> Known(d, H, m)
        BY <1>1, <2>3, <3>3, OtherName DEF SeenAt
      <4>2. \A x \in hs : d[x].name # m
        BY <1>2, <3>3 DEF find_entry
      <4>3. Known(e, H, m) <=> Known(d, H, m)
        BY <3>1, <4>2 DEF Known
      <4> QED
        BY <4>1, <4>3
    <3> QED
      BY <3>2, <3>3
  <2> QED
    BY <1>0, <2>1, <2>2, <2>3 DEF InStepAt
<1> QED
  BY <1>0, <1>1, <1>3, <1>4 DEF AllIn

\* The event is done with.
LEMMA PoppedAt ==
  ASSUME NEW f, CardIn(f), f.queue # <<>>, NEW g, g = [f EXCEPT !.queue = Tail(@)], NEW d, NEW x, x \in Nat,
         NEW t, NEW B, NEW R, NEW W, InStepAt(f, d, t, B, R, << 0 >>, W, x)
  PROVE  InStepAt(g, d, t, B, R, <<>>, W, x)
<1>1. /\ Watches(g) /\ Watches(f) /\ g.disk = f.disk /\ g.inos = f.inos /\ g.watch = f.watch
      /\ Len(g.queue) = Len(f.queue) - 1 /\ \A i \in DOMAIN g.queue : g.queue[i] = f.queue[i + 1]
  BY PopDoes DEF CardIn
<1>2. \A p : Kids(g, p) = Kids(f, p)
  BY <1>1 DEF Kids
<1>3. Values(g) = Values(f) /\ \A p, w : WatchAt(g, p, w) <=> WatchAt(f, p, w)
  BY <1>1 DEF Values, WatchAt, Watching, IsDir, Ino
<1>4. \A w, n : Awaits(g, <<>>, x, w, n) = {} => Awaits(f, <<0>>, x, w, n) = {}
  <2> SUFFICES ASSUME NEW w, NEW n, NEW i \in Awaits(f, << 0 >>, x, w, n) PROVE Awaits(g, <<>>, x, w, n) # {}
    OBVIOUS
  <2>1. i \in DOMAIN f.queue /\ About(f.queue[i], w, n) /\ i > 1
    BY DEF Awaits
  <2>2. /\ DOMAIN f.queue = 1 .. Len(f.queue) /\ DOMAIN g.queue = 1 .. Len(g.queue)
        /\ Len(f.queue) \in Nat /\ Len(g.queue) \in Nat
    BY <1>1 DEF Watches
  <2>3. i - 1 \in DOMAIN g.queue /\ i - 1 + 1 = i
    BY <1>1, <2>1, <2>2
  <2>4. About(g.queue[i - 1], w, n)
    BY <1>1, <2>1, <2>3
  <2>5. i - 1 \in Awaits(g, <<>>, x, w, n)
    BY <2>3, <2>4 DEF Awaits
  <2> QED
    BY <2>5
<1>5. KeptAt(f, d, B, x) => KeptAt(g, d, B, x)
  BY <1>3 DEF KeptAt
<1>6. Follows(g, d, B, R, x) => Follows(f, d, B, R, x)
  BY <1>3 DEF Follows
<1>7. SeenAt(f, d, <<0>>, x) => SeenAt(g, d, <<>>, x)
  BY <1>2, <1>4 DEF SeenAt
<1> QED
  BY <1>5, <1>6, <1>7 DEF InStepAt

\* A rename that is under way.
LEMMA RenamingMore ==
  ASSUME NEW f, Watches(f), f.wds \in Nat, NEW d, Db(d), NEW e, More(d, e), NEW B, NEW o, Renaming(f, d, B, o)
  PROVE  Renaming(f, e, B, o)
<1> SUFFICES ASSUME o.pc = "rename"
             PROVE  /\ \E S \in SUBSET DOMAIN e : o.h \in S /\ Closed(e, S) /\ \A x \in S : x \in B \/ e[x].wd = NoWd
                    /\ \A h \in DOMAIN e : e[h].live /\ h \notin B /\ e[h].wd \in Values(f) /\ build_full_path(e, h) # <<>> =>
                         ~ Passes(build_full_path(e, h), o.from)
  BY DEF Renaming
<1>1. PICK S \in SUBSET DOMAIN d : o.h \in S /\ Closed(d, S) /\ \A x \in S : x \in B \/ d[x].wd = NoWd
  BY DEF Renaming
<1>2. /\ DOMAIN d \subseteq DOMAIN e /\ \A x \in DOMAIN d : e[x] = d[x] /\ d[x].parent \in DOMAIN d
      /\ \A x \in DOMAIN e \ DOMAIN d : e[x].wd = NoWd /\ e[x].parent \in DOMAIN d
  BY Entries DEF More
<1>3. PICK T : T = S \cup {x \in DOMAIN e \ DOMAIN d : e[x].parent \in S}
  OBVIOUS
<1>4. T \in SUBSET DOMAIN e /\ o.h \in T /\ \A x \in T : x \in B \/ e[x].wd = NoWd
  BY <1>1, <1>2, <1>3
<1>5. Closed(e, T)
  <2> SUFFICES ASSUME NEW x \in DOMAIN e, e[x].parent # 0, e[e[x].parent].live, e[x].parent \in T PROVE x \in T
    BY DEF Closed
  <2>1. e[x].parent \in DOMAIN d /\ e[x].parent \in S
    BY <1>2, <1>3
  <2>2. x \in DOMAIN d => x \in S
    BY <1>1, <1>2, <2>1 DEF Closed
  <2> QED
    BY <1>3, <2>1, <2>2
<1>6. ASSUME NEW h \in DOMAIN e, e[h].live, h \notin B, e[h].wd \in Values(f), build_full_path(e, h) # <<>>
      PROVE  ~ Passes(build_full_path(e, h), o.from)
  <2>1. e[h].wd # NoWd
    BY <1>6, WatchValue
  <2>2. h \in DOMAIN d /\ e[h] = d[h]
    BY <1>2, <2>1
  <2>3. build_full_path(e, h) = build_full_path(d, h)
    BY <2>2, MorePaths
  <2> QED
    BY <1>6, <2>2, <2>3 DEF Renaming
<1> QED
  BY <1>4, <1>5, <1>6

LEMMA RenamingLess ==
  ASSUME NEW f, Card(f), Watches(f), NEW d, NEW e, NEW hs, NEW H, Flagging(d, e, hs, H), NEW B, NEW o, Renaming(f, d, B, o),
         \A x \in DOMAIN d : KeptAt(f, d, B, x)
  PROVE  Renaming(f, e, B, o)
<1> SUFFICES ASSUME o.pc = "rename"
             PROVE  /\ \E S \in SUBSET DOMAIN e : o.h \in S /\ Closed(e, S) /\ \A x \in S : x \in B \/ e[x].wd = NoWd
                    /\ \A h \in DOMAIN e : e[h].live /\ h \notin B /\ e[h].wd \in Values(f) /\ build_full_path(e, h) # <<>> =>
                         ~ Passes(build_full_path(e, h), o.from)
  BY DEF Renaming
<1>1. PICK S \in SUBSET DOMAIN d : o.h \in S /\ Closed(d, S) /\ \A x \in S : x \in B \/ d[x].wd = NoWd
  BY DEF Renaming
<1>2. /\ DOMAIN e = DOMAIN d /\ Db(d)
      /\ \A x \in DOMAIN d : e[x].parent = d[x].parent /\ (e[x].live => d[x].live) /\ d[x].parent \in DOMAIN d
  BY Entries DEF Flagging, Less
<1>3. \A x \in S : x \in B \/ e[x].wd = NoWd
  BY <1>1 DEF Flagging, Flags, Flagged
<1>4. Closed(e, S)
  BY <1>1, <1>2 DEF Closed
<1>5. ASSUME NEW h \in DOMAIN e, e[h].live, h \notin B, e[h].wd \in Values(f), build_full_path(e, h) # <<>>
      PROVE  ~ Passes(build_full_path(e, h), o.from)
  <2>1. PICK R : R = {}
    OBVIOUS
  <2>2. R \subseteq DOMAIN d /\ KeptAt(f, d, B, h) /\ h \in DOMAIN d
    BY <1>2, <2>1
  <2>3. e[h].live /\ h \notin B /\ e[h].wd \in Values(f) /\ build_full_path(e, h) # <<>> =>
          /\ e[h] = d[h] /\ build_full_path(e, h) = build_full_path(d, h)
    BY <2>2, FlagFollow
  <2> QED
    BY <1>2, <1>5, <2>3 DEF Renaming
<1> QED
  BY <1>1, <1>2, <1>3, <1>4, <1>5

\* What a round leaves: database e and host t, with the cursor at k.
RoundIs(e, t, k) ==
  AllIn(fs, e, t, blind, renamed, <<k>>, wild, {}) /\ Renaming(fs, e, blind, op) /\ renamed \subseteq DOMAIN e

LEMMA EntryAddedStep ==
  ASSUME StepInv, NEW H \in DOMAIN fs_db, NEW ev, ev = fs.queue[1], ev \in EventsOf(fs), ev.kind = "create",
         Reached(fs, fs_db, Due, blind, renamed, cursor, wild, H),
         EntryAdded(H, ev.name), adding = {}, removing = {}, told' = told, missed' = missed
  PROVE  RoundIs(fs_db', Due', H)
<1>0. PICK name \in Names : name = ev.name
  BY DEF EventsOf
<1>1. PICK p : p = Append(build_full_path(fs_db, H), name)
  OBVIOUS
<1>2. \E n \in {IF Exists(fs, p) THEN name ELSE NoName}, dir \in IF Exists(fs, p) THEN {IsDir(fs, p)} ELSE BOOLEAN :
        fs_db' = add_entry(fs_db, n, H, dir) /\ adding' = DOMAIN fs_db' \ DOMAIN fs_db /\ removing' = removing
  BY <1>0, <1>1 DEF EntryAdded
<1>3. IsDir(fs, p) \in BOOLEAN
  <2>1. p \in DOMAIN fs.disk => fs.disk[p].dir \in BOOLEAN
    BY Nodes DEF StepInv, FilesInv, CardIn
  <2> QED
    BY <2>1 DEF IsDir
<1>4. PICK n \in {name, NoName}, dir \in BOOLEAN :
        /\ fs_db' = add_entry(fs_db, n, H, dir) /\ adding' = DOMAIN fs_db' \ DOMAIN fs_db /\ removing' = removing
        /\ Exists(fs, p) => n = name
  BY <1>2, <1>3
<1>5. ReadAs(fs, build_full_path(fs_db, H), name, n)
  BY <1>1, <1>4 DEF Kids, Exists, ReadAs
<1>6. PICK e : e = fs_db'
  OBVIOUS
<1>7. PICK t : t = Due'
  OBVIOUS
<1>9. /\ CardIn(fs) /\ Watches(fs) /\ fs.wds \in Nat /\ Db(fs_db) /\ Due \subseteq DOMAIN fs_db /\ renamed \subseteq DOMAIN fs_db
      /\ Renaming(fs, fs_db, blind, op)
  BY Given DEF StepInv, FilesInv, StepIn, OpInStep
<1>14. AddedTo(fs_db, e, n, H)
  BY <1>4, <1>6 DEF AddedTo
<1>12. More(fs_db, e)
  <2>1. n \in Names \cup {NoName}
    OBVIOUS
  <2> QED
    BY <1>9, <1>14, <2>1, AddedIs
<1>15. ToldNew(fs_db, e, Due, t)
  <2>1. PICK N : N = DOMAIN e \ DOMAIN fs_db
    OBVIOUS
  <2>2. /\ missed \cup adding \cup removing = missed
        /\ missed' \cup adding' \cup removing' = missed \cup N
    BY <1>4, <1>6, <2>1
  <2>3. Due = DueOf(fs_db, told, missed) /\ t = DueOf(e, told, missed \cup N)
    BY <1>6, <1>7, <2>2, DueIs
  <2>4. told \subseteq DOMAIN fs_db
    BY Given DEF StepInv
  <2>5. t = Due \cup N
    BY <1>12, <2>1, <2>3, <2>4, DueAdded
  <2> QED
    BY <2>1, <2>5 DEF ToldNew
<1>8. AddedTo(fs_db, e, n, H) /\ ToldNew(fs_db, e, Due, t)
  BY <1>14, <1>15
<1>10. FirstIs(fs, "create", name)
  BY <1>0 DEF FirstIs
<1>11. AllIn(fs, e, t, blind, renamed, <<H>>, wild, {}) /\ renamed \subseteq DOMAIN e
  BY <1>5, <1>8, <1>9, <1>10, EventAdds
<1>13. Renaming(fs, e, blind, op)
  BY <1>9, <1>12, RenamingMore
<1> QED
  BY <1>6, <1>7, <1>11, <1>13 DEF RoundIs

EventRemoval(f, d, t, B, R, c, W, H, name, hs, e, t2) ==
  /\ CardIn(f) /\ Db(d) /\ FiledIn(d, R) /\ TwinFree(d, R) /\ Reached(f, d, t, B, R, c, W, H)
  /\ name = f.queue[1].name /\ f.queue[1].kind # "create"
  /\ FirstOf(find_entry(d, name, H), hs) /\ Flagging(d, e, hs, H) /\ t2 = t \ hs
LEMMA RemovalIs ==
  ASSUME NEW f, NEW d, NEW t, NEW B, NEW R, NEW c, NEW W, NEW H, NEW name, NEW hs, NEW e, NEW t2,
         EventRemoval(f, d, t, B, R, c, W, H, name, hs, e, t2)
  PROVE  AllIn(f, e, t2, B, R, <<H>>, W, {}) /\ R \subseteq DOMAIN e
<1>1. CardIn(f) /\ Db(d) /\ FiledIn(d, R) /\ TwinFree(d, R) /\ Reached(f, d, t, B, R, c, W, H)
  BY DEF EventRemoval
<1>2. name = f.queue[1].name /\ f.queue[1].kind # "create"
  BY DEF EventRemoval
<1>3. FirstOf(find_entry(d, name, H), hs) /\ Flagging(d, e, hs, H)
  BY DEF EventRemoval
<1>4. t2 = t \ hs
  BY DEF EventRemoval
<1> QED
  BY <1>1, <1>2, <1>3, <1>4, EventRemoves

LEMMA EntryRemovedStep ==
  ASSUME StepInv, op.pc \in {"idle", "rename"},
         NEW H \in DOMAIN fs_db, NEW ev, ev = fs.queue[1], ev.kind # "create",
         Reached(fs, fs_db, Due, blind, renamed, cursor, wild, H),
         EntryRemoved(H, ev.name), adding = {}, removing = {}, told' = told, missed' = missed
  PROVE  RoundIs(fs_db', Due', H)
<1>0. PICK name : name = ev.name
  OBVIOUS
<1>1. PICK hs : FirstOf(find_entry(fs_db, name, H), hs)
  BY DEF FirstOf
<1>2. PICK e : e = fs_db'
  OBVIOUS
<1>3. PICK t : t = Due'
  OBVIOUS
<1>11. e = Flag(fs_db, hs) /\ removing' = hs /\ adding' = adding
  BY <1>0, <1>1, <1>2 DEF EntryRemoved, FirstOf
<1>5. /\ CardIn(fs) /\ Card(fs) /\ Watches(fs) /\ Db(fs_db) /\ Due \subseteq DOMAIN fs_db /\ renamed \subseteq DOMAIN fs_db
      /\ FiledIn(fs_db, renamed) /\ TwinFree(fs_db, renamed) /\ Renaming(fs, fs_db, blind, op)
  BY Given DEF StepInv, FilesInv, StepIn, OpInStep
<1>6. Flagging(fs_db, e, hs, H)
  <2>1. find_entry(fs_db, name, H) \subseteq Nat
    <3>1. \A x \in DOMAIN fs_db : x \in Nat
      BY <1>5, Entries
    <3> QED
      BY <3>1 DEF find_entry
  <2>2. hs \subseteq find_entry(fs_db, name, H)
    BY <1>1, <2>1, MinIn DEF FirstOf
  <2>3. ChildrenOf(fs_db, hs, H)
    BY <2>2 DEF ChildrenOf, find_entry
  <2> QED
    BY <1>5, <1>11, <2>3, FlaggingIs
<1>4. t = Due \ hs
  <2>1. DOMAIN e = DOMAIN fs_db /\ Flags(fs_db, e, hs)
    BY <1>6 DEF Flagging, Less
  <2>2. /\ missed \cup adding \cup removing = missed
        /\ missed' \cup adding' \cup removing' = missed \cup hs
    BY <1>11
  <2>4. PICK N : N = missed \cup hs
    OBVIOUS
  <2>3. Due = DueOf(fs_db, told, missed) /\ t = DueOf(e, told, N)
    BY <1>2, <1>3, <2>2, <2>4, DueIs
  <2>5. DueOf(e, told, N) = DueOf(fs_db, told, missed) \ hs
    BY <2>1, <2>4, DuePending
  <2> QED
    BY <2>3, <2>5
<1>7. name = fs.queue[1].name /\ fs.queue[1].kind # "create"
  BY <1>0
<1>8. AllIn(fs, e, t, blind, renamed, <<H>>, wild, {}) /\ renamed \subseteq DOMAIN e
  <2>1. PICK u : u = Due
    OBVIOUS
  <2>2. Reached(fs, fs_db, u, blind, renamed, cursor, wild, H) /\ t = u \ hs
    BY <1>4, <2>1
  <2>3. FirstOf(find_entry(fs_db, name, H), hs) /\ Flagging(fs_db, e, hs, H)
    BY <1>1, <1>6
  <2>4. EventRemoval(fs, fs_db, u, blind, renamed, cursor, wild, H, name, hs, e, t)
    BY <1>5, <1>7, <2>2, <2>3 DEF EventRemoval
  <2> QED
    BY <2>4, RemovalIs
<1>9. \A x \in DOMAIN fs_db : KeptAt(fs, fs_db, blind, x)
  BY DEF StepInv, StepIn, Exempt, AllIn, InStepAt
<1>10. Renaming(fs, e, blind, op)
  BY <1>5, <1>6, <1>9, RenamingLess
<1> QED
  BY <1>2, <1>3, <1>8, <1>10 DEF RoundIs

LEMMA RoundStep == StepInv /\ Round => StepIn'
<1> SUFFICES ASSUME StepInv, Round PROVE StepIn'
  OBVIOUS
<1>1. PICK ev : ev = Head(fs.queue)
  OBVIOUS
<1>2. PICK last \in BOOLEAN : last = (~ Session \/ Matches(ev.wd) \subseteq {0})
  OBVIOUS
<1>3. PICK dropped : dropped = {fs_db[h].wd : h \in {g \in DOMAIN fs_db : fs_db'[g].wd = NoWd}}
  OBVIOUS
<1>4. PICK M : M = Matches(ev.wd)
  OBVIOUS
<1>23. adding = {} /\ removing = {} /\ told' = told /\ missed' = missed
  BY DEF Round
<1>5. /\ fs.queue # <<>> /\ op.pc \in {"idle", "rename"} /\ UNCHANGED <<op, wild, blind, renamed>>
      /\ fs' = RmWatch([fs EXCEPT !.queue = IF last THEN Tail(@) ELSE @], dropped)
      /\ cursor' = (IF last THEN <<>> ELSE <<Max(M)>>)
  BY <1>1, <1>2, <1>3, <1>4 DEF Round, Unlocked
<1>6. /\ CardIn(fs) /\ Card(fs) /\ Watches(fs) /\ fs.wds \in Nat /\ Db(fs_db) /\ Exempt(op) = {} /\ CursorIn(fs, cursor)
      /\ AllIn(fs, fs_db, Due, blind, renamed, cursor, wild, {}) /\ renamed \subseteq DOMAIN fs_db /\ Renaming(fs, fs_db, blind, op)
  BY <1>5, Given DEF StepInv, FilesInv, StepIn, OpInStep, Exempt
<1>7. ev = fs.queue[1] /\ ev \in EventsOf(fs)
  BY <1>1, <1>5, <1>6 DEF Watches
<1>8. \A x \in DOMAIN fs_db : x \in Nat /\ (Turn(fs, fs_db, cursor, x) => x \in M)
  BY <1>4, <1>6, <1>7, Entries DEF Turn, Matches
<1>9. \E k \in Nat : /\ RoundIs(fs_db', Due', k)
                     /\ last => k = 0
                     /\ ~ last => cursor' = <<k>>
  <2>1. CASE ~ Session \/ M = {}
    <3>1. last /\ UNCHANGED <<fs_db, Due>>
      BY <1>1, <1>2, <1>4, <1>23, <2>1, DueIs DEF Round, push
    <3>2. ASSUME NEW x \in DOMAIN fs_db PROVE InStepAt(fs, fs_db, Due, blind, renamed, <<0>>, wild, x)
      <4>1. M = {}
        BY <1>4, <2>1, <3>2 DEF Session, Matches
      <4>2. ~ Turn(fs, fs_db, cursor, x)
        BY <1>8, <4>1
      <4>3. InStepAt(fs, fs_db, Due, blind, renamed, cursor, wild, x)
        BY <1>6 DEF AllIn
      <4> QED
        BY <1>6, <4>2, <4>3, PassOver
    <3>3. RoundIs(fs_db, Due, 0)
      BY <1>6, <3>2 DEF RoundIs, AllIn
    <3> QED
      BY <3>1, <3>3
  <2>2. CASE Session /\ M # {}
    <3>1. PICK H : H = Max(M)
      OBVIOUS
    <3>2. M \subseteq DOMAIN fs_db
      BY <1>4 DEF Matches
    <3>3. H \in M /\ \A y \in M : y <= H
      BY <1>6, <2>2, <3>1, <3>2, MaxIn
    <3>4. H \in DOMAIN fs_db /\ H \in Nat /\ Turn(fs, fs_db, cursor, H)
      BY <1>4, <1>5, <1>7, <1>8, <3>2, <3>3 DEF Matches, Turn
    <3>5. InStepAt(fs, fs_db, Due, blind, renamed, cursor, wild, H)
      BY <1>6, <3>4 DEF AllIn
    <3>6. AllIn(fs, fs_db, Due, blind, renamed, <<H>>, wild, {H})
      <4> SUFFICES ASSUME NEW x \in DOMAIN fs_db, x # H PROVE InStepAt(fs, fs_db, Due, blind, renamed, <<H>>, wild, x)
        BY DEF AllIn
      <4>1. Turn(fs, fs_db, cursor, x) => x < H
        BY <1>8, <3>3, <3>4
      <4>2. InStepAt(fs, fs_db, Due, blind, renamed, cursor, wild, x)
        BY <1>6 DEF AllIn
      <4> QED
        BY <1>6, <4>1, <4>2, PassOver
    <3>7. Reached(fs, fs_db, Due, blind, renamed, cursor, wild, H)
      BY <1>6, <3>4, <3>5, <3>6, Given DEF Reached, StepInv
    <3>8. RoundIs(fs_db', Due', H)
      <4>1. CASE ev.kind = "create"
        <5>1. EntryAdded(H, ev.name)
          BY <1>1, <1>4, <2>2, <3>1, <4>1 DEF Round
        <5> QED
          BY <1>7, <1>23, <3>4, <3>7, <4>1, <5>1, EntryAddedStep
      <4>2. CASE ev.kind # "create"
        <5>1. EntryRemoved(H, ev.name)
          BY <1>1, <1>4, <2>2, <3>1, <4>2 DEF Round
        <5> QED
          BY <1>5, <1>7, <1>23, <3>4, <3>7, <4>2, <5>1, EntryRemovedStep
      <4> QED
        BY <4>1, <4>2
    <3>9. last => H = 0
      BY <1>2, <1>4, <2>2, <3>3
    <3> QED
      BY <1>5, <3>1, <3>4, <3>8, <3>9
  <2> QED
    BY <2>1, <2>2
<1>10. PICK e : e = fs_db'
  OBVIOUS
<1>11. PICK t : t = Due'
  OBVIOUS
<1>12. PICK k \in Nat : RoundIs(e, t, k) /\ (last => k = 0) /\ (~ last => cursor' = <<k>>)
  BY <1>9, <1>10, <1>11
<1>13. PICK m : m = [fs EXCEPT !.queue = IF last THEN Tail(@) ELSE @]
  OBVIOUS
<1>14. PICK c : c = cursor'
  OBVIOUS
<1>15. Db(e)
  <2>1. FilesInv'
    BY RoundIn DEF StepInv
  <2>2. Db(fs_db')
    BY <2>1 DEF FilesInv, DbIn
  <2> QED
    BY <1>10, <2>2
<1>16. Card(m) /\ Watches(m) /\ AllIn(m, e, t, blind, renamed, c, wild, {}) /\ CursorIn(m, c) /\ Renaming(m, e, blind, op)
  <2>1. CASE last
    <3>1. m = [fs EXCEPT !.queue = Tail(@)] /\ c = <<>> /\ k = 0
      BY <1>5, <1>12, <1>13, <1>14, <2>1
    <3>2. Card(m) /\ Watches(m) /\ m.watch = fs.watch
      BY <1>5, <1>6, <3>1, PopDoes DEF CardIn
    <3>3. ASSUME NEW x \in DOMAIN e PROVE InStepAt(m, e, t, blind, renamed, <<>>, wild, x)
      <4>1. x \in Nat
        BY <1>15, Entries
      <4>2. InStepAt(fs, e, t, blind, renamed, <<0>>, wild, x)
        BY <1>12, <3>1 DEF RoundIs, AllIn
      <4> QED
        BY <1>5, <1>6, <3>1, <4>1, <4>2, PoppedAt
    <3>4. Renaming(m, e, blind, op)
      BY <1>12, <3>2 DEF RoundIs, Renaming, Values
    <3> QED
      BY <3>1, <3>2, <3>3, <3>4 DEF AllIn, CursorIn
  <2>2. CASE ~ last
    <3>1. fs \in [disk : {fs.disk}, queue : {fs.queue}, watch : {fs.watch}, inos : {fs.inos}, wds : {fs.wds}]
      BY <1>6 DEF Card, Shaped
    <3>2. m = fs
      BY <1>13, <2>2, <3>1
    <3>3. c = <<k>>
      BY <1>12, <1>14, <2>2
    <3>4. CursorIn(fs, c)
      BY <1>5, <3>3 DEF CursorIn
    <3> QED
      BY <1>6, <1>12, <3>2, <3>3, <3>4 DEF RoundIs
  <2> QED
    BY <2>1, <2>2
<1>17. PICK g : g = RmWatch(m, dropped)
  OBVIOUS
<1>18. AllIn(g, e, t, blind, renamed, c, wild, {}) /\ CursorIn(g, c)
  BY <1>16, <1>17, GivenUp
<1>19. Renaming(g, e, blind, op)
  <2>1. Values(g) \subseteq Values(m)
    BY <1>16, <1>17, RmWatchDoes DEF Values
  <2> QED
    BY <1>16, <2>1, RenamingStep
<1>20. OpInStep(g, e, blind, c, op)
  BY <1>5, <1>19 DEF OpInStep, Listed, OpAt
<1>21. renamed \subseteq DOMAIN e
  BY <1>12 DEF RoundIs
<1>22. fs' = g
  BY <1>5, <1>13, <1>17
<1> QED
  BY <1>5, <1>6, <1>10, <1>11, <1>14, <1>18, <1>20, <1>21, <1>22 DEF StepIn

-----------------------------------------------------------------------------

LEMMA StepInitIn == FilesInit => StepInv
<1> SUFFICES ASSUME FilesInit PROVE StepIn
  BY FilesInitIn, InitWay DEF StepInv
<1>1. fs_db = <<>> /\ op = Idle /\ cursor = <<>> /\ renamed = {}
  BY DEF FilesInit
<1>2. DOMAIN fs_db = {} /\ op.pc = "idle"
  BY <1>1 DEF Idle
<1> QED
  BY <1>1, <1>2, IdleAt DEF StepIn, AllIn, CursorIn

LEMMA StepNextIn == StepInv /\ [FilesNext]_fileVars => StepInv'
<1> SUFFICES ASSUME StepInv, [FilesNext]_fileVars PROVE StepIn'
  BY FilesNextIn DEF StepInv
<1>1. CASE UNCHANGED fileVars
  BY <1>1, DueIs DEF fileVars, StepInv, StepIn
<1>2. CASE Round
  BY <1>2, RoundStep
<1>3. CASE Device
  BY <1>3, DeviceStep
<1>4. CASE Host
  BY <1>4, OpenSessionStep, DropStep, ListFolderStep, ListDropStep, ListReplyStep, SendObjectInfoStep, SendObjectInfoCutStep,
     SendObjectStep, DeleteObjectStep, DeleteFolderStep, SetNameStep, RenameObjectStep DEF Host, Datasets
<1>5. CASE Push \/ PushDropped
  <2>1. UNCHANGED <<fs, fs_db, op, cursor, wild, blind, renamed>>
    BY <1>5 DEF Push, PushDropped
  <2>2. Due' = Due
    BY <1>5, PushDue DEF StepInv
  <2> QED
    BY <2>1, <2>2 DEF StepInv, StepIn
<1> QED
  BY <1>1, <1>2, <1>3, <1>4, <1>5 DEF FilesNext

\* Once the inotify thread has caught up, the entries of a folder it watches are what is in the
\* folder, and what the host has been told of but for the objects whose event was dropped or came
\* late, in whatever order listings, events, host operations and the console's own changes came
\* (inotify_thread, mtp_push_event, scan_and_add_folder, mtp_operations).
THEOREM FilesStayInStep == FilesSpec => []InStep
<1>1. StepInv => InStep
  <2> SUFFICES ASSUME StepInv, Settled, NEW h \in DOMAIN fs_db, Watched(h)
               PROVE  /\ Kids(fs, build_full_path(fs_db, h)) = {fs_db[c].name : c \in Children(fs_db, h)} \ {NoName}
                      /\ Children(fs_db, h) \ missed = {c \in told : fs_db[c].parent = h} \ missed
    BY DEF InStep, Synced, HostView
  <2>1. fs.queue = <<>> /\ op.pc = "idle" /\ wild = FALSE
    BY DEF Settled, Free
  <2>2. InStepAt(fs, fs_db, Due, blind, renamed, cursor, wild, h)
    BY <2>1, IdleAt DEF StepInv, StepIn, AllIn
  <2>3. Follows(fs, fs_db, blind, renamed, h)
    BY DEF Watched, Live, Follows, WatchAt
  <2>4. HostAt(fs_db, Due, h) /\ SeenAt(fs, fs_db, cursor, h)
    BY <2>1, <2>2, <2>3 DEF InStepAt
  <2>5. \A w, n : Awaits(fs, cursor, h, w, n) = {}
    BY <2>1 DEF Awaits
  <2>6. \A n \in Names : n \in Kids(fs, build_full_path(fs_db, h)) <=> \E c \in Children(fs_db, h) : fs_db[c].name = n
    BY <2>4, <2>5 DEF SeenAt, Known
  <2>7. \A c \in Children(fs_db, h) : fs_db[c].name \in Names \cup {NoName}
    BY Given, Entries DEF Children, StepInv
  <2>8. Kids(fs, build_full_path(fs_db, h)) \subseteq Names /\ NoName \notin Names
    BY MtpFilesAssumption DEF Kids
  <2>9. Kids(fs, build_full_path(fs_db, h)) = {fs_db[c].name : c \in Children(fs_db, h)} \ {NoName}
    BY <2>6, <2>7, <2>8
  <2>10. missed \cup adding \cup removing = missed
    BY DEF Settled
  <2>11. Due = DueOf(fs_db, told, missed) /\ told \subseteq DOMAIN fs_db \ {0}
    BY <2>10, DueIs, Given DEF StepInv
  <2>12. Children(fs_db, h) \ missed = {c \in told : fs_db[c].parent = h} \ missed
    BY <2>4, <2>11 DEF HostAt, DueOf
  <2> QED
    BY <2>9, <2>12
<1> QED
  BY <1>1, StepInitIn, StepNextIn, PTL DEF FilesSpec
=============================================================================
