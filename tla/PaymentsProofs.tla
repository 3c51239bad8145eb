--------------------------- MODULE PaymentsProofs ---------------------------
(***************************************************************************)
(* What Payments guarantees for any number of invoices, students, sessions *)
(* and handlers, under any of its operations, crashes and database errors. *)
(*                                                                         *)
(* A payment webhook may reach a handler long after the transaction it is  *)
(* for was created, refunded or cancelled, so every handler has to carry   *)
(* the facts its last write rests on: HandlerInv lists them, TableInv what *)
(* ties the transactions to the gateway's sessions, and OneWriter that no  *)
(* two handlers store a session id in one transaction.                     *)
(*                                                                         *)
(* At the end, what an answer to a webhook is worth: AnswerInv.            *)
(***************************************************************************)
EXTENDS Payments, TLAPS

\* Transaction t is a gateway payment for invoice i, and was paid.
Backs(t, i) ==
    /\ t \in Txns
    /\ txns[t].kind = "online" /\ txns[t].inv = i
    /\ MoneyTaken(t)

\* Handlers that will write the session id of a transaction.
Writing == {"callGateway", "storeTracker"}

\* Handlers that have a payment to book.
Settling == {"handleSuccess", "processSuccess", "processWrite"}

\* What a handler h may rely on.
HandlerInv(h) ==
    /\ h.pc \in Writing =>
          /\ h.txn \in Txns
          /\ txns[h.txn].kind = "online" /\ txns[h.txn].tracker = None
    /\ h.pc = "storeTracker" => h.key \in Trackers /\ sess[h.key].txn = h.txn
    /\ h.pc = "reuseSession" => h.txn \in Txns
    /\ h.pc \in WebhookPCs =>
          /\ h.txn \in Txns /\ h.key \in Trackers /\ h.event \in Events
          /\ h.event = "succeeded" => MoneyTaken(h.txn)
    /\ h.pc \in Settling =>
          txns[h.txn].inv \in Invoices /\ MoneyTaken(h.txn)
    /\ h.pc \in {"failure", "failureWrite"} => txns[h.txn].inv \in Invoices
    /\ h.pc = "refundCreate" => h.inv \in Invoices /\ Backs(h.txn, h.inv)
    /\ h.pc = "refundWrite" => h.inv \in Invoices

\* Only gateway payments have a session, opened for them; only sessions whose
\* URL was returned are paid in, and each was opened for a transaction.
TableInv ==
    /\ \A t \in Txns :
          /\ txns[t].tracker # None =>
                txns[t].kind = "online" /\ sess[txns[t].tracker].txn = t
          /\ txns[t].kind = "absent" => txns[t].inv = None
    /\ \A k \in Trackers : sess[k].handed => sess[k].txn \in Txns
    /\ \A k \in Trackers, e \in Events : <<k, e>> \in hooks =>
          sess[k].handed /\ (e = "succeeded" => k \in captured)

OneWriter ==
    \A q, r \in Slots :
        q # r /\ req[q].pc \in Writing /\ req[r].pc \in Writing =>
            req[q].txn # req[r].txn

Inv ==
    /\ TypeOK
    /\ TableInv
    /\ \A s \in Slots : HandlerInv(req[s])
    /\ OneWriter
    /\ PaymentIsBacked
    /\ RefundIsBacked

-----------------------------------------------------------------------------
(***************************************************************************)
(* Handlers are records; changing a field keeps them handlers.             *)
(***************************************************************************)

\* The empty handler is one, and relies on nothing.
LEMMA IdleType == IdleRequest \in Handlers /\ IdleRequest.pc = "idle"
  BY DEF IdleRequest, Handlers, PCs

\* A handler with one field replaced by a value of its type is a handler.
LEMMA HandlerUpdate ==
  ASSUME NEW h \in Handlers
  PROVE  /\ \A x \in PCs : [h EXCEPT !.pc = x] \in Handlers
         /\ \A x \in Invoices \cup {None} : [h EXCEPT !.inv = x] \in Handlers
         /\ \A x \in Students \cup {None} : [h EXCEPT !.student = x] \in Handlers
         /\ \A x \in Txns \cup {None} : [h EXCEPT !.txn = x] \in Handlers
         /\ \A x \in Trackers \cup {None} : [h EXCEPT !.key = x] \in Handlers
         /\ \A x \in Events \cup {None} : [h EXCEPT !.event = x] \in Handlers
         /\ \A x \in SUBSET Txns : [h EXCEPT !.todo = x] \in Handlers
  BY DEF Handlers

\* So with the rows of the invoice table.
LEMMA InvoiceUpdate ==
  ASSUME NEW row \in InvoiceRows
  PROVE  /\ \A x \in InvoiceStatus : [row EXCEPT !.status = x] \in InvoiceRows
         /\ \A x \in Txns \cup {None, External} :
               [row EXCEPT !.txn = x] \in InvoiceRows
         /\ [row EXCEPT !.live = FALSE] \in InvoiceRows
  BY DEF InvoiceRows

\* What the actions do to "req": the handler of slot s becomes h.
Replaces(s, h) == h \in Handlers /\ req' = [req EXCEPT ![s] = h]

-----------------------------------------------------------------------------
(***************************************************************************)
(* What a step may do to the tables without disturbing any handler: rows   *)
(* keep their kind and invoice, a session id is only ever filled in, in    *)
(* the transaction w, and money stays taken.                               *)
(***************************************************************************)

Evolves(w) ==
    /\ \A t \in Txns : txns[t].kind # "absent" =>
          txns'[t].kind = txns[t].kind /\ txns'[t].inv = txns[t].inv
    /\ \A t \in Txns :
          \/ txns'[t].tracker = txns[t].tracker
          \/ t = w /\ txns[t].tracker = None
    /\ captured \subseteq captured'
    /\ \A k \in Trackers : sess[k].txn \in Txns => sess'[k].txn = sess[k].txn

LEMMA EvolvesQuiet ==
  ASSUME UNCHANGED <<txns, sess, captured>> PROVE Evolves(None)
  BY DEF Evolves

\* Taken money belongs to a gateway payment.
LEMMA TakenIsOnline ==
  ASSUME TypeOK, TableInv, NEW t \in Txns, MoneyTaken(t)
  PROVE  txns[t].kind = "online" /\ txns[t].tracker # None
  BY ConstantsAssumption DEF TypeOK, TableInv, MoneyTaken

LEMMA MoneyStays ==
  ASSUME TypeOK, NEW w, Evolves(w), NEW t \in Txns, MoneyTaken(t)
  PROVE  MoneyTaken(t)'
  BY ConstantsAssumption DEF TypeOK, Evolves, MoneyTaken

LEMMA BacksStays ==
  ASSUME TypeOK, NEW w, Evolves(w), NEW t, NEW i, Backs(t, i)
  PROVE  Backs(t, i)'
  BY MoneyStays DEF Backs, Evolves

LEMMA HandlerStays ==
  ASSUME TypeOK, TableInv, NEW w, Evolves(w), NEW h, HandlerInv(h),
         h.pc \in Writing => h.txn # w
  PROVE  HandlerInv(h)'
<1>1. h.pc \in Writing =>
          /\ h.txn \in Txns
          /\ txns'[h.txn].kind = "online" /\ txns'[h.txn].tracker = None
  BY DEF HandlerInv, Evolves
<1>2. h.pc = "storeTracker" => h.key \in Trackers /\ sess'[h.key].txn = h.txn
  BY DEF HandlerInv, Evolves, Writing
<1>3. h.pc \in WebhookPCs /\ h.event = "succeeded" => MoneyTaken(h.txn)'
  BY MoneyStays DEF HandlerInv
<1>4. ASSUME h.txn \in Txns, txns[h.txn].inv \in Invoices
      PROVE  txns'[h.txn].inv = txns[h.txn].inv
  BY <1>4, ConstantsAssumption DEF TableInv, Evolves
<1>5. h.pc \in Settling =>
          txns'[h.txn].inv \in Invoices /\ MoneyTaken(h.txn)'
  BY <1>4, MoneyStays DEF HandlerInv, WebhookPCs, Settling
<1>6. h.pc \in {"failure", "failureWrite"} => txns'[h.txn].inv \in Invoices
  BY <1>4 DEF HandlerInv, WebhookPCs
<1>7. h.pc = "refundCreate" => h.inv \in Invoices /\ Backs(h.txn, h.inv)'
  BY BacksStays DEF HandlerInv
<1>. QED BY <1>1, <1>2, <1>3, <1>5, <1>6, <1>7 DEF HandlerInv

-----------------------------------------------------------------------------
(***************************************************************************)
(* The parts of the invariant, each under a step that evolves the tables.  *)
(***************************************************************************)

\* Invoices only come to name payments that back them.
LEMMA PaymentIsBackedStays ==
  ASSUME TypeOK, PaymentIsBacked, NEW w, Evolves(w),
         \A i \in Invoices : \/ inv'[i].txn = inv[i].txn
                             \/ inv'[i].txn \notin Txns
                             \/ Backs(inv'[i].txn, i)
  PROVE  PaymentIsBacked'
<1> SUFFICES ASSUME NEW i \in Invoices, NEW t, t = inv'[i].txn, t \in Txns
             PROVE  Backs(t, i)'
  BY DEF PaymentIsBacked, Backs
<1>1. Backs(t, i)
  BY DEF PaymentIsBacked, Backs
<1>. QED BY <1>1, BacksStays

\* Refunds are only recorded for payments that back their invoice.
LEMMA RefundIsBackedStays ==
  ASSUME TypeOK, TableInv, RefundIsBacked, NEW w, Evolves(w),
         \A t \in Txns : txns'[t].kind = "refund" =>
             \/ /\ txns[t].kind = "refund"
                /\ txns'[t].of = txns[t].of /\ txns'[t].inv = txns[t].inv
             \/ Backs(txns'[t].of, txns'[t].inv)
  PROVE  RefundIsBacked'
<1> SUFFICES ASSUME NEW t \in Txns, txns'[t].kind = "refund",
                    NEW p, p = txns'[t].of, NEW i, i = txns'[t].inv
             PROVE  Backs(p, i)'
  BY DEF RefundIsBacked, Backs, Recorded
<1>1. Backs(p, i)
  <2>1. CASE txns[t].kind = "refund" /\ p = txns[t].of /\ i = txns[t].inv
    BY <2>1, TakenIsOnline DEF RefundIsBacked, Backs, Recorded
  <2>. QED BY <2>1
<1>. QED BY <1>1, BacksStays

\* One handler is replaced by h, the rest go on.
LEMMA HandlersStay ==
  ASSUME Inv, NEW s \in Slots, NEW h, Replaces(s, h), HandlerInv(h)',
         NEW w, Evolves(w),
         w # None => req[s].pc \in Writing /\ req[s].txn = w,
         h.pc \in Writing => \/ req[s].pc \in Writing /\ h.txn = req[s].txn
                             \/ txns[h.txn].kind = "absent"
  PROVE  (\A q \in Slots : HandlerInv(req[q]))' /\ OneWriter'
<1>1. /\ req'[s] = h
      /\ \A q \in Slots \ {s} : req'[q] = req[q]
  BY DEF Inv, TypeOK, Replaces
<1>2. ASSUME NEW q \in Slots, q # s PROVE HandlerInv(req[q])'
  <2>1. HandlerInv(req[q]) /\ (req[q].pc \in Writing => req[q].txn # w)
    BY <1>2, ConstantsAssumption DEF Inv, OneWriter, HandlerInv
  <2>2. ASSUME NEW g, g = req[q] PROVE HandlerInv(g)'
    BY <2>1, <2>2, HandlerStays DEF Inv
  <2>. QED BY <1>1, <1>2, <2>2 DEF HandlerInv
<1>3. HandlerInv(req[s])'
  BY <1>1 DEF HandlerInv
<1>4. ASSUME NEW q \in Slots \ {s}, req[q].pc \in Writing, h.pc \in Writing
      PROVE  req[q].txn # h.txn
  BY <1>4 DEF Inv, OneWriter, HandlerInv
<1>5. OneWriter'
  BY <1>1, <1>4 DEF Inv, OneWriter
<1>. QED BY <1>2, <1>3, <1>5

\* No handler changes.
LEMMA AllHandlersStay ==
  ASSUME Inv, UNCHANGED req, Evolves(None)
  PROVE  (\A q \in Slots : HandlerInv(req[q]))' /\ OneWriter'
<1>1. ASSUME NEW q \in Slots PROVE HandlerInv(req[q])'
  <2>1. HandlerInv(req[q]) /\ (req[q].pc \in Writing => req[q].txn # None)
    BY ConstantsAssumption DEF Inv, HandlerInv
  <2>2. ASSUME NEW g, g = req[q] PROVE HandlerInv(g)'
    BY <2>1, <2>2, HandlerStays DEF Inv
  <2>. QED BY <2>2 DEF HandlerInv
<1>2. OneWriter'
  BY DEF Inv, OneWriter
<1>. QED BY <1>1, <1>2

\* Most steps only change one handler, whose new data is right, and what they
\* write to the tables is nothing a handler relies on.
LEMMA QuietStep ==
  ASSUME Inv, NEW s \in Slots, NEW h, Replaces(s, h), HandlerInv(h),
         h.pc \notin Writing,
         UNCHANGED <<inv, txns, enr, sess, captured, hooks, settled>>,
         acked' \in SUBSET Answers
  PROVE  Inv'
<1>1. Evolves(None)
  BY EvolvesQuiet
<1>2. HandlerInv(h)'
  BY <1>1, HandlerStays DEF Inv
<1>3. TypeOK'
  BY DEF Inv, TypeOK, Replaces
<1>4. TableInv' /\ PaymentIsBacked' /\ RefundIsBacked'
  BY DEF Inv, TableInv, PaymentIsBacked, RefundIsBacked, Recorded, MoneyTaken
<1>. QED BY <1>1, <1>2, <1>3, <1>4, HandlersStay DEF Inv

\* A handler that ends.
LEMMA QuietFinish ==
  ASSUME Inv, NEW s \in Slots, Finish(s),
         UNCHANGED <<inv, txns, enr, sess, captured, hooks, settled>>,
         acked' \in SUBSET Answers
  PROVE  Inv'
<1>1. Replaces(s, IdleRequest)
  BY IdleType DEF Finish, Replaces
<1>2. HandlerInv(IdleRequest) /\ IdleRequest.pc \notin Writing
  BY IdleType DEF HandlerInv, Writing, WebhookPCs, Settling
<1>. QED BY <1>1, <1>2, QuietStep

-----------------------------------------------------------------------------
(***************************************************************************)
(* Requests start with what they need.                                     *)
(***************************************************************************)

LEMMA StartRequestInv ==
  ASSUME Inv, NEW s \in Slots, StartRequest(s)
  PROVE  Inv'
<1> USE ConstantsAssumption
<1>0. TypeOK /\ acked \in SUBSET Answers
  BY DEF Inv, TypeOK
<1>1. ASSUME NEW i \in Invoices, StartInvoiceSession(s, i) PROVE Inv'
  <2> DEFINE h == [IdleRequest EXCEPT !.pc = "createTxn", !.inv = i,
                                      !.student = Owner[i]]
  <2>1. Replaces(s, h) /\ h.pc = "createTxn"
    BY <1>1 DEF StartInvoiceSession, Begin, Replaces, IdleRequest, Handlers, PCs
  <2> HIDE DEF h
  <2>2. HandlerInv(h) /\ h.pc \notin Writing
    BY <2>1 DEF HandlerInv, Writing, WebhookPCs, Settling
  <2>. QED BY <1>0, <1>1, <2>1, <2>2, QuietStep DEF StartInvoiceSession, gateway
<1>2. ASSUME NEW i \in Invoices, StartRefund(s, i) PROVE Inv'
  <2> DEFINE h == [IdleRequest EXCEPT !.pc = "refundCreate", !.inv = i,
                                      !.txn = inv[i].txn]
  <2>1. /\ Replaces(s, h) /\ h.pc = "refundCreate"
        /\ h.inv = i /\ h.txn = inv[i].txn
    BY <1>2 DEF StartRefund, Begin, Replaces, IdleRequest, Handlers, PCs
  <2>2. Backs(inv[i].txn, i)
    BY <1>2 DEF Inv, PaymentIsBacked, Backs, StartRefund
  <2> HIDE DEF h
  <2>3. HandlerInv(h) /\ h.pc \notin Writing
    BY <2>1, <2>2 DEF HandlerInv, Writing, WebhookPCs, Settling
  <2>. QED BY <1>0, <1>2, <2>1, <2>3, QuietStep DEF StartRefund, gateway
<1>3. ASSUME NEW i \in Invoices \cup {None}, NEW st \in Students \cup {None},
             StartSession(s, i, st)
      PROVE  Inv'
  <2>1. CASE \E t \in Newest(MatchesPending(st)) :
               Begin(s, [IdleRequest EXCEPT !.pc = "reuseSession", !.txn = t])
    <3>1. PICK t \in Txns :
             Begin(s, [IdleRequest EXCEPT !.pc = "reuseSession", !.txn = t])
      BY <2>1 DEF Newest, MatchesPending, Pending, Recorded
    <3> DEFINE h == [IdleRequest EXCEPT !.pc = "reuseSession", !.txn = t]
    <3>2. Replaces(s, h) /\ h.pc = "reuseSession" /\ h.txn \in Txns
      BY <3>1 DEF Begin, Replaces, IdleRequest, Handlers, PCs
    <3> HIDE DEF h
    <3>3. HandlerInv(h) /\ h.pc \notin Writing
      BY <3>2 DEF HandlerInv, Writing, WebhookPCs, Settling
    <3>. QED BY <1>0, <1>3, <3>2, <3>3, QuietStep DEF StartSession, gateway
  <2>2. CASE Begin(s, [IdleRequest EXCEPT !.pc = "createTxn", !.inv = i,
                                          !.student = st])
    <3> DEFINE h == [IdleRequest EXCEPT !.pc = "createTxn", !.inv = i,
                                        !.student = st]
    <3>1. Replaces(s, h) /\ h.pc = "createTxn"
      BY <2>2 DEF Begin, Replaces, IdleRequest, Handlers, PCs
    <3> HIDE DEF h
    <3>2. HandlerInv(h) /\ h.pc \notin Writing
      BY <3>1 DEF HandlerInv, Writing, WebhookPCs, Settling
    <3>. QED BY <1>0, <1>3, <3>1, <3>2, QuietStep DEF StartSession, gateway
  <2>. QED BY <1>3, <2>1, <2>2 DEF StartSession
<1>4. ASSUME NEW k \in Trackers, NEW e \in Events, ReceiveWebhook(s, k, e)
      PROVE  Inv'
  <2>1. PICK t \in FindByGatewayTransactionId(HookKey(k)) :
           Begin(s, [IdleRequest EXCEPT !.pc = "updateStatus", !.txn = t,
                                        !.key = k, !.event = e])
    BY <1>4 DEF ReceiveWebhook
  <2>2. t \in Txns /\ txns[t].tracker = HookKey(k)
    BY DEF FindByGatewayTransactionId, Recorded
  <2>3. e = "succeeded" => k \in captured
    BY <1>4 DEF ReceiveWebhook, Inv, TableInv
  <2>4. sess[k].txn \in Txns
    BY <1>4 DEF ReceiveWebhook, Inv, TableInv
  <2>5. HookKey(k) = k
    BY <1>0, <2>2, <2>4 DEF HookKey, TypeOK, TransactionRows
  <2> DEFINE h == [IdleRequest EXCEPT !.pc = "updateStatus", !.txn = t,
                                      !.key = k, !.event = e]
  <2>6. /\ Replaces(s, h) /\ h.pc = "updateStatus"
        /\ h.txn = t /\ h.key = k /\ h.event = e
    BY <2>1, <2>2 DEF Begin, Replaces, IdleRequest, Handlers, PCs
  <2> HIDE DEF h
  <2>7. HandlerInv(h) /\ h.pc \notin Writing
    BY <2>2, <2>3, <2>5, <2>6 DEF HandlerInv, Writing, WebhookPCs, MoneyTaken,
        Settling
  <2>. QED BY <1>0, <1>4, <2>6, <2>7, QuietStep DEF ReceiveWebhook, gateway
<1>5. ASSUME NEW k \in Trackers, NEW e \in Events, WebhookNotFound(s, k, e)
      PROVE  Inv'
  <2>1. req' = [req EXCEPT ![s] = req[s]] /\ req[s] \in Handlers
    BY <1>0, <1>5 DEF WebhookNotFound, TypeOK
  <2>2. HandlerInv(req[s]) /\ req[s].pc = "idle"
    BY <1>5 DEF Inv, WebhookNotFound, Idle
  <2>3. acked' \in SUBSET Answers
    <3>1. <<k, e, FALSE>> \in Answers
      BY DEF Answers
    <3>. QED BY <1>0, <1>5, <3>1 DEF WebhookNotFound
  <2>. QED BY <1>5, <2>1, <2>2, <2>3, QuietStep
           DEF WebhookNotFound, Replaces, Writing
<1>6. ASSUME StartCleanup(s) PROVE Inv'
  <2>1. PICK expired \in SUBSET Txns :
           Begin(s, [IdleRequest EXCEPT !.pc = "cleanup", !.todo = expired])
    <3>1. PICK last \in Txns :
             LET expired == {t \in NewestPending : t <= last}
             IN  Begin(s, [IdleRequest EXCEPT !.pc = "cleanup",
                                              !.todo = expired])
      BY <1>6 DEF StartCleanup
    <3>2. {t \in NewestPending : t <= last} \in SUBSET Txns
      BY DEF NewestPending, Pending, Recorded
    <3>. QED BY <3>1, <3>2
  <2> DEFINE h == [IdleRequest EXCEPT !.pc = "cleanup", !.todo = expired]
  <2>2. Replaces(s, h) /\ h.pc = "cleanup"
    BY <2>1 DEF Begin, Replaces, IdleRequest, Handlers, PCs
  <2> HIDE DEF h
  <2>3. HandlerInv(h) /\ h.pc \notin Writing
    BY <2>2 DEF HandlerInv, Writing, WebhookPCs, Settling
  <2>. QED BY <1>0, <1>6, <2>2, <2>3, QuietStep DEF StartCleanup, gateway
<1>. QED BY <1>1, <1>2, <1>3, <1>4, <1>5, <1>6 DEF StartRequest, Deliver

-----------------------------------------------------------------------------
(***************************************************************************)
(* A new row of payment_transaction disturbs nobody.                       *)
(***************************************************************************)

\* The row is free, and filling it evolves the tables.
LEMMA NewRow ==
  ASSUME Inv, NEW t \in Txns, IsNext(t), NEW e \in TransactionRows,
         txns' = [txns EXCEPT ![t] = e], UNCHANGED <<inv, sess, captured, hooks>>,
         e.tracker = None, e.kind # "absent",
         e.kind = "refund" => Backs(e.of, e.inv)
  PROVE  /\ txns[t].kind = "absent" /\ txns'[t] = e
         /\ Evolves(None)
         /\ txns' \in [Txns -> TransactionRows]
         /\ TableInv' /\ PaymentIsBacked' /\ RefundIsBacked'
<1>1. /\ txns[t].kind = "absent" /\ txns[t].tracker = None
      /\ txns'[t] = e
      /\ \A u \in Txns \ {t} : txns'[u] = txns[u]
      /\ txns' \in [Txns -> TransactionRows]
  BY DEF IsNext, Recorded, Inv, TypeOK, TableInv
<1>2. Evolves(None)
  BY <1>1 DEF Evolves
<1>3. TableInv'
  BY <1>1 DEF Inv, TableInv
<1>4. PaymentIsBacked'
  BY <1>2, PaymentIsBackedStays DEF Inv
<1>5. RefundIsBacked'
  BY <1>1, <1>2, RefundIsBackedStays DEF Inv
<1>. QED BY <1>1, <1>2, <1>3, <1>4, <1>5

LEMMA CreateTransactionInv ==
  ASSUME Inv, NEW s \in Slots, CreateTransaction(s)
  PROVE  Inv'
<1>0. TypeOK /\ req[s] \in Handlers
  BY DEF Inv, TypeOK
<1>1. PICK t \in Txns :
        /\ IsNext(t)
        /\ txns' = [txns EXCEPT ![t] =
              [NoTransaction EXCEPT !.kind = "online", !.inv = req[s].inv,
                                    !.student = req[s].student]]
        /\ req' = [req EXCEPT ![s].pc = "callGateway", ![s].txn = t]
  BY DEF CreateTransaction
<1>2. PICK e : e = [NoTransaction EXCEPT !.kind = "online", !.inv = req[s].inv,
                                         !.student = req[s].student]
  OBVIOUS
<1>3. e \in TransactionRows /\ e.kind = "online" /\ e.tracker = None
  BY <1>0, <1>2
     DEF NoTransaction, TransactionRows, Kinds, TxnStatus, Handlers
<1>4. PICK h : h = [req[s] EXCEPT !.pc = "callGateway", !.txn = t]
  OBVIOUS
<1>5. h \in Handlers /\ h.pc = "callGateway" /\ h.txn = t
  BY <1>0, <1>4 DEF Handlers, PCs
<1>6. Replaces(s, h)
  BY <1>0, <1>1, <1>4, <1>5 DEF Replaces, TypeOK
<1>7. UNCHANGED <<inv, enr, sess, captured, hooks, acked, settled>>
  BY DEF CreateTransaction, gateway
<1>8. /\ txns[t].kind = "absent" /\ txns'[t] = e
      /\ Evolves(None) /\ txns' \in [Txns -> TransactionRows]
      /\ TableInv' /\ PaymentIsBacked' /\ RefundIsBacked'
  BY <1>1, <1>2, <1>3, <1>7, NewRow
<1>9. HandlerInv(h)'
  BY <1>3, <1>5, <1>8 DEF HandlerInv, WebhookPCs, Settling
<1>10. (\A q \in Slots : HandlerInv(req[q]))' /\ OneWriter'
  BY <1>5, <1>6, <1>8, <1>9, HandlersStay
<1>11. TypeOK'
  BY <1>0, <1>6, <1>7, <1>8 DEF TypeOK, Replaces
<1>. QED BY <1>8, <1>10, <1>11 DEF Inv

\* A session of the gateway is opened for transaction t.
LEMMA OpenSessionEffect ==
  ASSUME Inv, NEW t \in Txns, NEW k \in Trackers, NEW b \in BOOLEAN,
         OpenSession(t, k, b), UNCHANGED <<inv, txns, captured, hooks>>
  PROVE  /\ sess'[k].txn = t
         /\ sess' \in [Trackers -> [txn : Txns \cup {None}, handed : BOOLEAN]]
         /\ Evolves(None)
         /\ TableInv' /\ PaymentIsBacked' /\ RefundIsBacked'
<1>1. /\ sess[k].txn = None /\ sess'[k] = [txn |-> t, handed |-> b]
      /\ \A j \in Trackers \ {k} : sess'[j] = sess[j]
  BY DEF OpenSession, Inv, TypeOK
<1>2. sess' \in [Trackers -> [txn : Txns \cup {None}, handed : BOOLEAN]]
  BY DEF OpenSession, Inv, TypeOK
<1>3. Evolves(None)
  BY <1>1, ConstantsAssumption DEF Evolves
<1>4. \A e \in Events : <<k, e>> \notin hooks
  BY <1>1, ConstantsAssumption DEF Inv, TableInv
<1>5. TableInv'
  <2>1. ASSUME NEW u \in Txns, txns[u].tracker # None
        PROVE  txns[u].tracker \in Trackers \ {k}
    BY <1>1, <2>1, ConstantsAssumption DEF Inv, TypeOK, TransactionRows, TableInv
  <2>. QED BY <1>1, <1>4, <2>1 DEF Inv, TableInv
<1>6. PaymentIsBacked' /\ RefundIsBacked'
  BY DEF Inv, PaymentIsBacked, RefundIsBacked, Recorded, MoneyTaken
<1>. QED BY <1>1, <1>2, <1>3, <1>5, <1>6

LEMMA CallGatewayInv ==
  ASSUME Inv, NEW s \in Slots, CallGateway(s)
  PROVE  Inv'
<1>0. /\ TypeOK /\ req[s] \in Handlers /\ HandlerInv(req[s])
      /\ req[s].pc = "callGateway"
  BY DEF Inv, TypeOK, CallGateway, At
<1>1. PICK k \in Trackers :
        /\ OpenSession(req[s].txn, k, FALSE)
        /\ req' = [req EXCEPT ![s].pc = "storeTracker", ![s].key = k]
  BY DEF CallGateway
<1>2. PICK h : h = [req[s] EXCEPT !.pc = "storeTracker", !.key = k]
  OBVIOUS
<1>3. /\ h \in Handlers /\ h.pc = "storeTracker"
      /\ h.txn = req[s].txn /\ h.key = k
  BY <1>0, <1>2 DEF Handlers, PCs
<1>4. Replaces(s, h)
  BY <1>0, <1>1, <1>2, <1>3 DEF Replaces, TypeOK
<1>5. UNCHANGED <<inv, txns, enr, captured, hooks, acked, settled>>
  BY DEF CallGateway
<1>6. req[s].txn \in Txns
  BY <1>0 DEF HandlerInv, Writing
<1>7. /\ sess'[k].txn = req[s].txn
      /\ sess' \in [Trackers -> [txn : Txns \cup {None}, handed : BOOLEAN]]
      /\ Evolves(None)
      /\ TableInv' /\ PaymentIsBacked' /\ RefundIsBacked'
  BY <1>1, <1>5, <1>6, OpenSessionEffect
<1>8. HandlerInv(h)'
  BY <1>0, <1>3, <1>5, <1>6, <1>7 DEF HandlerInv, Writing, WebhookPCs, Settling
<1>9. (\A q \in Slots : HandlerInv(req[q]))' /\ OneWriter'
  BY <1>0, <1>3, <1>4, <1>7, <1>8, HandlersStay DEF Writing
<1>10. TypeOK'
  BY <1>0, <1>4, <1>5, <1>7 DEF TypeOK, Replaces
<1>. QED BY <1>7, <1>9, <1>10 DEF Inv

LEMMA ReuseSessionInv ==
  ASSUME Inv, NEW s \in Slots, ReuseSession(s)
  PROVE  Inv'
<1>0. /\ TypeOK /\ req[s].txn \in Txns
  BY DEF Inv, ReuseSession, At, HandlerInv
<1>1. PICK k \in Trackers : OpenSession(req[s].txn, k, TRUE)
  BY DEF ReuseSession
<1>2. Replaces(s, IdleRequest)
  BY IdleType DEF ReuseSession, Finish, Replaces
<1>3. UNCHANGED <<inv, txns, enr, captured, hooks, acked, settled>>
  BY DEF ReuseSession
<1>4. /\ sess' \in [Trackers -> [txn : Txns \cup {None}, handed : BOOLEAN]]
      /\ Evolves(None)
      /\ TableInv' /\ PaymentIsBacked' /\ RefundIsBacked'
  BY <1>0, <1>1, <1>3, OpenSessionEffect
<1>5. HandlerInv(IdleRequest)' /\ IdleRequest.pc \notin Writing
  BY IdleType DEF HandlerInv, WebhookPCs, Writing, Settling
<1>6. (\A q \in Slots : HandlerInv(req[q]))' /\ OneWriter'
  BY <1>2, <1>4, <1>5, HandlersStay
<1>7. TypeOK'
  BY <1>0, <1>2, <1>3, <1>4 DEF TypeOK, Replaces
<1>. QED BY <1>4, <1>6, <1>7 DEF Inv

\* The only write of a session id: the transaction had none, and no other
\* handler is about to write one.
LEMMA StoreTrackerInv ==
  ASSUME Inv, NEW s \in Slots, StoreTracker(s)
  PROVE  Inv'
<1>0. TypeOK /\ HandlerInv(req[s]) /\ req[s].pc = "storeTracker"
  BY DEF Inv, StoreTracker, At
<1>1. PICK t \in Txns, k \in Trackers : t = req[s].txn /\ k = req[s].key
  BY <1>0 DEF HandlerInv, Writing
<1>2. /\ txns[t].kind = "online" /\ txns[t].tracker = None
      /\ sess[k].txn = t
  BY <1>0, <1>1 DEF HandlerInv, Writing
<1>3. /\ txns' = [txns EXCEPT ![t] = [@ EXCEPT !.tracker = k]]
      /\ sess' = [sess EXCEPT ![k] = [@ EXCEPT !.handed = TRUE]]
  BY <1>1 DEF StoreTracker
<1>4. /\ txns'[t] = [txns[t] EXCEPT !.tracker = k]
      /\ \A u \in Txns \ {t} : txns'[u] = txns[u]
      /\ txns' \in [Txns -> TransactionRows]
  BY <1>0, <1>3 DEF TypeOK, TransactionRows
<1>5. /\ sess'[k].txn = sess[k].txn
      /\ \A j \in Trackers \ {k} : sess'[j] = sess[j]
      /\ sess'[k].handed
  BY <1>0, <1>3 DEF TypeOK
<1>6. sess' \in [Trackers -> [txn : Txns \cup {None}, handed : BOOLEAN]]
  BY <1>0, <1>3 DEF TypeOK
<1>7. Replaces(s, IdleRequest)
  BY IdleType DEF StoreTracker, Finish, Replaces
<1>8. UNCHANGED <<inv, enr, captured, hooks, acked, settled>>
  BY DEF StoreTracker
<1>9. /\ txns'[t].kind = "online" /\ txns'[t].inv = txns[t].inv
      /\ txns'[t].of = txns[t].of
  BY <1>0, <1>2, <1>4 DEF TypeOK, TransactionRows
<1>10. Evolves(t)
  BY <1>2, <1>4, <1>5, <1>8, <1>9 DEF Evolves
<1>11. TableInv'
  <2>1. ASSUME NEW u \in Txns
        PROVE  /\ txns'[u].tracker # None =>
                     txns'[u].kind = "online" /\ sess'[txns'[u].tracker].txn = u
               /\ txns'[u].kind = "absent" => txns'[u].inv = None
    <3>1. CASE u = t
      BY <1>2, <1>4, <1>5, <1>9, <3>1 DEF TransactionRows
    <3>2. CASE u # t
      <4>1. txns'[u] = txns[u] /\ txns[u].tracker \in Trackers \cup {None}
        BY <1>0, <1>4, <3>2 DEF TypeOK, TransactionRows
      <4>2. \A j \in Trackers : sess'[j].txn = sess[j].txn
        BY <1>5
      <4>. QED BY <4>1, <4>2 DEF Inv, TableInv
    <3>. QED BY <3>1, <3>2
  <2>2. ASSUME NEW j \in Trackers, sess'[j].handed
        PROVE  sess'[j].txn \in Txns
    BY <1>2, <1>5, <2>2 DEF Inv, TableInv
  <2>3. ASSUME NEW j \in Trackers, NEW e \in Events, <<j, e>> \in hooks
        PROVE  sess'[j].handed /\ (e = "succeeded" => j \in captured)
    BY <1>5, <2>3 DEF Inv, TableInv
  <2>. QED BY <1>8, <2>1, <2>2, <2>3 DEF TableInv
<1>12. PaymentIsBacked'
  BY <1>8, <1>10, PaymentIsBackedStays DEF Inv
<1>13. RefundIsBacked'
  BY <1>4, <1>9, <1>10, RefundIsBackedStays DEF Inv
<1>14. HandlerInv(IdleRequest)' /\ IdleRequest.pc \notin Writing
  BY IdleType DEF HandlerInv, WebhookPCs, Writing, Settling
<1>15. (\A q \in Slots : HandlerInv(req[q]))' /\ OneWriter'
  BY <1>0, <1>1, <1>7, <1>10, <1>14, HandlersStay DEF Writing
<1>16. TypeOK'
  BY <1>0, <1>4, <1>6, <1>7, <1>8 DEF TypeOK, Replaces
<1>. QED BY <1>11, <1>12, <1>13, <1>15, <1>16 DEF Inv

-----------------------------------------------------------------------------
(***************************************************************************)
(* Writes of a status disturb nobody, whoever does them.                   *)
(***************************************************************************)

\* The status of a transaction.
LEMMA StatusWrite ==
  ASSUME Inv, NEW t \in Txns, NEW status \in TxnStatus,
         txns' = [txns EXCEPT ![t].status = status],
         UNCHANGED <<inv, sess, captured, hooks>>
  PROVE  /\ Evolves(None)
         /\ txns' \in [Txns -> TransactionRows]
         /\ TableInv' /\ PaymentIsBacked' /\ RefundIsBacked'
<1>1. /\ txns' \in [Txns -> TransactionRows]
      /\ \A u \in Txns : /\ txns'[u].kind = txns[u].kind
                         /\ txns'[u].inv = txns[u].inv
                         /\ txns'[u].tracker = txns[u].tracker
                         /\ txns'[u].of = txns[u].of
  BY DEF Inv, TypeOK, TransactionRows
<1>2. Evolves(None)
  BY <1>1 DEF Evolves
<1>3. TableInv'
  BY <1>1 DEF Inv, TableInv
<1>4. PaymentIsBacked'
  BY <1>2, PaymentIsBackedStays DEF Inv
<1>5. RefundIsBacked'
  BY <1>1, <1>2, RefundIsBackedStays DEF Inv
<1>. QED BY <1>1, <1>2, <1>3, <1>4, <1>5

\* A handler writes the status of a transaction and goes on as h.
LEMMA StatusStep ==
  ASSUME Inv, NEW t \in Txns, NEW status \in TxnStatus,
         txns' = [txns EXCEPT ![t].status = status],
         NEW s \in Slots, NEW h, Replaces(s, h), HandlerInv(h),
         h.pc \notin Writing,
         UNCHANGED <<inv, enr, sess, captured, hooks, settled>>,
         acked' \in SUBSET Answers
  PROVE  Inv'
<1>1. /\ Evolves(None) /\ txns' \in [Txns -> TransactionRows]
      /\ TableInv' /\ PaymentIsBacked' /\ RefundIsBacked'
  BY StatusWrite
<1>2. HandlerInv(h)'
  BY <1>1, HandlerStays DEF Inv
<1>3. TypeOK'
  BY <1>1 DEF Inv, TypeOK, Replaces
<1>. QED BY <1>1, <1>2, <1>3, HandlersStay DEF Inv

\* Invoices are written, and may come to name a payment that backs them.
InvoicesWritten ==
    /\ inv' \in [Invoices -> InvoiceRows]
    /\ \A i \in Invoices : \/ inv'[i].txn = inv[i].txn
                           \/ inv'[i].txn \notin Txns
                           \/ Backs(inv'[i].txn, i)
    /\ enr' \in [Invoices -> {"pending_payment", "active"}]
    /\ settled' \in SUBSET Txns
    /\ acked' \in SUBSET Answers
    /\ UNCHANGED <<txns, sess, captured, hooks>>

LEMMA InvoicesWrittenTables ==
  ASSUME Inv, InvoicesWritten
  PROVE  Evolves(None) /\ TableInv' /\ PaymentIsBacked' /\ RefundIsBacked'
<1>1. Evolves(None)
  BY EvolvesQuiet DEF InvoicesWritten
<1>2. PaymentIsBacked'
  BY <1>1, PaymentIsBackedStays DEF InvoicesWritten, Inv
<1>3. TableInv' /\ RefundIsBacked'
  BY DEF InvoicesWritten, Inv, TableInv, RefundIsBacked, Recorded, MoneyTaken
<1>. QED BY <1>1, <1>2, <1>3

\* ... by a handler that goes on as h.
LEMMA InvoiceStep ==
  ASSUME Inv, InvoicesWritten,
         NEW s \in Slots, NEW h, Replaces(s, h), HandlerInv(h),
         h.pc \notin Writing
  PROVE  Inv'
<1>1. Evolves(None) /\ TableInv' /\ PaymentIsBacked' /\ RefundIsBacked'
  BY InvoicesWrittenTables
<1>2. HandlerInv(h)'
  BY <1>1, HandlerStays DEF Inv
<1>3. TypeOK'
  BY DEF Inv, TypeOK, Replaces, InvoicesWritten
<1>. QED BY <1>1, <1>2, <1>3, HandlersStay DEF Inv

\* ... by staff.
LEMMA StaffStep ==
  ASSUME Inv, InvoicesWritten, UNCHANGED req
  PROVE  Inv'
<1>1. Evolves(None) /\ TableInv' /\ PaymentIsBacked' /\ RefundIsBacked'
  BY InvoicesWrittenTables
<1>2. TypeOK'
  BY DEF Inv, TypeOK, InvoicesWritten
<1>. QED BY <1>1, <1>2, AllHandlersStay DEF Inv

\* Writing the status of an invoice leaves what it names as its payment.
LEMMA StatusOnly ==
  ASSUME Inv, NEW i, NEW status \in InvoiceStatus,
         inv' = [inv EXCEPT ![i].status = status] \/ inv' = inv
  PROVE  /\ inv' \in [Invoices -> InvoiceRows]
         /\ \A j \in Invoices : inv'[j].txn = inv[j].txn
<1>1. CASE inv' = inv
  BY <1>1 DEF Inv, TypeOK
<1>2. CASE i \in Invoices /\ inv' = [inv EXCEPT ![i].status = status]
  <2>1. [inv[i] EXCEPT !.status = status] \in InvoiceRows
    BY <1>2, InvoiceUpdate DEF Inv, TypeOK
  <2>2. inv' \in [Invoices -> InvoiceRows]
    BY <1>2, <2>1 DEF Inv, TypeOK
  <2>. QED BY <1>2, <2>2 DEF Inv, TypeOK, InvoiceRows
<1>3. CASE i \notin Invoices /\ inv' = [inv EXCEPT ![i].status = status]
  BY <1>3 DEF Inv, TypeOK
<1>. QED BY <1>1, <1>2, <1>3

-----------------------------------------------------------------------------
(***************************************************************************)
(* Webhooks.                                                               *)
(***************************************************************************)

\* What a webhook handler has in hand, and that its answer is for a webhook.
LEMMA WebhookFacts ==
  ASSUME Inv, NEW s \in Slots, req[s].pc \in WebhookPCs
  PROVE  /\ req[s] \in Handlers /\ HandlerInv(req[s])
         /\ req[s].txn \in Txns /\ req[s].key \in Trackers
         /\ req[s].event \in Events
         /\ req[s].event = "succeeded" => MoneyTaken(req[s].txn)
         /\ acked \in SUBSET Answers
         /\ \A ok \in BOOLEAN : Ack(s, ok) => acked' \in SUBSET Answers
         /\ \A i \in Invoices : inv[i].live \in BOOLEAN
<1>1. /\ req[s] \in Handlers /\ HandlerInv(req[s]) /\ acked \in SUBSET Answers
  BY DEF Inv, TypeOK
<1>2. /\ req[s].txn \in Txns /\ req[s].key \in Trackers
      /\ req[s].event \in Events
      /\ req[s].event = "succeeded" => MoneyTaken(req[s].txn)
  BY <1>1 DEF HandlerInv
<1>3. \A ok \in BOOLEAN : Ack(s, ok) => acked' \in SUBSET Answers
  BY <1>1, <1>2 DEF Ack, Answers
<1>4. ASSUME NEW i \in Invoices PROVE inv[i].live \in BOOLEAN
  BY DEF Inv, TypeOK, InvoiceRows
<1>. QED BY <1>1, <1>2, <1>3, <1>4

\* The handler of a webhook goes on, with its data, or ends.
LEMMA WebhookNext ==
  ASSUME Inv, NEW s \in Slots, req[s].pc \in WebhookPCs, NEW pc \in WebhookPCs,
         Goto(s, pc) \/ Finish(s),
         Goto(s, pc) /\ pc \in Settling =>
             txns[req[s].txn].inv \in Invoices /\ MoneyTaken(req[s].txn),
         Goto(s, pc) /\ pc \in {"failure", "failureWrite"} =>
             txns[req[s].txn].inv \in Invoices
  PROVE  \E h : Replaces(s, h) /\ HandlerInv(h) /\ h.pc \notin Writing
<1>1. CASE Finish(s)
  <2>1. Replaces(s, IdleRequest)
    BY <1>1, IdleType DEF Finish, Replaces
  <2>2. HandlerInv(IdleRequest) /\ IdleRequest.pc \notin Writing
    BY IdleType DEF HandlerInv, Writing, WebhookPCs, Settling
  <2>. QED BY <2>1, <2>2
<1>2. CASE Goto(s, pc)
  <2>1. PICK h : h = [req[s] EXCEPT !.pc = pc]
    OBVIOUS
  <2>2. req[s] \in Handlers /\ pc \in PCs
    BY WebhookFacts DEF WebhookPCs, PCs
  <2>3. /\ h \in Handlers /\ h.pc = pc /\ h.txn = req[s].txn
        /\ h.key = req[s].key /\ h.event = req[s].event
    BY <2>1, <2>2 DEF Handlers
  <2>4. Replaces(s, h)
    BY <1>2, <2>1, <2>3 DEF Replaces, Goto, Inv, TypeOK
  <2>5. h.pc \notin Writing
    BY <2>3 DEF Writing, WebhookPCs
  <2>6. HandlerInv(h)
    BY <1>2, <2>3, WebhookFacts DEF HandlerInv, Writing, WebhookPCs
  <2>. QED BY <2>4, <2>5, <2>6
<1>. QED BY <1>1, <1>2

LEMMA UpdateTransactionStatusInv ==
  ASSUME Inv, NEW s \in Slots, UpdateTransactionStatus(s)
  PROVE  Inv'
<1> DEFINE e == req[s].event
<1>0. req[s].pc = "updateStatus" /\ req[s].pc \in WebhookPCs
  BY DEF UpdateTransactionStatus, At, WebhookPCs
<1>1. /\ req[s].txn \in Txns /\ e \in Events
      /\ e = "succeeded" => MoneyTaken(req[s].txn)
      /\ acked \in SUBSET Answers
      /\ \A ok \in BOOLEAN : Ack(s, ok) => acked' \in SUBSET Answers
  BY <1>0, WebhookFacts
<1>2. PICK t \in Txns, status \in TxnStatus :
        t = req[s].txn /\ txns' = [txns EXCEPT ![t].status = status]
  <2>1. EventStatus[e] \in TxnStatus
    BY <1>1, ConstantsAssumption DEF EventStatus, TxnStatus
  <2>. QED BY <1>1, <2>1 DEF UpdateTransactionStatus
<1>3. /\ UNCHANGED <<inv, enr, sess, captured, hooks, settled>>
      /\ acked' \in SUBSET Answers
  BY <1>1 DEF UpdateTransactionStatus
<1>4. \E h : Replaces(s, h) /\ HandlerInv(h) /\ h.pc \notin Writing
  <2>1. CASE txns[t].inv # None /\ e \in {"succeeded", "failed"}
    <3>1. txns[t].inv \in Invoices
      BY <2>1 DEF Inv, TypeOK, TransactionRows
    <3>2. CASE e = "succeeded"
      <4>1. Goto(s, "handleSuccess")
        BY <1>2, <2>1, <3>2 DEF UpdateTransactionStatus
      <4>. QED BY <1>0, <1>1, <1>2, <3>1, <3>2, <4>1, WebhookNext DEF WebhookPCs
    <3>3. CASE e = "failed"
      <4>1. Goto(s, "failure")
        BY <1>2, <2>1, <3>3 DEF UpdateTransactionStatus
      <4>. QED BY <1>0, <1>2, <3>1, <4>1, WebhookNext DEF WebhookPCs, Settling
    <3>. QED BY <2>1, <3>2, <3>3
  <2>2. CASE ~(txns[t].inv # None /\ e \in {"succeeded", "failed"})
    <3>1. Finish(s)
      BY <1>2, <2>2 DEF UpdateTransactionStatus
    <3>2. Replaces(s, IdleRequest)
      BY <3>1, IdleType DEF Finish, Replaces
    <3>3. HandlerInv(IdleRequest) /\ IdleRequest.pc \notin Writing
      BY IdleType DEF HandlerInv, Writing, WebhookPCs, Settling
    <3>. QED BY <3>2, <3>3
  <2>. QED BY <2>1, <2>2
<1>. QED BY <1>2, <1>3, <1>4, StatusStep

\* processPaymentSuccess writes no invoice but the transaction's own, and the
\* money was taken.
LEMMA ProcessPaymentSuccessWrites ==
  ASSUME Inv, NEW t \in Txns, txns[t].inv \in Invoices, MoneyTaken(t),
         ProcessPaymentSuccess(t), acked' \in SUBSET Answers,
         UNCHANGED <<txns, sess, captured, hooks>>
  PROVE  InvoicesWritten
<1> DEFINE i == txns[t].inv
<1>1. CASE inv[i].live
  <2>1. /\ inv' = [inv EXCEPT ![i] = [@ EXCEPT !.status = "paid", !.txn = t]]
        /\ settled' = settled \cup {t}
        /\ enr' = [enr EXCEPT ![i] = "active"] \/ enr' = enr
    BY <1>1 DEF ProcessPaymentSuccess, ActivateEnrollmentsForInvoice,
                SavedDescription
  <2>2. inv' \in [Invoices -> InvoiceRows]
    <3>1. [inv[i] EXCEPT !.status = "paid"] \in InvoiceRows
      BY InvoiceUpdate DEF Inv, TypeOK, InvoiceStatus
    <3>2. [[inv[i] EXCEPT !.status = "paid"] EXCEPT !.txn = t] \in InvoiceRows
      BY <3>1, InvoiceUpdate
    <3>. QED BY <2>1, <3>2 DEF Inv, TypeOK
  <2>3. enr' \in [Invoices -> {"pending_payment", "active"}]
        /\ settled' \in SUBSET Txns
    BY <2>1 DEF Inv, TypeOK
  <2>4. Backs(t, i)
    BY TakenIsOnline DEF Backs, Inv
  <2>5. inv'[i].txn = t /\ \A j \in Invoices \ {i} : inv'[j] = inv[j]
    BY <2>1 DEF Inv, TypeOK, InvoiceRows
  <2>. QED BY <2>2, <2>3, <2>4, <2>5 DEF InvoicesWritten
<1>2. CASE ~inv[i].live
  BY <1>2 DEF ProcessPaymentSuccess, InvoicesWritten, Inv, TypeOK
<1>. QED BY <1>1, <1>2

LEMMA WebhookStepInv ==
  ASSUME Inv, NEW s \in Slots, WebhookStep(s)
  PROVE  Inv'
<1>1. CASE UpdateTransactionStatus(s)
  BY <1>1, UpdateTransactionStatusInv
<1>2. CASE HandleSuccessfulPayment(s)
  <2>0. req[s].pc = "handleSuccess" /\ req[s].pc \in WebhookPCs
    BY <1>2 DEF HandleSuccessfulPayment, At, WebhookPCs
  <2>1. /\ req[s].txn \in Txns /\ acked \in SUBSET Answers
        /\ txns[req[s].txn].inv \in Invoices /\ MoneyTaken(req[s].txn)
    BY <2>0, WebhookFacts DEF HandlerInv, Settling
  <2>2. InvoicesWritten
    BY <1>2, <2>1, ProcessPaymentSuccessWrites
       DEF HandleSuccessfulPayment, gateway
  <2>3. Goto(s, "processSuccess")
    BY <1>2 DEF HandleSuccessfulPayment
  <2>. QED BY <2>0, <2>1, <2>2, <2>3, WebhookNext, InvoiceStep DEF WebhookPCs
<1>3. CASE ProcessInvoicePayment(s)
  <2>0. req[s].pc = "processSuccess" /\ req[s].pc \in WebhookPCs
    BY <1>3 DEF ProcessInvoicePayment, At, WebhookPCs
  <2>1. /\ txns[req[s].txn].inv \in Invoices /\ MoneyTaken(req[s].txn)
        /\ acked \in SUBSET Answers
        /\ \A ok \in BOOLEAN : Ack(s, ok) => acked' \in SUBSET Answers
    BY <2>0, WebhookFacts DEF HandlerInv, Settling
  <2>2. acked' \in SUBSET Answers
    BY <1>3, <2>1 DEF ProcessInvoicePayment
  <2>3. Goto(s, "processWrite") \/ Finish(s)
    BY <1>3 DEF ProcessInvoicePayment
  <2>4. UNCHANGED <<inv, txns, enr, sess, captured, hooks, settled>>
    BY <1>3 DEF ProcessInvoicePayment
  <2>5. PICK h : Replaces(s, h) /\ HandlerInv(h) /\ h.pc \notin Writing
    BY <2>0, <2>1, <2>3, WebhookNext DEF WebhookPCs
  <2>. QED BY <2>2, <2>4, <2>5, QuietStep
<1>6. CASE WritePaidInvoice(s)
  <2>0. req[s].pc = "processWrite" /\ req[s].pc \in WebhookPCs
    BY <1>6 DEF WritePaidInvoice, At, WebhookPCs
  <2>1. /\ req[s].txn \in Txns /\ acked' \in SUBSET Answers
        /\ txns[req[s].txn].inv \in Invoices /\ MoneyTaken(req[s].txn)
    BY <1>6, <2>0, WebhookFacts DEF HandlerInv, WritePaidInvoice, Settling
  <2>2. InvoicesWritten
    BY <1>6, <2>1, ProcessPaymentSuccessWrites DEF WritePaidInvoice
  <2>3. Replaces(s, IdleRequest)
    BY <1>6, IdleType DEF WritePaidInvoice, Finish, Replaces
  <2>4. HandlerInv(IdleRequest) /\ IdleRequest.pc \notin Writing
    BY IdleType DEF HandlerInv, Writing, WebhookPCs, Settling
  <2>. QED BY <2>2, <2>3, <2>4, InvoiceStep
<1>4. CASE ReadInvoiceOfFailure(s)
  <2>0. req[s].pc = "failure" /\ req[s].pc \in WebhookPCs
    BY <1>4 DEF ReadInvoiceOfFailure, At, WebhookPCs
  <2>1. /\ txns[req[s].txn].inv \in Invoices
        /\ acked \in SUBSET Answers
        /\ \A ok \in BOOLEAN : Ack(s, ok) => acked' \in SUBSET Answers
        /\ \A i \in Invoices : inv[i].live \in BOOLEAN
    BY <2>0, WebhookFacts DEF HandlerInv
  <2>2. acked' \in SUBSET Answers
    BY <1>4, <2>1 DEF ReadInvoiceOfFailure
  <2>3. Goto(s, "failureWrite") \/ Finish(s)
    BY <1>4 DEF ReadInvoiceOfFailure
  <2>4. UNCHANGED <<inv, txns, enr, sess, captured, hooks, settled>>
    BY <1>4 DEF ReadInvoiceOfFailure
  <2>5. PICK h : Replaces(s, h) /\ HandlerInv(h) /\ h.pc \notin Writing
    BY <2>0, <2>1, <2>3, WebhookNext DEF WebhookPCs, Settling
  <2>. QED BY <2>2, <2>4, <2>5, QuietStep
<1>5. CASE WriteInvoiceOfFailure(s)
  <2>0. req[s].pc = "failureWrite" /\ req[s].pc \in WebhookPCs
    BY <1>5 DEF WriteInvoiceOfFailure, At, WebhookPCs
  <2>1. acked' \in SUBSET Answers
    BY <1>5, <2>0, WebhookFacts DEF WriteInvoiceOfFailure, HandlerInv
  <2>2. InvoicesWritten
    <3>1. \/ inv' = [inv EXCEPT ![txns[req[s].txn].inv].status = "sent"]
          \/ inv' = inv
      BY <1>5 DEF WriteInvoiceOfFailure
    <3>. QED BY <1>5, <2>1, <3>1, StatusOnly
             DEF WriteInvoiceOfFailure, InvoicesWritten, Inv, TypeOK,
                 InvoiceStatus
  <2>3. Replaces(s, IdleRequest)
    BY <1>5, IdleType DEF WriteInvoiceOfFailure, Finish, Replaces
  <2>4. HandlerInv(IdleRequest) /\ IdleRequest.pc \notin Writing
    BY IdleType DEF HandlerInv, Writing, WebhookPCs, Settling
  <2>. QED BY <2>2, <2>3, <2>4, InvoiceStep
<1>. QED BY <1>1, <1>2, <1>3, <1>4, <1>5, <1>6 DEF WebhookStep

-----------------------------------------------------------------------------
(***************************************************************************)
(* Refunds, the cleanup, bank transfers and staff.                         *)
(***************************************************************************)

LEMMA CreateRefundInv ==
  ASSUME Inv, NEW s \in Slots, CreateRefund(s)
  PROVE  Inv'
<1>0. /\ TypeOK /\ req[s] \in Handlers /\ HandlerInv(req[s])
      /\ req[s].pc = "refundCreate"
  BY DEF Inv, TypeOK, CreateRefund, At
<1>1. req[s].inv \in Invoices /\ Backs(req[s].txn, req[s].inv)
  BY <1>0 DEF HandlerInv
<1>2. txns[req[s].txn].student \in Students \cup {None}
  BY <1>0, <1>1 DEF Backs, TypeOK, TransactionRows
<1>3. PICK t \in Txns :
        /\ IsNext(t)
        /\ txns' = [txns EXCEPT ![t] =
              [NoTransaction EXCEPT !.kind = "refund", !.status = "refunded",
                                    !.inv = req[s].inv, !.of = req[s].txn,
                                    !.student = txns[req[s].txn].student]]
  BY DEF CreateRefund
<1>4. PICK e : e = [NoTransaction EXCEPT !.kind = "refund",
                                    !.status = "refunded",
                                    !.inv = req[s].inv, !.of = req[s].txn,
                                    !.student = txns[req[s].txn].student]
  OBVIOUS
<1>5. /\ e \in TransactionRows /\ e.kind = "refund" /\ e.tracker = None
      /\ e.of = req[s].txn /\ e.inv = req[s].inv
  BY <1>1, <1>2, <1>4
     DEF NoTransaction, TransactionRows, Kinds, TxnStatus, Backs
<1>6. PICK h : h = [req[s] EXCEPT !.pc = "refundWrite"]
  OBVIOUS
<1>7. h \in Handlers /\ h.pc = "refundWrite" /\ h.inv = req[s].inv
  BY <1>0, <1>6 DEF Handlers, PCs
<1>8. Replaces(s, h)
  BY <1>0, <1>6, <1>7 DEF CreateRefund, Goto, Replaces, TypeOK
<1>9. UNCHANGED <<inv, enr, sess, captured, hooks, acked, settled>>
  BY DEF CreateRefund, gateway
<1>10. /\ Evolves(None) /\ txns' \in [Txns -> TransactionRows]
       /\ TableInv' /\ PaymentIsBacked' /\ RefundIsBacked'
  BY <1>1, <1>3, <1>4, <1>5, <1>9, NewRow
<1>11. HandlerInv(h)' /\ h.pc \notin Writing
  BY <1>1, <1>7 DEF HandlerInv, Writing, WebhookPCs, Settling
<1>12. (\A q \in Slots : HandlerInv(req[q]))' /\ OneWriter'
  BY <1>8, <1>10, <1>11, HandlersStay
<1>13. TypeOK'
  BY <1>0, <1>8, <1>9, <1>10 DEF TypeOK, Replaces
<1>. QED BY <1>10, <1>12, <1>13 DEF Inv

LEMMA WriteInvoiceOfRefundInv ==
  ASSUME Inv, NEW s \in Slots, WriteInvoiceOfRefund(s)
  PROVE  Inv'
<1>1. \/ inv' = [inv EXCEPT ![req[s].inv].status = "overdue"]
      \/ inv' = inv
  BY DEF WriteInvoiceOfRefund
<1>2. InvoicesWritten
  BY <1>1, StatusOnly
     DEF WriteInvoiceOfRefund, InvoicesWritten, Inv, TypeOK, InvoiceStatus,
         gateway
<1>3. Replaces(s, IdleRequest)
  BY IdleType DEF WriteInvoiceOfRefund, Finish, Replaces
<1>4. HandlerInv(IdleRequest) /\ IdleRequest.pc \notin Writing
  BY IdleType DEF HandlerInv, Writing, WebhookPCs, Settling
<1>. QED BY <1>2, <1>3, <1>4, InvoiceStep

LEMMA CancelExpiredInv ==
  ASSUME Inv, NEW s \in Slots, CancelExpired(s)
  PROVE  Inv'
<1>0. /\ TypeOK /\ req[s] \in Handlers /\ req[s].pc = "cleanup"
  BY DEF Inv, TypeOK, CancelExpired, At
<1>1. PICK t \in Newest(req[s].todo) :
        /\ txns' = [txns EXCEPT ![t].status = "cancelled"]
        /\ IF req[s].todo = {t}
           THEN Finish(s)
           ELSE req' = [req EXCEPT ![s].todo = @ \ {t}]
  BY DEF CancelExpired
<1>2. t \in Txns /\ "cancelled" \in TxnStatus
  BY <1>0 DEF Newest, Handlers, TxnStatus
<1>3. \E h : Replaces(s, h) /\ HandlerInv(h) /\ h.pc \notin Writing
  <2>1. CASE Finish(s)
    <3>1. Replaces(s, IdleRequest)
      BY <2>1, IdleType DEF Finish, Replaces
    <3>2. HandlerInv(IdleRequest) /\ IdleRequest.pc \notin Writing
      BY IdleType DEF HandlerInv, Writing, WebhookPCs, Settling
    <3>. QED BY <3>1, <3>2
  <2>2. CASE req' = [req EXCEPT ![s].todo = @ \ {t}]
    <3>1. PICK h : h = [req[s] EXCEPT !.todo = @ \ {t}]
      OBVIOUS
    <3>2. h \in Handlers /\ h.pc = "cleanup"
      BY <1>0, <3>1 DEF Handlers
    <3>3. Replaces(s, h)
      BY <1>0, <2>2, <3>1, <3>2 DEF Replaces, TypeOK
    <3>4. HandlerInv(h) /\ h.pc \notin Writing
      BY <3>2 DEF HandlerInv, Writing, WebhookPCs, Settling
    <3>. QED BY <3>3, <3>4
  <2>. QED BY <1>1, <2>1, <2>2
<1>4. /\ UNCHANGED <<inv, enr, sess, captured, hooks, settled>>
      /\ acked' \in SUBSET Answers
  BY <1>0 DEF CancelExpired, gateway, TypeOK
<1>. QED BY <1>1, <1>2, <1>3, <1>4, StatusStep

LEMMA BankTransferInv ==
  ASSUME Inv, BankTransfer
  PROVE  Inv'
<1>0. TypeOK
  BY DEF Inv
<1>1. ASSUME NEW i \in Invoices, CreateBankTransferPayment(i) PROVE Inv'
  <2>1. PICK t \in Txns :
          /\ IsNext(t)
          /\ txns' = [txns EXCEPT ![t] =
                [NoTransaction EXCEPT !.kind = "bank", !.inv = i,
                                      !.student = Owner[i]]]
    BY <1>1 DEF CreateBankTransferPayment
  <2>2. PICK e : e = [NoTransaction EXCEPT !.kind = "bank", !.inv = i,
                                           !.student = Owner[i]]
    OBVIOUS
  <2>3. e \in TransactionRows /\ e.kind = "bank" /\ e.tracker = None
    BY <2>2, ConstantsAssumption
       DEF NoTransaction, TransactionRows, Kinds, TxnStatus
  <2>4. UNCHANGED <<inv, enr, req, sess, captured, hooks, acked, settled>>
    BY <1>1 DEF CreateBankTransferPayment, gateway
  <2>5. /\ Evolves(None) /\ txns' \in [Txns -> TransactionRows]
        /\ TableInv' /\ PaymentIsBacked' /\ RefundIsBacked'
    BY <2>1, <2>2, <2>3, <2>4, NewRow
  <2>6. TypeOK'
    BY <1>0, <2>4, <2>5 DEF TypeOK
  <2>. QED BY <2>4, <2>5, <2>6, AllHandlersStay DEF Inv
<1>2. ASSUME NEW t \in Txns, NEW status \in {"completed", "pending"},
             UpdateBankTransferStatus(t, status)
      PROVE  Inv'
  <2>1. UNCHANGED <<inv, enr, req, sess, captured, hooks, acked, settled>>
    BY <1>2 DEF UpdateBankTransferStatus, gateway
  <2>2. status \in TxnStatus
    BY DEF TxnStatus
  <2>3. /\ Evolves(None) /\ txns' \in [Txns -> TransactionRows]
        /\ TableInv' /\ PaymentIsBacked' /\ RefundIsBacked'
    BY <1>2, <2>1, <2>2, StatusWrite DEF UpdateBankTransferStatus
  <2>4. TypeOK'
    BY <1>0, <2>1, <2>3 DEF TypeOK
  <2>. QED BY <2>1, <2>3, <2>4, AllHandlersStay DEF Inv
<1>. QED BY <1>1, <1>2 DEF BankTransfer

LEMMA StaffInv ==
  ASSUME Inv, Staff
  PROVE  Inv'
<1>0. /\ TypeOK
      /\ enr \in [Invoices -> {"pending_payment", "active"}]
      /\ settled \in SUBSET Txns /\ acked \in SUBSET Answers
  BY DEF Inv, TypeOK
<1>1. ASSUME NEW i \in Invoices, NEW status \in InvoiceStatus,
             UpdateInvoice(i, status)
      PROVE  Inv'
  <2>1. inv' = [inv EXCEPT ![i].status = status]
    BY <1>1 DEF UpdateInvoice
  <2>2. InvoicesWritten /\ UNCHANGED req
    BY <1>0, <1>1, <2>1, StatusOnly DEF UpdateInvoice, InvoicesWritten, gateway
  <2>. QED BY <2>2, StaffStep
<1>2. ASSUME NEW i \in Invoices, NEW ref \in {None, External}, MarkAsPaid(i, ref)
      PROVE  Inv'
  <2>1. PICK x \in {inv[i].txn, ref} :
           /\ inv' = [inv EXCEPT ![i] = [@ EXCEPT !.status = "paid", !.txn = x]]
           /\ x = inv[i].txn \/ x = External
    BY <1>2 DEF MarkAsPaid
  <2>2. inv[i] \in InvoiceRows /\ x \in Txns \cup {None, External}
    BY <1>0, <2>1 DEF TypeOK, InvoiceRows
  <2>3. [inv[i] EXCEPT !.status = "paid"] \in InvoiceRows
    BY <2>2, InvoiceUpdate DEF InvoiceStatus
  <2>4. [[inv[i] EXCEPT !.status = "paid"] EXCEPT !.txn = x] \in InvoiceRows
    BY <2>2, <2>3, InvoiceUpdate
  <2>5. inv' \in [Invoices -> InvoiceRows]
    BY <1>0, <2>1, <2>4 DEF TypeOK
  <2>6. inv'[i].txn = x /\ \A j \in Invoices \ {i} : inv'[j] = inv[j]
    BY <1>0, <2>1, <2>2 DEF TypeOK, InvoiceRows
  <2>7. InvoicesWritten /\ UNCHANGED req
    BY <1>0, <1>2, <2>1, <2>5, <2>6, ConstantsAssumption
       DEF MarkAsPaid, InvoicesWritten, gateway
  <2>. QED BY <2>7, StaffStep
<1>3. ASSUME NEW i \in Invoices, ApprovePayment(i) PROVE Inv'
  <2>1. inv' = [inv EXCEPT ![i].status = "paid"] /\ "paid" \in InvoiceStatus
    BY <1>3 DEF ApprovePayment, InvoiceStatus
  <2>2. enr' \in [Invoices -> {"pending_payment", "active"}]
    BY <1>0, <1>3 DEF ApprovePayment, ActivateEnrollmentsForInvoice,
                      SavedDescription
  <2>3. InvoicesWritten /\ UNCHANGED req
    BY <1>0, <1>3, <2>1, <2>2, StatusOnly
       DEF ApprovePayment, InvoicesWritten, gateway
  <2>. QED BY <2>3, StaffStep
<1>4. ASSUME NEW i \in Invoices, RemoveInvoice(i) PROVE Inv'
  <2>1. inv' = [inv EXCEPT ![i] = [@ EXCEPT !.live = FALSE]]
    BY <1>4 DEF RemoveInvoice
  <2>2. inv[i] \in InvoiceRows /\ [inv[i] EXCEPT !.live = FALSE] \in InvoiceRows
    BY <1>0, InvoiceUpdate DEF TypeOK
  <2>3. inv' \in [Invoices -> InvoiceRows]
    BY <1>0, <2>1, <2>2 DEF TypeOK
  <2>4. \A j \in Invoices : inv'[j].txn = inv[j].txn
    BY <1>0, <2>1, <2>2 DEF TypeOK, InvoiceRows
  <2>5. InvoicesWritten /\ UNCHANGED req
    BY <1>0, <1>4, <2>3, <2>4 DEF RemoveInvoice, InvoicesWritten, gateway
  <2>. QED BY <2>5, StaffStep
<1>. QED BY <1>1, <1>2, <1>3, <1>4 DEF Staff

-----------------------------------------------------------------------------
(***************************************************************************)
(* The gateway, failures, and all steps together.                          *)
(***************************************************************************)

LEMMA GatewayEventInv ==
  ASSUME Inv, NEW k \in Trackers, NEW e \in Events, GatewayEvent(k, e)
  PROVE  Inv'
<1>1. /\ UNCHANGED <<inv, txns, enr, req, sess, acked, settled>>
      /\ captured \subseteq captured' /\ captured' \in SUBSET Trackers
      /\ hooks' = hooks \cup {<<k, e>>} /\ hooks' \in SUBSET Hooks
      /\ sess[k].handed
      /\ e = "succeeded" => k \in captured'
  BY DEF GatewayEvent, Inv, TypeOK, Hooks
<1>2. Evolves(None)
  BY <1>1 DEF Evolves
<1>3. TypeOK'
  BY <1>1 DEF Inv, TypeOK
<1>4. TableInv'
  BY <1>1 DEF Inv, TableInv
<1>5. PaymentIsBacked'
  BY <1>1, <1>2, PaymentIsBackedStays DEF Inv
<1>6. RefundIsBacked'
  BY <1>1, <1>2, RefundIsBackedStays DEF Inv
<1>. QED BY <1>1, <1>2, <1>3, <1>4, <1>5, <1>6, AllHandlersStay DEF Inv

LEMMA FailureInv ==
  ASSUME Inv, NEW s \in Slots, RequestFails(s) \/ WebhookDatabaseError(s)
  PROVE  Inv'
<1>0. acked \in SUBSET Answers
  BY DEF Inv, TypeOK
<1>1. CASE RequestFails(s)
  BY <1>0, <1>1, QuietFinish DEF RequestFails, gateway
<1>2. CASE WebhookDatabaseError(s)
  <2>1. /\ req[s].pc \in WebhookPCs
        /\ UNCHANGED <<inv, txns, enr, sess, captured, hooks, settled>>
    BY <1>2 DEF WebhookDatabaseError
  <2>2. \A ok \in BOOLEAN : Ack(s, ok) => acked' \in SUBSET Answers
    BY <2>1, WebhookFacts
  <2>3. CASE At(s, "handleSuccess")
    <3>1. Goto(s, "processSuccess") /\ UNCHANGED acked
      BY <1>2, <2>3 DEF WebhookDatabaseError
    <3>2. txns[req[s].txn].inv \in Invoices /\ MoneyTaken(req[s].txn)
      BY <2>1, <2>3, WebhookFacts DEF HandlerInv, At, Settling
    <3>3. PICK h : Replaces(s, h) /\ HandlerInv(h) /\ h.pc \notin Writing
      BY <2>1, <3>1, <3>2, WebhookNext DEF WebhookPCs
    <3>. QED BY <1>0, <2>1, <3>1, <3>3, QuietStep
  <2>4. CASE ~At(s, "handleSuccess")
    BY <1>2, <2>1, <2>2, <2>4, QuietFinish DEF WebhookDatabaseError
  <2>. QED BY <2>3, <2>4
<1>. QED BY <1>1, <1>2

LEMMA CrashInv ==
  ASSUME Inv, Crash
  PROVE  Inv'
<1>1. /\ req' = [s \in Slots |-> IdleRequest]
      /\ UNCHANGED <<inv, txns, enr, sess, captured, hooks, acked, settled>>
  BY DEF Crash, gateway
<1>2. TypeOK'
  BY <1>1, IdleType DEF Inv, TypeOK
<1>3. TableInv' /\ PaymentIsBacked' /\ RefundIsBacked'
  BY <1>1 DEF Inv, TableInv, PaymentIsBacked, RefundIsBacked, Recorded,
              MoneyTaken
<1>4. (\A s \in Slots : HandlerInv(req[s]))' /\ OneWriter'
  BY <1>1, IdleType DEF HandlerInv, OneWriter, Writing, WebhookPCs, Settling
<1>. QED BY <1>2, <1>3, <1>4 DEF Inv

\* Nothing is recorded, paid or asked for at first.
LEMMA InitInv == Init => Inv
<1> SUFFICES ASSUME Init PROVE Inv
  OBVIOUS
<1>1. inv \in [Invoices -> InvoiceRows]
  BY DEF Init, InvoiceRows, InvoiceStatus
<1>2. txns \in [Txns -> TransactionRows]
  BY DEF Init, NoTransaction, TransactionRows, Kinds, TxnStatus
<1>3. TypeOK
  BY <1>1, <1>2, IdleType DEF Init, TypeOK
<1>4. TableInv
  BY DEF Init, TableInv, NoTransaction
<1>5. (\A s \in Slots : HandlerInv(req[s])) /\ OneWriter
  BY IdleType DEF Init, HandlerInv, OneWriter, Writing, WebhookPCs, Settling
<1>6. PaymentIsBacked /\ RefundIsBacked
  BY ConstantsAssumption
     DEF Init, PaymentIsBacked, RefundIsBacked, Recorded, NoTransaction
<1>. QED BY <1>3, <1>4, <1>5, <1>6 DEF Inv

\* Every step keeps the invariant.
LEMMA InvNext == Inv /\ [Next]_vars => Inv'
<1> SUFFICES ASSUME Inv, [Next]_vars PROVE Inv'
  OBVIOUS
<1>1. ASSUME NEW s \in Slots, StartRequest(s) PROVE Inv'
  BY <1>1, StartRequestInv
<1>2. ASSUME NEW s \in Slots, WebhookStep(s) PROVE Inv'
  BY <1>2, WebhookStepInv
<1>3. ASSUME NEW s \in Slots, SessionStep(s) PROVE Inv'
  BY <1>3, CreateTransactionInv, CallGatewayInv, ReuseSessionInv,
     StoreTrackerInv DEF SessionStep
<1>4. ASSUME NEW s \in Slots,
             CreateRefund(s) \/ WriteInvoiceOfRefund(s) \/ CancelExpired(s)
      PROVE  Inv'
  BY <1>4, CreateRefundInv, WriteInvoiceOfRefundInv, CancelExpiredInv
<1>5. ASSUME NEW s \in Slots, RequestFails(s) \/ WebhookDatabaseError(s)
      PROVE  Inv'
  BY <1>5, FailureInv
<1>6. ASSUME NEW k \in Trackers, NEW e \in Events, GatewayEvent(k, e)
      PROVE  Inv'
  BY <1>6, GatewayEventInv
<1>7. CASE Staff
  BY <1>7, StaffInv
<1>8. CASE BankTransfer
  BY <1>8, BankTransferInv
<1>9. CASE Crash
  BY <1>9, CrashInv
<1>10. CASE UNCHANGED vars
  <2>1. UNCHANGED <<inv, txns, enr, req, sess, captured, hooks, acked, settled>>
    BY <1>10 DEF vars
  <2>2. TypeOK' /\ TableInv' /\ PaymentIsBacked' /\ RefundIsBacked'
    BY <2>1 DEF Inv, TypeOK, TableInv, PaymentIsBacked, RefundIsBacked,
                Recorded, MoneyTaken
  <2>. QED BY <2>1, <2>2, EvolvesQuiet, AllHandlersStay DEF Inv
<1>. QED BY <1>1, <1>2, <1>3, <1>4, <1>5, <1>6, <1>7, <1>8, <1>9, <1>10
     DEF Next, HandlerStep

\* The invariant holds in every reachable state.
THEOREM Invariance == Spec => []Inv
  BY InitInv, InvNext, PTL DEF Spec

\* The tables, the handlers and the gateway keep their types.
THEOREM TypeCorrect == Spec => []TypeOK
<1>1. Inv => TypeOK
  BY DEF Inv
<1>. QED BY <1>1, Invariance, PTL

\* An invoice only ever names a gateway payment that was made for it and that
\* the customer paid.
THEOREM PaymentBacked == Spec => []PaymentIsBacked
<1>1. Inv => PaymentIsBacked
  BY DEF Inv
<1>. QED BY <1>1, Invariance, PTL

\* Only payments that were taken are refunded, and for their own invoice.
THEOREM RefundBacked == Spec => []RefundIsBacked
<1>1. Inv => RefundIsBacked
  BY DEF Inv
<1>. QED BY <1>1, Invariance, PTL

-----------------------------------------------------------------------------
(***************************************************************************)
(* Payments implements InvoiceLedger: every step is a step of the ledger   *)
(* or changes nothing in it.                                               *)
(***************************************************************************)

\* The ledger's values, in terms of the rows.
LEMMA LedgerValues ==
  ASSUME TypeOK, TableInv
  PROVE  /\ \A t : t \in ledgerMoney <=> t \in Txns /\ MoneyTaken(t)
         /\ \A t, i : Backs(t, i) => t \in ledgerMoney /\ ledgerBill[t] = i
         /\ \A p : p \in ledgerRefunds <=>
              \E t \in Txns : txns[t].kind = "refund" /\ txns[t].of = p
<1>1. \A t \in Txns : MoneyTaken(t) => t \in Recorded
  BY TakenIsOnline DEF Recorded
<1>. QED BY <1>1 DEF ledgerMoney, ledgerBill, ledgerRefunds, Recorded, Backs

\* The invoices are as before for the ledger when their status and payment
\* are, and the transactions when no row changes but in its status.
LEMMA SameRows ==
  ASSUME TypeOK, TypeOK', TableInv, TableInv',
         \A t \in Txns : /\ txns'[t].kind = txns[t].kind
                         /\ txns'[t].inv = txns[t].inv
                         /\ txns'[t].tracker = txns[t].tracker
                         /\ txns'[t].of = txns[t].of,
         UNCHANGED captured
  PROVE  UNCHANGED <<ledgerBill, ledgerMoney, ledgerRefunds>>
<1>1. UNCHANGED ledgerBill
  BY DEF ledgerBill
<1>2. UNCHANGED ledgerMoney
  BY DEF ledgerMoney, Recorded, MoneyTaken
<1>3. UNCHANGED ledgerRefunds
  BY DEF ledgerRefunds, Recorded
<1>. QED BY <1>1, <1>2, <1>3

LEMMA SameInvoices ==
  ASSUME \A i \in Invoices : /\ inv'[i].txn = inv[i].txn
                             /\ inv'[i].status = inv[i].status
  PROVE  UNCHANGED <<ledgerPaid, ledgerEvidence>>
  BY DEF ledgerPaid, ledgerEvidence

\* A step that writes neither.
LEMMA Stutter ==
  ASSUME UNCHANGED <<inv, txns, captured>>
  PROVE  UNCHANGED Ledger!ledger
  BY DEF Ledger!ledger, ledgerBill, ledgerMoney, ledgerPaid, ledgerEvidence,
         ledgerRefunds, Recorded, MoneyTaken

\* The status of one invoice is written.
LEMMA StatusIsReopened ==
  ASSUME Inv, UNCHANGED <<txns, captured>>, NEW i \in Invoices,
         NEW status \in InvoiceStatus \ {"paid"},
         inv' = [inv EXCEPT ![i].status = status]
  PROVE  Ledger!Reopen(i)
<1>1. \A j \in Invoices :
        /\ inv'[j].txn = inv[j].txn
        /\ inv'[j].status = IF j = i THEN status ELSE inv[j].status
  BY DEF Inv, TypeOK, InvoiceRows
<1>2. ledgerPaid' = ledgerPaid \ {i}
  BY <1>1 DEF ledgerPaid
<1>3. UNCHANGED <<ledgerBill, ledgerMoney, ledgerEvidence, ledgerRefunds>>
  BY <1>1 DEF ledgerBill, ledgerMoney, ledgerEvidence, ledgerRefunds, Recorded,
              MoneyTaken
<1>. QED BY <1>2, <1>3 DEF Ledger!Reopen

\* A handler settles the invoice a taken payment was made for.
LEMMA PaymentIsSettled ==
  ASSUME Inv, UNCHANGED <<txns, captured>>, NEW t \in Txns,
         txns[t].inv \in Invoices, MoneyTaken(t), ProcessPaymentSuccess(t)
  PROVE  [Ledger!Next]_(Ledger!ledger)
<1> DEFINE i == txns[t].inv
<1>1. CASE inv[i].live
  <2>1. inv' = [inv EXCEPT ![i] = [@ EXCEPT !.status = "paid", !.txn = t]]
    BY <1>1 DEF ProcessPaymentSuccess
  <2>2. \A j \in Invoices :
          /\ inv'[j].txn = IF j = i THEN t ELSE inv[j].txn
          /\ inv'[j].status = IF j = i THEN "paid" ELSE inv[j].status
    BY <2>1 DEF Inv, TypeOK, InvoiceRows
  <2>3. ledgerPaid' = ledgerPaid \cup {i}
    BY <2>2 DEF ledgerPaid
  <2>4. ledgerEvidence' = [ledgerEvidence EXCEPT ![i] = t]
    BY <2>2 DEF ledgerEvidence
  <2>5. UNCHANGED <<ledgerBill, ledgerMoney, ledgerRefunds>>
    BY DEF ledgerBill, ledgerMoney, ledgerRefunds, Recorded, MoneyTaken
  <2>6. t \in ledgerMoney /\ ledgerBill[t] = i
    BY TakenIsOnline, LedgerValues DEF Backs, Inv
  <2>7. Ledger!Settle(t, i)
    BY <2>3, <2>4, <2>5, <2>6 DEF Ledger!Settle
  <2>. QED BY <2>7 DEF Ledger!Next
<1>2. CASE ~inv[i].live
  BY <1>2, Stutter DEF ProcessPaymentSuccess
<1>. QED BY <1>1, <1>2

\* A free row is filled in for a payment or a bank transfer.
LEMMA RowIsBilled ==
  ASSUME Inv, UNCHANGED <<inv, captured>>, NEW t \in Txns, IsNext(t),
         NEW e \in TransactionRows, txns' = [txns EXCEPT ![t] = e],
         e.tracker = None, e.kind \in {"online", "bank"}
  PROVE  [Ledger!Next]_(Ledger!ledger)
<1>1. /\ txns[t].kind = "absent" /\ txns'[t] = e
      /\ \A u \in Txns \ {t} : txns'[u] = txns[u]
  BY DEF IsNext, Recorded, Inv, TypeOK
<1>2. ledgerBill[t] = None
  BY <1>1 DEF ledgerBill
<1>3. UNCHANGED ledgerMoney
  BY <1>1, ConstantsAssumption DEF ledgerMoney, Recorded, MoneyTaken, Inv, TypeOK
<1>4. UNCHANGED ledgerRefunds
  BY <1>1 DEF ledgerRefunds, Recorded
<1>5. UNCHANGED <<ledgerPaid, ledgerEvidence>>
  BY DEF ledgerPaid, ledgerEvidence
<1>6. CASE e.kind = "online" /\ e.inv # None
  <2>1. ledgerBill' = [ledgerBill EXCEPT ![t] = e.inv]
    <3>1. \A u \in Txns : (IF txns'[u].kind = "online" THEN txns'[u].inv ELSE None)
                            = IF u = t THEN e.inv ELSE ledgerBill[u]
      BY <1>1, <1>6 DEF ledgerBill
    <3>. QED BY <3>1 DEF ledgerBill
  <2>2. e.inv \in Invoices
    BY <1>6 DEF TransactionRows
  <2>3. Ledger!Bill(t, e.inv)
    BY <1>2, <1>3, <1>4, <1>5, <2>1 DEF Ledger!Bill
  <2>. QED BY <2>2, <2>3 DEF Ledger!Next
<1>7. CASE e.kind # "online" \/ e.inv = None
  <2>1. UNCHANGED ledgerBill
    BY <1>1, <1>7 DEF ledgerBill
  <2>. QED BY <1>3, <1>4, <1>5, <2>1 DEF Ledger!ledger
<1>. QED BY <1>6, <1>7

\* A refund is recorded for a payment that backs its invoice.
LEMMA PaymentIsRefunded ==
  ASSUME Inv, UNCHANGED <<inv, captured>>, NEW t \in Txns, IsNext(t),
         NEW e \in TransactionRows, txns' = [txns EXCEPT ![t] = e],
         e.tracker = None, e.kind = "refund", Backs(e.of, e.inv),
         e.inv \in Invoices
  PROVE  [Ledger!Next]_(Ledger!ledger)
<1>1. /\ txns[t].kind = "absent" /\ txns'[t] = e
      /\ \A u \in Txns \ {t} : txns'[u] = txns[u]
      /\ e.of \in Txns
  BY DEF IsNext, Recorded, Inv, TypeOK, Backs
<1>2. UNCHANGED ledgerBill
  BY <1>1 DEF ledgerBill
<1>3. UNCHANGED ledgerMoney
  BY <1>1, ConstantsAssumption DEF ledgerMoney, Recorded, MoneyTaken, Inv, TypeOK
<1>4. ledgerRefunds' = ledgerRefunds \cup {e.of}
  BY <1>1 DEF ledgerRefunds, Recorded
<1>5. UNCHANGED <<ledgerPaid, ledgerEvidence>>
  BY DEF ledgerPaid, ledgerEvidence
<1>6. e.of \in ledgerMoney /\ ledgerBill[e.of] # None
  BY <1>1, LedgerValues, ConstantsAssumption DEF Inv
<1>7. Ledger!Refund(e.of)
  BY <1>2, <1>3, <1>4, <1>5, <1>6 DEF Ledger!Refund
<1>. QED BY <1>1, <1>7 DEF Ledger!Next

\* Staff settle an invoice, with a reference of their own or without one.
LEMMA InvoiceIsSettledByHand ==
  ASSUME Inv, UNCHANGED <<txns, captured>>, NEW i \in Invoices,
         Ops \cap {"update", "markPaid", "approve"} # {},
         inv' \in [Invoices -> InvoiceRows],
         \A j \in Invoices \ {i} : inv'[j] = inv[j],
         inv'[i].status = "paid",
         inv'[i].txn \in {inv[i].txn, External}
  PROVE  Ledger!SettleByHand(i)
<1>1. i \in ledgerManual
  BY DEF ledgerManual
<1>2. ledgerPaid' = ledgerPaid \cup {i}
  BY DEF ledgerPaid
<1>3. ledgerEvidence' \in
        {ledgerEvidence, [ledgerEvidence EXCEPT ![i] = External]}
  BY DEF ledgerEvidence
<1>4. UNCHANGED <<ledgerBill, ledgerMoney, ledgerRefunds>>
  BY DEF ledgerBill, ledgerMoney, ledgerRefunds, Recorded, MoneyTaken
<1>. QED BY <1>1, <1>2, <1>3, <1>4 DEF Ledger!SettleByHand

\* The gateway takes the money of the one transaction a session was opened
\* for, if that transaction knows the session.
LEMMA MoneyIsTaken ==
  ASSUME Inv, NEW k \in Trackers, NEW e \in Events, GatewayEvent(k, e)
  PROVE  [Ledger!Next]_(Ledger!ledger)
<1>1. UNCHANGED <<inv, txns>> /\ captured' \in {captured, captured \cup {k}}
  BY DEF GatewayEvent
<1>2. UNCHANGED <<ledgerBill, ledgerPaid, ledgerEvidence, ledgerRefunds>>
  BY <1>1 DEF ledgerBill, ledgerPaid, ledgerEvidence, ledgerRefunds, Recorded
<1>3. CASE captured' = captured
  BY <1>1, <1>3, Stutter
<1>4. CASE captured' = captured \cup {k} /\ \E t \in Recorded : txns[t].tracker = k
  <2>1. PICK t \in Recorded : txns[t].tracker = k
    BY <1>4
  <2>2. \A u \in Recorded : txns[u].tracker = k => u = t
    BY <2>1, ConstantsAssumption DEF Inv, TableInv, Recorded
  <2>3. ledgerMoney' = ledgerMoney \cup {t}
    BY <1>1, <1>4, <2>1, <2>2 DEF ledgerMoney, MoneyTaken, Recorded
  <2>4. Ledger!Take(t)
    BY <1>2, <2>3 DEF Ledger!Take
  <2>. QED BY <2>4 DEF Ledger!Next, Recorded
<1>5. CASE captured' = captured \cup {k} /\ \A t \in Recorded : txns[t].tracker # k
  <2>1. UNCHANGED ledgerMoney
    BY <1>1, <1>5 DEF ledgerMoney, MoneyTaken, Recorded
  <2>. QED BY <1>2, <2>1 DEF Ledger!ledger
<1>. QED BY <1>1, <1>3, <1>4, <1>5

\* A session id is stored: for the ledger something only happens if the
\* session had been paid in.
LEMMA TrackerIsStored ==
  ASSUME Inv, NEW s \in Slots, StoreTracker(s)
  PROVE  [Ledger!Next]_(Ledger!ledger)
<1>0. TypeOK /\ HandlerInv(req[s]) /\ req[s].pc = "storeTracker"
  BY DEF Inv, StoreTracker, At
<1>1. PICK t \in Txns, k \in Trackers : t = req[s].txn /\ k = req[s].key
  BY <1>0 DEF HandlerInv, Writing
<1>2. txns[t].kind = "online" /\ txns[t].tracker = None
  BY <1>0, <1>1 DEF HandlerInv, Writing
<1>3. /\ txns' = [txns EXCEPT ![t] = [@ EXCEPT !.tracker = k]]
      /\ UNCHANGED <<inv, captured>>
  BY <1>1 DEF StoreTracker
<1>4. \A u \in Txns :
        /\ txns'[u].kind = txns[u].kind /\ txns'[u].inv = txns[u].inv
        /\ txns'[u].of = txns[u].of
        /\ txns'[u].tracker = IF u = t THEN k ELSE txns[u].tracker
  BY <1>0, <1>3 DEF TypeOK, TransactionRows
<1>5. UNCHANGED <<ledgerBill, ledgerPaid, ledgerEvidence>>
  BY <1>3, <1>4 DEF ledgerBill, ledgerPaid, ledgerEvidence
<1>6. UNCHANGED ledgerRefunds
  BY <1>4 DEF ledgerRefunds, Recorded
<1>7. t \notin ledgerMoney
  BY <1>0, <1>2, ConstantsAssumption DEF ledgerMoney, MoneyTaken, TypeOK
<1>8. CASE k \in captured
  <2>1. ledgerMoney' = ledgerMoney \cup {t}
    BY <1>2, <1>3, <1>4, <1>8 DEF ledgerMoney, MoneyTaken, Recorded
  <2>2. Ledger!Take(t)
    BY <1>5, <1>6, <2>1 DEF Ledger!Take
  <2>. QED BY <2>2 DEF Ledger!Next
<1>9. CASE k \notin captured
  <2>1. UNCHANGED ledgerMoney
    BY <1>3, <1>4, <1>7, <1>9 DEF ledgerMoney, MoneyTaken, Recorded
  <2>. QED BY <1>5, <1>6, <2>1 DEF Ledger!ledger
<1>. QED BY <1>8, <1>9

LEMMA WebhookIsLedgerStep ==
  ASSUME Inv, Inv', NEW s \in Slots, WebhookStep(s)
  PROVE  [Ledger!Next]_(Ledger!ledger)
<1>1. CASE UpdateTransactionStatus(s)
  <2>1. UNCHANGED <<inv, captured>>
    BY <1>1 DEF UpdateTransactionStatus
  <2>2. PICK status : txns' = [txns EXCEPT ![req[s].txn].status = status]
    BY <1>1 DEF UpdateTransactionStatus
  <2>3. \A t \in Txns : /\ txns'[t].kind = txns[t].kind
                        /\ txns'[t].inv = txns[t].inv
                        /\ txns'[t].tracker = txns[t].tracker
                        /\ txns'[t].of = txns[t].of
    BY <2>2 DEF Inv, TypeOK, TransactionRows
  <2>. QED BY <2>1, <2>3, SameRows, SameInvoices DEF Inv, Ledger!ledger
<1>2. CASE HandleSuccessfulPayment(s) \/ WritePaidInvoice(s)
  <2>1. /\ req[s].pc \in {"handleSuccess", "processWrite"}
        /\ ProcessPaymentSuccess(req[s].txn) /\ UNCHANGED <<txns, captured>>
    BY <1>2 DEF HandleSuccessfulPayment, WritePaidInvoice, At, gateway
  <2>2. /\ req[s].txn \in Txns /\ txns[req[s].txn].inv \in Invoices
        /\ MoneyTaken(req[s].txn)
    BY <2>1 DEF Inv, HandlerInv, WebhookPCs, Settling
  <2>. QED BY <2>1, <2>2, PaymentIsSettled
<1>3. CASE ReadInvoiceOfFailure(s) \/ ProcessInvoicePayment(s)
  BY <1>3, Stutter DEF ReadInvoiceOfFailure, ProcessInvoicePayment
<1>4. CASE WriteInvoiceOfFailure(s)
  <2>1. UNCHANGED <<txns, captured>>
    BY <1>4 DEF WriteInvoiceOfFailure
  <2>2. PICK i \in Invoices : i = txns[req[s].txn].inv
    BY <1>4 DEF WriteInvoiceOfFailure, At, Inv, HandlerInv
  <2>3. inv' = [inv EXCEPT ![i].status = "sent"] \/ UNCHANGED inv
    BY <1>4, <2>2 DEF WriteInvoiceOfFailure
  <2>4. "sent" \in InvoiceStatus \ {"paid"}
    BY DEF InvoiceStatus
  <2>. QED BY <2>1, <2>2, <2>3, <2>4, Stutter, StatusIsReopened DEF Ledger!Next
<1>. QED BY <1>1, <1>2, <1>3, <1>4 DEF WebhookStep

LEMMA SessionIsLedgerStep ==
  ASSUME Inv, NEW s \in Slots, SessionStep(s)
  PROVE  [Ledger!Next]_(Ledger!ledger)
<1>1. CASE CreateTransaction(s)
  <2>0. PICK e : e = [NoTransaction EXCEPT !.kind = "online", !.inv = req[s].inv,
                                       !.student = req[s].student]
    OBVIOUS
  <2>1. PICK t \in Txns : IsNext(t) /\ txns' = [txns EXCEPT ![t] = e]
    BY <1>1, <2>0 DEF CreateTransaction
  <2>2. e \in TransactionRows /\ e.kind = "online" /\ e.tracker = None
    BY <2>0 DEF NoTransaction, TransactionRows, Kinds, TxnStatus, Handlers,
                Inv, TypeOK
  <2>3. UNCHANGED <<inv, captured>>
    BY <1>1 DEF CreateTransaction, gateway
  <2>. QED BY <2>1, <2>2, <2>3, RowIsBilled
<1>2. CASE CallGateway(s) \/ ReuseSession(s)
  BY <1>2, Stutter DEF CallGateway, ReuseSession
<1>3. CASE StoreTracker(s)
  BY <1>3, TrackerIsStored
<1>. QED BY <1>1, <1>2, <1>3 DEF SessionStep

LEMMA RefundIsLedgerStep ==
  ASSUME Inv, Inv', NEW s \in Slots,
         CreateRefund(s) \/ WriteInvoiceOfRefund(s) \/ CancelExpired(s)
  PROVE  [Ledger!Next]_(Ledger!ledger)
<1>1. CASE CreateRefund(s)
  <2>1. req[s].inv \in Invoices /\ Backs(req[s].txn, req[s].inv)
    BY <1>1 DEF Inv, HandlerInv, CreateRefund, At
  <2>2. txns[req[s].txn].student \in Students \cup {None}
    BY <2>1 DEF Backs, Inv, TypeOK, TransactionRows
  <2>0. PICK e : e = [NoTransaction EXCEPT !.kind = "refund", !.status = "refunded",
                                    !.inv = req[s].inv, !.of = req[s].txn,
                                    !.student = txns[req[s].txn].student]
    OBVIOUS
  <2>3. PICK t \in Txns : IsNext(t) /\ txns' = [txns EXCEPT ![t] = e]
    BY <1>1, <2>0 DEF CreateRefund
  <2>4. /\ e \in TransactionRows /\ e.kind = "refund" /\ e.tracker = None
        /\ e.of = req[s].txn /\ e.inv = req[s].inv
    BY <2>0, <2>1, <2>2
       DEF NoTransaction, TransactionRows, Kinds, TxnStatus, Backs
  <2>5. UNCHANGED <<inv, captured>>
    BY <1>1 DEF CreateRefund, gateway
  <2>. QED BY <2>1, <2>3, <2>4, <2>5, PaymentIsRefunded
<1>2. CASE WriteInvoiceOfRefund(s)
  <2>1. UNCHANGED <<txns, captured>>
    BY <1>2 DEF WriteInvoiceOfRefund, gateway
  <2>2. PICK i \in Invoices : i = req[s].inv
    BY <1>2 DEF WriteInvoiceOfRefund, At, Inv, HandlerInv
  <2>3. inv' = [inv EXCEPT ![i].status = "overdue"] \/ UNCHANGED inv
    BY <1>2, <2>2 DEF WriteInvoiceOfRefund
  <2>4. "overdue" \in InvoiceStatus \ {"paid"}
    BY DEF InvoiceStatus
  <2>. QED BY <2>1, <2>2, <2>3, <2>4, Stutter, StatusIsReopened DEF Ledger!Next
<1>3. CASE CancelExpired(s)
  <2>1. UNCHANGED <<inv, captured>>
    BY <1>3 DEF CancelExpired, gateway
  <2>2. PICK u : txns' = [txns EXCEPT ![u].status = "cancelled"]
    BY <1>3 DEF CancelExpired
  <2>3. \A t \in Txns : /\ txns'[t].kind = txns[t].kind
                        /\ txns'[t].inv = txns[t].inv
                        /\ txns'[t].tracker = txns[t].tracker
                        /\ txns'[t].of = txns[t].of
    BY <2>2 DEF Inv, TypeOK, TransactionRows
  <2>. QED BY <2>1, <2>3, SameRows, SameInvoices DEF Inv, Ledger!ledger
<1>. QED BY <1>1, <1>2, <1>3

LEMMA StaffIsLedgerStep ==
  ASSUME Inv, Inv', Staff
  PROVE  [Ledger!Next]_(Ledger!ledger)
<1>1. ASSUME NEW i \in Invoices, NEW status \in InvoiceStatus,
             UpdateInvoice(i, status)
      PROVE  [Ledger!Next]_(Ledger!ledger)
  <2>1. /\ inv' = [inv EXCEPT ![i].status = status] /\ UNCHANGED <<txns, captured>>
        /\ Ops \cap {"update", "markPaid", "approve"} # {}
    BY <1>1 DEF UpdateInvoice, gateway
  <2>2. CASE status = "paid"
    <3>1. /\ inv' \in [Invoices -> InvoiceRows]
          /\ \A j \in Invoices \ {i} : inv'[j] = inv[j]
          /\ inv'[i].status = "paid" /\ inv'[i].txn = inv[i].txn
      BY <2>1, <2>2 DEF Inv, TypeOK, InvoiceRows
    <3>. QED BY <2>1, <3>1, InvoiceIsSettledByHand DEF Ledger!Next
  <2>3. CASE status # "paid"
    BY <2>1, <2>3, StatusIsReopened DEF Ledger!Next
  <2>. QED BY <2>2, <2>3
<1>2. ASSUME NEW i \in Invoices, NEW ref \in {None, External}, MarkAsPaid(i, ref)
      PROVE  [Ledger!Next]_(Ledger!ledger)
  <2>1. PICK x \in {inv[i].txn, External} :
           inv' = [inv EXCEPT ![i] = [@ EXCEPT !.status = "paid", !.txn = x]]
    BY <1>2 DEF MarkAsPaid
  <2>2. /\ UNCHANGED <<txns, captured>>
        /\ Ops \cap {"update", "markPaid", "approve"} # {}
    BY <1>2 DEF MarkAsPaid, gateway
  <2>3. /\ inv' \in [Invoices -> InvoiceRows]
        /\ \A j \in Invoices \ {i} : inv'[j] = inv[j]
        /\ inv'[i].status = "paid" /\ inv'[i].txn = x
    BY <2>1 DEF Inv, TypeOK, InvoiceRows
  <2>. QED BY <2>1, <2>2, <2>3, InvoiceIsSettledByHand DEF Ledger!Next
<1>3. ASSUME NEW i \in Invoices, ApprovePayment(i)
      PROVE  [Ledger!Next]_(Ledger!ledger)
  <2>1. /\ inv' = [inv EXCEPT ![i].status = "paid"] /\ UNCHANGED <<txns, captured>>
        /\ Ops \cap {"update", "markPaid", "approve"} # {}
    BY <1>3 DEF ApprovePayment, gateway
  <2>2. /\ inv' \in [Invoices -> InvoiceRows]
        /\ \A j \in Invoices \ {i} : inv'[j] = inv[j]
        /\ inv'[i].status = "paid" /\ inv'[i].txn = inv[i].txn
    BY <2>1 DEF Inv, TypeOK, InvoiceRows
  <2>. QED BY <2>1, <2>2, InvoiceIsSettledByHand DEF Ledger!Next
<1>4. ASSUME NEW i \in Invoices, RemoveInvoice(i)
      PROVE  [Ledger!Next]_(Ledger!ledger)
  <2>1. inv' = [inv EXCEPT ![i].live = FALSE] /\ UNCHANGED <<txns, captured>>
    BY <1>4 DEF RemoveInvoice, gateway
  <2>2. \A j \in Invoices : /\ inv'[j].txn = inv[j].txn
                            /\ inv'[j].status = inv[j].status
    BY <2>1 DEF Inv, TypeOK, InvoiceRows
  <2>. QED BY <2>1, <2>2, SameRows, SameInvoices DEF Inv, Ledger!ledger
<1>. QED BY <1>1, <1>2, <1>3, <1>4 DEF Staff

LEMMA BankTransferIsLedgerStep ==
  ASSUME Inv, Inv', BankTransfer
  PROVE  [Ledger!Next]_(Ledger!ledger)
<1>1. ASSUME NEW i \in Invoices, CreateBankTransferPayment(i)
      PROVE  [Ledger!Next]_(Ledger!ledger)
  <2>0. PICK e : e = [NoTransaction EXCEPT !.kind = "bank", !.inv = i,
                                       !.student = Owner[i]]
    OBVIOUS
  <2>1. PICK t \in Txns : IsNext(t) /\ txns' = [txns EXCEPT ![t] = e]
    BY <1>1, <2>0 DEF CreateBankTransferPayment
  <2>2. e \in TransactionRows /\ e.kind = "bank" /\ e.tracker = None
    BY <2>0, ConstantsAssumption
       DEF NoTransaction, TransactionRows, Kinds, TxnStatus
  <2>3. UNCHANGED <<inv, captured>>
    BY <1>1 DEF CreateBankTransferPayment, gateway
  <2>. QED BY <2>1, <2>2, <2>3, RowIsBilled
<1>2. ASSUME NEW u \in Txns, NEW status \in {"completed", "pending"},
             UpdateBankTransferStatus(u, status)
      PROVE  [Ledger!Next]_(Ledger!ledger)
  <2>1. UNCHANGED <<inv, captured>> /\ txns' = [txns EXCEPT ![u].status = status]
    BY <1>2 DEF UpdateBankTransferStatus, gateway
  <2>2. \A t \in Txns : /\ txns'[t].kind = txns[t].kind
                        /\ txns'[t].inv = txns[t].inv
                        /\ txns'[t].tracker = txns[t].tracker
                        /\ txns'[t].of = txns[t].of
    BY <2>1 DEF Inv, TypeOK, TransactionRows
  <2>. QED BY <2>1, <2>2, SameRows, SameInvoices DEF Inv, Ledger!ledger
<1>. QED BY <1>1, <1>2 DEF BankTransfer

LEMMA InitIsLedgerInit == Init => Ledger!Init
<1> SUFFICES ASSUME Init PROVE Ledger!Init
  OBVIOUS
<1>1. Recorded = {}
  BY DEF Init, Recorded, NoTransaction
<1>2. ledgerMoney = {} /\ ledgerRefunds = {}
  BY <1>1 DEF ledgerMoney, ledgerRefunds
<1>3. ledgerBill = [t \in Txns |-> None]
  BY DEF Init, NoTransaction, ledgerBill
<1>4. ledgerPaid = {} /\ ledgerEvidence = [i \in Invoices |-> None]
  BY DEF Init, ledgerPaid, ledgerEvidence
<1>. QED BY <1>2, <1>3, <1>4 DEF Ledger!Init

LEMMA NextIsLedgerNext ==
  Inv /\ Inv' /\ [Next]_vars => [Ledger!Next]_(Ledger!ledger)
<1> SUFFICES ASSUME Inv, Inv', [Next]_vars
             PROVE  [Ledger!Next]_(Ledger!ledger)
  OBVIOUS
<1>1. ASSUME NEW s \in Slots, StartRequest(s)
      PROVE  UNCHANGED <<inv, txns, captured>>
  BY <1>1 DEF StartRequest, StartInvoiceSession, StartRefund, StartSession,
              Deliver, ReceiveWebhook, WebhookNotFound, StartCleanup, gateway
<1>2. ASSUME NEW s \in Slots, RequestFails(s) \/ WebhookDatabaseError(s) \/ Crash
      PROVE  UNCHANGED <<inv, txns, captured>>
  BY <1>2 DEF RequestFails, WebhookDatabaseError, Crash, gateway
<1>3. ASSUME Crash \/ UNCHANGED vars PROVE UNCHANGED <<inv, txns, captured>>
  BY <1>3 DEF Crash, gateway, vars
<1>. QED BY <1>1, <1>2, <1>3, Stutter, WebhookIsLedgerStep, SessionIsLedgerStep,
            RefundIsLedgerStep, StaffIsLedgerStep, BankTransferIsLedgerStep,
            MoneyIsTaken DEF Next, HandlerStep

\* The payment code, with all its handlers, crashes and late webhooks, keeps
\* the ledger.
THEOREM LedgerImplemented == Spec => ImplementsLedger
<1>1. Spec => Ledger!Spec
  BY Invariance, InitIsLedgerInit, NextIsLedgerNext, PTL DEF Spec, Ledger!Spec
<1>. QED BY <1>1 DEF ImplementsLedger

-----------------------------------------------------------------------------
(***************************************************************************)
(* An answered webhook is not sent again.  What it should have done is     *)
(* done when the answer says success; and also when it does not, if the    *)
(* webhook's id is the one the server stored and no database error is      *)
(* swallowed: the two conditions are needed, see the run payments_stripe.  *)
(***************************************************************************)

\* The ids of the webhooks are those the server stores (with Stripe they are
\* not), and no database error is swallowed in one of their handlers.
Dependable == HookCarries = "tracker" /\ "dbError" \notin Ops

\* A webhook that may be answered: its payment, if one is known, is settled;
\* or the answer says that something went wrong; or a database error lost the
\* first write and the invoice was removed before the second.
Missed(ok, live) ==
    /\ ok = TRUE => "dbError" \in Ops
    /\ ok = TRUE \/ Dependable => ~live

Answered(k, e, ok) ==
    /\ sess[k].handed
    /\ e = "succeeded" =>
          \A t \in Txns : txns[t].tracker = k /\ txns[t].inv # None =>
              \/ t \in settled
              \/ Missed(ok, inv[txns[t].inv].live)

\* After a first call that no database error disturbed, the second one has
\* nothing left to book.
NothingLeft(t, pc) ==
    "dbError" \notin Ops /\ pc \in {"processSuccess", "processWrite"} =>
        \/ t \in settled
        \/ pc = "processSuccess" /\ ~inv[txns[t].inv].live

\* A session's id is stored before its URL is returned, and a handler works
\* on the transaction that has the id of its webhook.
AnswerHandler(h) ==
    /\ h.pc = "storeTracker" => ~sess[h.key].handed
    /\ h.pc \in WebhookPCs =>
          txns[h.txn].tracker = h.key /\ sess[h.key].handed
    /\ h.pc \in Settling => h.event = "succeeded"
    /\ h.pc \in {"failure", "failureWrite"} => h.event = "failed"
    /\ NothingLeft(h.txn, h.pc)

AnswerInv ==
    /\ \A k \in Trackers, e \in Events, ok \in BOOLEAN :
          <<k, e, ok>> \in acked => Answered(k, e, ok)
    /\ \A s \in Slots : AnswerHandler(req[s])

\* Steps that store no session id leave an answer as right as it was.
Kept ==
    /\ \A t \in Txns : /\ txns'[t].tracker = txns[t].tracker
                       /\ txns[t].kind # "absent" => txns'[t].inv = txns[t].inv
    /\ \A k \in Trackers : sess[k].txn \in Txns => sess'[k] = sess[k]
    /\ settled \subseteq settled'
    /\ \A i \in Invoices : ~inv[i].live => ~inv'[i].live

\* An id that is stored is that of a session of the transaction.
LEMMA StoredId ==
  ASSUME Inv, NEW t \in Txns, txns[t].tracker # None
  PROVE  /\ txns[t].tracker \in Trackers /\ txns[t].kind # "absent"
         /\ sess[txns[t].tracker].txn = t
  BY DEF Inv, TypeOK, TransactionRows, TableInv

LEMMA AnsweredStays ==
  ASSUME Inv, Kept, NEW k \in Trackers, NEW e, NEW ok, Answered(k, e, ok)
  PROVE  Answered(k, e, ok)'
<1>1. sess'[k].handed
  BY DEF Answered, Kept, Inv, TableInv
<1>2. ASSUME e = "succeeded", NEW t \in Txns, txns'[t].tracker = k,
             txns'[t].inv # None
      PROVE  \/ t \in settled'
             \/ Missed(ok, inv'[txns'[t].inv].live)
  <2>1. txns[t].tracker = k /\ txns[t].tracker # None
    BY <1>2, ConstantsAssumption DEF Kept
  <2>2. txns'[t].inv = txns[t].inv /\ txns[t].inv \in Invoices
    BY <1>2, <2>1, StoredId DEF Kept, Inv, TypeOK, TransactionRows
  <2>3. \/ t \in settled
        \/ Missed(ok, inv[txns[t].inv].live)
    BY <1>2, <2>1, <2>2 DEF Answered
  <2>. QED BY <2>2, <2>3 DEF Kept, Missed
<1>. QED BY <1>1, <1>2 DEF Answered

LEMMA AnswerHandlerStays ==
  ASSUME Inv, Kept, NEW h, HandlerInv(h), AnswerHandler(h)
  PROVE  AnswerHandler(h)'
<1>1. h.pc = "storeTracker" => ~sess'[h.key].handed
  BY DEF HandlerInv, AnswerHandler, Kept, Writing
<1>2. h.pc \in WebhookPCs => txns'[h.txn].tracker = h.key /\ sess'[h.key].handed
  BY DEF HandlerInv, AnswerHandler, Kept, Inv, TableInv
<1>3. NothingLeft(h.txn, h.pc)'
  <2>1. SUFFICES ASSUME "dbError" \notin Ops,
                        h.pc \in {"processSuccess", "processWrite"}
                 PROVE  NothingLeft(h.txn, h.pc)'
    BY DEF NothingLeft
  <2>2. h.txn \in Txns /\ txns[h.txn].inv \in Invoices
    BY <2>1 DEF HandlerInv, Settling, WebhookPCs
  <2>3. txns'[h.txn].inv = txns[h.txn].inv
    BY <2>2, ConstantsAssumption DEF Kept, Inv, TableInv
  <2>. QED BY <2>1, <2>2, <2>3 DEF AnswerHandler, NothingLeft, Kept
<1>. QED BY <1>1, <1>2, <1>3 DEF AnswerHandler

\* A step is right when the answers it gives and the handlers it moves are.
LEMMA AnswerStep ==
  ASSUME Inv, AnswerInv, Kept,
         \A k \in Trackers, e \in Events, ok \in BOOLEAN :
             <<k, e, ok>> \in acked' \ acked => Answered(k, e, ok)',
         \A q \in Slots : req'[q] = req[q] \/ AnswerHandler(req[q])'
  PROVE  AnswerInv'
<1>1. ASSUME NEW k \in Trackers, NEW e \in Events, NEW ok \in BOOLEAN,
             <<k, e, ok>> \in acked'
      PROVE  Answered(k, e, ok)'
  BY <1>1, AnsweredStays DEF AnswerInv
<1>2. ASSUME NEW q \in Slots PROVE AnswerHandler(req[q])'
  BY AnswerHandlerStays DEF AnswerInv, Inv
<1>. QED BY <1>1, <1>2 DEF AnswerInv

Unhooked == PCs \ (WebhookPCs \cup {"storeTracker"})

\* Most steps answer no webhook and move no handler of one.
LEMMA AnswerQuiet ==
  ASSUME Inv, AnswerInv, Kept, UNCHANGED acked,
         \A q \in Slots : req'[q] = req[q] \/ req'[q].pc \in Unhooked
  PROVE  AnswerInv'
<1>1. ASSUME NEW h, h.pc \in Unhooked PROVE AnswerHandler(h)'
  BY <1>1 DEF AnswerHandler, Unhooked, WebhookPCs, PCs, Settling, NothingLeft
<1>. QED BY <1>1, AnswerStep

\* How a handler moves.
LEMMA Moves ==
  ASSUME Inv, NEW s \in Slots
  PROVE  /\ Finish(s) => \A q \in Slots :
                            req'[q] = req[q] \/ req'[q].pc \in Unhooked
         /\ \A h : Begin(s, h) =>
               req'[s] = h /\ \A q \in Slots \ {s} : req'[q] = req[q]
         /\ \A pc \in PCs : Goto(s, pc) =>
               /\ req'[s].pc = pc /\ req'[s].txn = req[s].txn
               /\ req'[s].key = req[s].key /\ req'[s].event = req[s].event
               /\ \A q \in Slots \ {s} : req'[q] = req[q]
<1>1. req \in [Slots -> Handlers] /\ req[s] \in Handlers
  BY DEF Inv, TypeOK
<1>2. "idle" \in Unhooked
  BY DEF Unhooked, PCs, WebhookPCs
<1>3. Finish(s) => \A q \in Slots :
                      req'[q] = req[q] \/ req'[q].pc \in Unhooked
  BY <1>1, <1>2, IdleType DEF Finish
<1>4. \A h : Begin(s, h) =>
         req'[s] = h /\ \A q \in Slots \ {s} : req'[q] = req[q]
  BY <1>1 DEF Begin
<1>5. ASSUME NEW pc \in PCs, Goto(s, pc)
      PROVE  /\ req'[s].pc = pc /\ req'[s].txn = req[s].txn
             /\ req'[s].key = req[s].key /\ req'[s].event = req[s].event
             /\ \A q \in Slots \ {s} : req'[q] = req[q]
  <2>1. req'[s] = [req[s] EXCEPT !.pc = pc]
    BY <1>1, <1>5 DEF Goto
  <2>. QED BY <1>1, <1>5, <2>1 DEF Goto, Handlers
<1>. QED BY <1>3, <1>4, <1>5

LEMMA KeptQuiet ==
  ASSUME UNCHANGED <<txns, sess, settled, inv>> PROVE Kept
  BY DEF Kept

\* A webhook finds the transaction with its id, or there is none.
LEMMA StartRequestAnswer ==
  ASSUME Inv, AnswerInv, NEW s \in Slots, StartRequest(s)
  PROVE  AnswerInv'
<1>1. ASSUME NEW h, h.pc \in Unhooked, Begin(s, h),
             UNCHANGED <<inv, txns, enr, gateway, settled>>
      PROVE  AnswerInv'
  <2>1. Kept /\ UNCHANGED acked
    BY <1>1, KeptQuiet DEF gateway
  <2>. QED BY <1>1, <2>1, Moves, AnswerQuiet
<1>2. ASSUME NEW i \in Invoices, StartInvoiceSession(s, i) \/ StartRefund(s, i)
      PROVE  AnswerInv'
  <2>1. PICK h : /\ Begin(s, h) /\ h.pc \in {"createTxn", "refundCreate"}
                 /\ UNCHANGED <<inv, txns, enr, gateway, settled>>
    BY <1>2 DEF StartInvoiceSession, StartRefund, IdleRequest
  <2>. QED BY <1>1, <2>1 DEF Unhooked, PCs, WebhookPCs
<1>3. ASSUME NEW i \in Invoices \cup {None}, NEW st \in Students \cup {None},
             StartSession(s, i, st)
      PROVE  AnswerInv'
  <2>1. PICK h : /\ Begin(s, h) /\ h.pc \in {"createTxn", "reuseSession"}
                 /\ UNCHANGED <<inv, txns, enr, gateway, settled>>
    BY <1>3 DEF StartSession, IdleRequest
  <2>. QED BY <1>1, <2>1 DEF Unhooked, PCs, WebhookPCs
<1>4. CASE StartCleanup(s)
  <2>1. PICK h : /\ Begin(s, h) /\ h.pc = "cleanup"
                 /\ UNCHANGED <<inv, txns, enr, gateway, settled>>
    BY <1>4 DEF StartCleanup, IdleRequest
  <2>. QED BY <1>1, <2>1 DEF Unhooked, PCs, WebhookPCs
<1>5. ASSUME NEW k \in Trackers, NEW e \in Events, ReceiveWebhook(s, k, e)
      PROVE  AnswerInv'
  <2>1. PICK t \in FindByGatewayTransactionId(HookKey(k)) :
           Begin(s, [IdleRequest EXCEPT !.pc = "updateStatus", !.txn = t,
                                        !.key = k, !.event = e])
    BY <1>5 DEF ReceiveWebhook
  <2>0. PICK h : h = [IdleRequest EXCEPT !.pc = "updateStatus", !.txn = t,
                                         !.key = k, !.event = e]
    OBVIOUS
  <2>2. Begin(s, h) /\ h.pc = "updateStatus" /\ h.txn = t /\ h.key = k
    BY <2>0, <2>1 DEF IdleRequest
  <2>3. txns[t].tracker = k /\ sess[k].handed
    <3>1. sess[k].handed /\ sess[k].txn \in Txns
      BY <1>5 DEF ReceiveWebhook, Inv, TableInv
    <3>2. txns[t].tracker = HookKey(k) /\ txns[t].tracker \notin Txns
      BY <2>1, ConstantsAssumption
         DEF FindByGatewayTransactionId, Recorded, Inv, TypeOK, TransactionRows
    <3>. QED BY <3>1, <3>2 DEF HookKey
  <2>4. /\ UNCHANGED <<inv, txns, sess, acked, settled>>
    BY <1>5 DEF ReceiveWebhook, gateway
  <2>5. AnswerHandler(h)'
    BY <2>2, <2>3, <2>4 DEF AnswerHandler, NothingLeft, Settling
  <2>6. \A q \in Slots : req'[q] = req[q] \/ AnswerHandler(req[q])'
    BY <2>2, <2>5, Moves
  <2>. QED BY <2>4, <2>6, KeptQuiet, AnswerStep
<1>6. ASSUME NEW k \in Trackers, NEW e \in Events, WebhookNotFound(s, k, e)
      PROVE  AnswerInv'
  <2>1. /\ UNCHANGED <<inv, txns, req, sess, settled>>
        /\ acked' = acked \cup {<<k, e, FALSE>>}
        /\ FindByGatewayTransactionId(HookKey(k)) = {} /\ sess[k].handed
    BY <1>6 DEF WebhookNotFound, Inv, TableInv
  <2>2. Dependable => \A t \in Txns : txns[t].tracker # k
    BY <2>1, StoredId, ConstantsAssumption
       DEF FindByGatewayTransactionId, Recorded, HookKey, Dependable
  <2>3. Answered(k, e, FALSE)'
    BY <2>1, <2>2 DEF Answered, Missed
  <2>. QED BY <2>1, <2>3, KeptQuiet, AnswerStep
<1>. QED BY <1>2, <1>3, <1>4, <1>5, <1>6 DEF StartRequest, Deliver

\* What a webhook's handler has in hand belongs together.
LEMMA HandlersWebhook ==
  ASSUME Inv, AnswerInv, NEW s \in Slots, req[s].pc \in WebhookPCs
  PROVE  /\ req[s].txn \in Txns /\ req[s].key \in Trackers
         /\ req[s].event \in Events
         /\ txns[req[s].txn].tracker = req[s].key /\ sess[req[s].key].handed
         /\ \A u \in Txns : txns[u].tracker = req[s].key => u = req[s].txn
         /\ txns[req[s].txn].inv \in Invoices \cup {None}
         /\ req[s].pc \in {"handleSuccess", "processSuccess", "processWrite",
                           "failure", "failureWrite"} => txns[req[s].txn].inv \in Invoices
         /\ req[s].pc \in {"failure", "failureWrite"} =>
               req[s].event = "failed"
<1>1. HandlerInv(req[s]) /\ AnswerHandler(req[s])
  BY DEF Inv, AnswerInv
<1>2. /\ req[s].txn \in Txns /\ req[s].key \in Trackers
      /\ req[s].event \in Events
      /\ txns[req[s].txn].tracker = req[s].key /\ sess[req[s].key].handed
  BY <1>1 DEF HandlerInv, AnswerHandler
<1>3. \A u \in Txns : txns[u].tracker = req[s].key => u = req[s].txn
  BY <1>2, StoredId, ConstantsAssumption
<1>4. txns[req[s].txn].inv \in Invoices \cup {None}
  BY <1>2 DEF Inv, TypeOK, TransactionRows
<1>. QED BY <1>1, <1>2, <1>3, <1>4 DEF HandlerInv, AnswerHandler, Settling,
    NothingLeft

\* The handler goes on with what it has; or it ends, having answered.
LEMMA WebhookAnswer ==
  ASSUME Inv, AnswerInv, NEW s \in Slots, req[s].pc \in WebhookPCs, Kept,
         NEW k, k = req[s].key, NEW e, e = req[s].event,
         NEW t, t = req[s].txn,
         \/ /\ UNCHANGED acked
            /\ \E pc \in WebhookPCs :
                  /\ Goto(s, pc)
                  /\ pc \in Settling =>
                        req[s].event = "succeeded"
                  /\ pc \in {"failure", "failureWrite"} =>
                        req[s].event = "failed"
                  /\ NothingLeft(t, pc)'
         \/ /\ Finish(s)
            /\ \E ok \in BOOLEAN : Ack(s, ok) /\ Answered(k, e, ok)'
  PROVE  AnswerInv'
<1>1. CASE /\ UNCHANGED acked
           /\ \E pc \in WebhookPCs :
                  /\ Goto(s, pc)
                  /\ pc \in Settling =>
                        req[s].event = "succeeded"
                  /\ pc \in {"failure", "failureWrite"} =>
                        req[s].event = "failed"
                  /\ NothingLeft(t, pc)'
  <2>1. PICK pc \in WebhookPCs :
           /\ Goto(s, pc)
           /\ pc \in Settling =>
                 req[s].event = "succeeded"
           /\ pc \in {"failure", "failureWrite"} => req[s].event = "failed"
           /\ NothingLeft(t, pc)'
    BY <1>1
  <2>2. pc \in PCs /\ pc # "storeTracker"
    BY DEF WebhookPCs, PCs
  <2>3. /\ req'[s].pc = pc /\ req'[s].txn = req[s].txn
        /\ req'[s].key = req[s].key /\ req'[s].event = req[s].event
        /\ \A q \in Slots \ {s} : req'[q] = req[q]
    BY <2>1, <2>2, Moves
  <2>4. txns'[req[s].txn].tracker = req[s].key /\ sess'[req[s].key].handed
    BY HandlersWebhook DEF Kept, Inv, TableInv
  <2>5. AnswerHandler(req[s])'
    BY <2>1, <2>2, <2>3, <2>4 DEF AnswerHandler, NothingLeft
  <2>. QED BY <1>1, <2>3, <2>5, AnswerStep
<1>2. CASE /\ Finish(s)
           /\ \E ok \in BOOLEAN : Ack(s, ok) /\ Answered(k, e, ok)'
  <2>1. \A q \in Slots : req'[q] = req[q] \/ AnswerHandler(req[q])'
    BY <1>2, Moves DEF AnswerHandler, Unhooked, WebhookPCs, PCs, Settling,
        NothingLeft
  <2>. QED BY <1>2, <2>1, AnswerStep DEF Ack
<1>. QED BY <1>1, <1>2

LEMMA ProcessPaymentAnswer ==
  ASSUME Inv, NEW t \in Txns, txns[t].inv \in Invoices,
         ProcessPaymentSuccess(t), UNCHANGED <<txns, sess>>
  PROVE  /\ Kept
         /\ inv[txns[t].inv].live => t \in settled'
         /\ ~inv[txns[t].inv].live => ~inv'[txns'[t].inv].live
<1> DEFINE i == txns[t].inv
<1>1. CASE inv[i].live
  <2>1. /\ inv' = [inv EXCEPT ![i] = [@ EXCEPT !.status = "paid", !.txn = t]]
        /\ settled' = settled \cup {t}
    BY <1>1 DEF ProcessPaymentSuccess
  <2>2. \A j \in Invoices : inv'[j].live = inv[j].live
    BY <2>1 DEF Inv, TypeOK, InvoiceRows
  <2>. QED BY <2>1, <2>2 DEF Kept
<1>2. CASE ~inv[i].live
  <2>1. UNCHANGED <<inv, settled>>
    BY <1>2 DEF ProcessPaymentSuccess
  <2>. QED BY <1>2, <2>1, KeptQuiet
<1>. QED BY <1>1, <1>2

LEMMA WebhookStepAnswer ==
  ASSUME Inv, AnswerInv, NEW s \in Slots, WebhookStep(s)
  PROVE  AnswerInv'
<1>. PICK k, e, t : /\ k = req[s].key /\ e = req[s].event
                    /\ t = req[s].txn
  OBVIOUS
<1>1. CASE UpdateTransactionStatus(s)
  <2>0. req[s].pc \in WebhookPCs
    BY <1>1 DEF UpdateTransactionStatus, At, WebhookPCs
  <2>1. /\ txns' = [txns EXCEPT ![t].status = EventStatus[e]]
        /\ UNCHANGED <<inv, sess, settled>>
    BY <1>1 DEF UpdateTransactionStatus
  <2>2. \A u \in Txns : /\ txns'[u].tracker = txns[u].tracker
                        /\ txns'[u].inv = txns[u].inv
    BY <2>1 DEF Inv, TypeOK, TransactionRows
  <2>3. Kept
    BY <2>1, <2>2 DEF Kept
  <2>4. CASE txns[t].inv # None /\ e \in {"succeeded", "failed"}
    <3>1. /\ Goto(s, IF e = "succeeded" THEN "handleSuccess" ELSE "failure")
          /\ UNCHANGED acked
      BY <1>1, <2>4 DEF UpdateTransactionStatus
    <3>2. CASE e = "succeeded"
      BY <2>0, <2>3, <3>1, <3>2, WebhookAnswer
         DEF WebhookPCs, NothingLeft, Settling
    <3>3. CASE e = "failed"
      BY <2>0, <2>3, <3>1, <3>3, WebhookAnswer
         DEF WebhookPCs, NothingLeft, Settling
    <3>. QED BY <2>4, <3>2, <3>3
  <2>5. CASE ~(txns[t].inv # None /\ e \in {"succeeded", "failed"})
    <3>1. Finish(s) /\ Ack(s, TRUE)
      BY <1>1, <2>5 DEF UpdateTransactionStatus
    <3>2. Answered(k, e, TRUE)'
      BY <2>0, <2>1, <2>2, <2>5, HandlersWebhook DEF Answered, Missed
    <3>. QED BY <2>0, <2>3, <3>1, <3>2, WebhookAnswer
  <2>. QED BY <2>4, <2>5
<1>2. CASE HandleSuccessfulPayment(s)
  <2>0. req[s].pc = "handleSuccess" /\ req[s].pc \in WebhookPCs
    BY <1>2 DEF HandleSuccessfulPayment, At, WebhookPCs
  <2>1. t \in Txns /\ txns[t].inv \in Invoices
    BY <2>0, HandlersWebhook
  <2>2. /\ Kept /\ UNCHANGED <<acked, txns>>
        /\ t \in settled' \/ ~inv'[txns'[t].inv].live
    BY <1>2, <2>1, ProcessPaymentAnswer DEF HandleSuccessfulPayment, gateway
  <2>3. Goto(s, "processSuccess") /\ req[s].event = "succeeded"
    BY <1>2, <2>0 DEF HandleSuccessfulPayment, AnswerInv, AnswerHandler, Settling
  <2>4. NothingLeft(t, "processSuccess")'
    BY <2>2 DEF NothingLeft
  <2>. QED BY <2>0, <2>2, <2>3, <2>4, WebhookAnswer DEF WebhookPCs
<1>3. CASE ProcessInvoicePayment(s)
  <2>0. req[s].pc = "processSuccess" /\ req[s].pc \in WebhookPCs
    BY <1>3 DEF ProcessInvoicePayment, At, WebhookPCs
  <2>1. /\ t \in Txns /\ txns[t].inv \in Invoices
        /\ UNCHANGED <<inv, txns, sess, settled>>
    BY <1>3, <2>0, HandlersWebhook DEF ProcessInvoicePayment
  <2>2. Kept /\ req[s].event = "succeeded" /\ NothingLeft(t, req[s].pc)
    BY <2>0, <2>1, KeptQuiet DEF AnswerInv, AnswerHandler, Settling
  <2>3. CASE inv[txns[t].inv].live
    <3>1. Goto(s, "processWrite") /\ UNCHANGED acked
      BY <1>3, <2>3 DEF ProcessInvoicePayment
    <3>2. NothingLeft(t, "processWrite")'
      BY <2>0, <2>1, <2>2, <2>3 DEF NothingLeft
    <3>. QED BY <2>0, <2>2, <3>1, <3>2, WebhookAnswer DEF WebhookPCs
  <2>4. CASE ~inv[txns[t].inv].live
    <3>1. Finish(s) /\ Ack(s, FALSE)
      BY <1>3, <2>4 DEF ProcessInvoicePayment
    <3>2. Answered(k, e, FALSE)'
      BY <2>0, <2>1, <2>4, HandlersWebhook DEF Answered, Missed
    <3>. QED BY <2>0, <2>2, <3>1, <3>2, WebhookAnswer
  <2>. QED BY <2>3, <2>4
<1>6. CASE WritePaidInvoice(s)
  <2>0. req[s].pc = "processWrite" /\ req[s].pc \in WebhookPCs
    BY <1>6 DEF WritePaidInvoice, At, WebhookPCs
  <2>1. /\ t \in Txns /\ txns[t].inv \in Invoices
        /\ UNCHANGED <<txns, sess>>
    BY <1>6, <2>0, HandlersWebhook DEF WritePaidInvoice
  <2>2. /\ Kept
        /\ t \in settled' \/ ~inv'[txns'[t].inv].live
    BY <1>6, <2>1, ProcessPaymentAnswer DEF WritePaidInvoice
  <2>3. "dbError" \notin Ops => t \in settled'
    BY <2>0, <2>2 DEF AnswerInv, AnswerHandler, NothingLeft, Kept
  <2>4. Finish(s) /\ Ack(s, TRUE)
    BY <1>6 DEF WritePaidInvoice
  <2>5. Answered(k, e, TRUE)'
    BY <2>0, <2>1, <2>2, <2>3, HandlersWebhook DEF Answered, Missed
  <2>. QED BY <2>0, <2>2, <2>4, <2>5, WebhookAnswer
<1>4. CASE ReadInvoiceOfFailure(s)
  <2>0. req[s].pc \in {"failure", "failureWrite"} /\ req[s].pc \in WebhookPCs
    BY <1>4 DEF ReadInvoiceOfFailure, At, WebhookPCs
  <2>1. UNCHANGED <<inv, txns, sess, settled>>
    BY <1>4 DEF ReadInvoiceOfFailure
  <2>2. /\ Kept /\ req[s].event = "failed"
        /\ \A ok \in BOOLEAN : Answered(k, e, ok)'
    BY <2>0, <2>1, KeptQuiet, HandlersWebhook DEF Answered
  <2>3. PICK ok \in BOOLEAN : ok = inv[txns[req[s].txn].inv].live
    BY <2>0, HandlersWebhook DEF Inv, TypeOK, InvoiceRows
  <2>4. \/ Goto(s, "failureWrite") /\ UNCHANGED acked
        \/ Finish(s) /\ Ack(s, ok)
    BY <1>4, <2>3 DEF ReadInvoiceOfFailure
  <2>5. NothingLeft(t, "failureWrite")'
    BY DEF NothingLeft
  <2>6. "failureWrite" \in WebhookPCs /\ "failureWrite" \notin Settling
    BY DEF WebhookPCs, Settling
  <2>. QED BY <2>0, <2>2, <2>4, <2>5, <2>6, WebhookAnswer
<1>5. CASE WriteInvoiceOfFailure(s)
  <2>0. req[s].pc \in {"failure", "failureWrite"} /\ req[s].pc \in WebhookPCs
    BY <1>5 DEF WriteInvoiceOfFailure, At, WebhookPCs
  <2>1. /\ UNCHANGED <<txns, sess, settled>>
        /\ inv' = [inv EXCEPT ![txns[t].inv].status = "sent"] \/ inv' = inv
    BY <1>5 DEF WriteInvoiceOfFailure
  <2>2. \A i \in Invoices : inv'[i].live = inv[i].live
    BY <2>1 DEF Inv, TypeOK, InvoiceRows
  <2>3. Kept /\ \A ok \in BOOLEAN : Answered(k, e, ok)'
    BY <2>0, <2>1, <2>2, HandlersWebhook DEF Kept, Answered
  <2>4. inv[txns[t].inv].live \in BOOLEAN
    BY <2>0, HandlersWebhook DEF Inv, TypeOK, InvoiceRows
  <2>5. PICK ok \in BOOLEAN : Finish(s) /\ Ack(s, ok)
    BY <1>5, <2>4 DEF WriteInvoiceOfFailure
  <2>. QED BY <2>0, <2>3, <2>5, WebhookAnswer
<1>. QED BY <1>1, <1>2, <1>3, <1>4, <1>5, <1>6 DEF WebhookStep

\* A row is inserted with no session id.
LEMMA NewRowAnswer ==
  ASSUME Inv, NEW t \in Txns, IsNext(t), NEW e, e.tracker = None,
         txns' = [txns EXCEPT ![t] = e], UNCHANGED <<inv, sess, settled>>
  PROVE  Kept
  BY DEF Kept, IsNext, Recorded, Inv, TypeOK, TableInv

\* The id that is stored has not been answered for, and nobody else has it.
LEMMA StoreTrackerAnswer ==
  ASSUME Inv, AnswerInv, NEW s \in Slots, StoreTracker(s)
  PROVE  AnswerInv'
<1>0. HandlerInv(req[s]) /\ AnswerHandler(req[s]) /\ At(s, "storeTracker")
  BY DEF Inv, AnswerInv, StoreTracker
<1>1. PICK t \in Txns, k \in Trackers : t = req[s].txn /\ k = req[s].key
  BY <1>0 DEF HandlerInv, Writing, At
<1>2. /\ txns[t].tracker = None /\ sess[k].txn = t /\ ~sess[k].handed
  BY <1>0, <1>1 DEF HandlerInv, AnswerHandler, Writing, At
<1>3. /\ txns' = [txns EXCEPT ![t] = [@ EXCEPT !.tracker = k]]
      /\ sess' = [sess EXCEPT ![k] = [@ EXCEPT !.handed = TRUE]]
      /\ UNCHANGED <<inv, acked, settled>>
  BY <1>1 DEF StoreTracker
<1>4. /\ \A u \in Txns \ {t} : txns'[u] = txns[u]
      /\ \A u \in Txns : txns'[u].inv = txns[u].inv
      /\ txns'[t].tracker = k
      /\ \A j \in Trackers \ {k} : sess'[j] = sess[j]
  BY <1>3 DEF Inv, TypeOK, TransactionRows
<1>5. ASSUME NEW j \in Trackers, NEW e \in Events, NEW ok \in BOOLEAN,
             <<j, e, ok>> \in acked'
      PROVE  Answered(j, e, ok)'
  <2>1. Answered(j, e, ok) /\ j # k
    BY <1>2, <1>3, <1>5 DEF AnswerInv, Answered
  <2>2. ASSUME e = "succeeded", NEW u \in Txns, txns'[u].tracker = j,
               txns'[u].inv # None
        PROVE  \/ u \in settled'
               \/ Missed(ok, inv'[txns'[u].inv].live)
    <3>1. u # t /\ txns'[u] = txns[u]
      BY <1>4, <2>1, <2>2
    <3>2. \/ u \in settled
          \/ Missed(ok, inv[txns[u].inv].live)
      BY <2>1, <2>2, <3>1 DEF Answered
    <3>. QED BY <1>3, <3>1, <3>2
  <2>3. sess'[j].handed
    BY <1>4, <2>1 DEF Answered
  <2>. QED BY <2>2, <2>3 DEF Answered
<1>6. ASSUME NEW q \in Slots PROVE AnswerHandler(req[q])'
  <2>1. CASE req'[q] # req[q]
    BY <2>1, Moves DEF StoreTracker, AnswerHandler, Unhooked, WebhookPCs, PCs,
        Settling, NothingLeft
  <2>2. CASE q # s /\ req'[q] = req[q] /\ req[q].pc = "storeTracker"
    <3>1. /\ req[q].txn # t /\ sess[req[q].key].txn = req[q].txn
          /\ req[q].key \in Trackers /\ ~sess[req[q].key].handed
      BY <1>0, <1>1, <2>2
         DEF Inv, OneWriter, HandlerInv, AnswerInv, AnswerHandler, Writing, At
    <3>. QED BY <1>2, <1>4, <2>2, <3>1 DEF AnswerHandler, WebhookPCs,
        Settling, NothingLeft
  <2>3. CASE req'[q] = req[q] /\ req[q].pc \in WebhookPCs
    <3>1. /\ req[q].key \in Trackers \ {k} /\ req[q].txn \in Txns \ {t}
          /\ txns[req[q].txn].tracker = req[q].key /\ sess[req[q].key].handed
      BY <1>2, <2>3, HandlersWebhook, ConstantsAssumption
    <3>2. NothingLeft(req[q].txn, req[q].pc) /\ AnswerHandler(req[q])
      BY DEF AnswerInv, AnswerHandler
    <3>3. NothingLeft(req[q].txn, req[q].pc)'
      BY <1>3, <1>4, <2>3, <3>1, <3>2 DEF NothingLeft
    <3>4. /\ txns'[req'[q].txn].tracker = req'[q].key
          /\ sess'[req'[q].key].handed
      BY <1>4, <2>3, <3>1
    <3>. QED BY <2>3, <3>2, <3>3, <3>4 DEF AnswerHandler, WebhookPCs
  <2>4. CASE req'[q] = req[q] /\ req[q].pc \notin WebhookPCs \cup {"storeTracker"}
    BY <2>4 DEF AnswerHandler, WebhookPCs, Settling, NothingLeft
  <2>5. req'[s] # req[s]
    <3>1. req'[s] = IdleRequest
      BY DEF StoreTracker, Finish, Inv, TypeOK
    <3>. QED BY <1>0, <3>1, IdleType DEF At
  <2>. QED BY <2>1, <2>2, <2>3, <2>4, <2>5
<1>. QED BY <1>5, <1>6 DEF AnswerInv

LEMMA SessionStepAnswer ==
  ASSUME Inv, AnswerInv, NEW s \in Slots, SessionStep(s)
  PROVE  AnswerInv'
<1>1. CASE CreateTransaction(s)
  <2>1. PICK e : e = [NoTransaction EXCEPT !.kind = "online",
                        !.inv = req[s].inv, !.student = req[s].student]
    OBVIOUS
  <2>2. PICK t \in Txns : /\ IsNext(t) /\ txns' = [txns EXCEPT ![t] = e]
                          /\ req' = [req EXCEPT ![s].pc = "callGateway",
                                                ![s].txn = t]
    BY <1>1, <2>1 DEF CreateTransaction
  <2>3. e.tracker = None
    BY <2>1 DEF NoTransaction
  <2>4. UNCHANGED <<inv, sess, acked, settled>>
    BY <1>1 DEF CreateTransaction, gateway
  <2>5. Kept
    BY <2>2, <2>3, <2>4, NewRowAnswer
  <2>6. \A q \in Slots : req'[q] = req[q] \/ req'[q].pc = "callGateway"
    BY <2>2 DEF Inv, TypeOK, Handlers
  <2>. QED BY <2>4, <2>5, <2>6, AnswerQuiet DEF Unhooked, PCs, WebhookPCs
<1>2. CASE CallGateway(s)
  <2>1. PICK k \in Trackers :
          /\ sess[k].txn = None
          /\ sess' = [sess EXCEPT ![k] = [txn |-> req[s].txn, handed |-> FALSE]]
          /\ req' = [req EXCEPT ![s].pc = "storeTracker", ![s].key = k]
    BY <1>2 DEF CallGateway, OpenSession
  <2>2. UNCHANGED <<inv, txns, acked, settled>>
    BY <1>2 DEF CallGateway
  <2>3. Kept /\ ~sess'[k].handed
    BY <2>1, <2>2, ConstantsAssumption DEF Kept, Inv, TypeOK
  <2>4. /\ req'[s].pc = "storeTracker" /\ req'[s].key = k
        /\ \A q \in Slots \ {s} : req'[q] = req[q]
    BY <2>1 DEF Inv, TypeOK, Handlers
  <2>5. AnswerHandler(req[s])'
    BY <2>3, <2>4 DEF AnswerHandler, WebhookPCs, Settling, NothingLeft
  <2>. QED BY <2>2, <2>3, <2>4, <2>5, AnswerStep
<1>3. CASE ReuseSession(s)
  <2>1. PICK k \in Trackers :
          /\ sess[k].txn = None
          /\ sess' = [sess EXCEPT ![k] = [txn |-> req[s].txn, handed |-> TRUE]]
    BY <1>3 DEF ReuseSession, OpenSession
  <2>2. UNCHANGED <<inv, txns, acked, settled>> /\ Finish(s)
    BY <1>3 DEF ReuseSession
  <2>3. Kept
    BY <2>1, <2>2, ConstantsAssumption DEF Kept, Inv, TypeOK
  <2>. QED BY <2>2, <2>3, Moves, AnswerQuiet
<1>4. CASE StoreTracker(s)
  BY <1>4, StoreTrackerAnswer
<1>. QED BY <1>1, <1>2, <1>3, <1>4 DEF SessionStep

\* The steps of the other handlers.
LEMMA OtherStepAnswer ==
  ASSUME Inv, AnswerInv, NEW s \in Slots,
         \/ CreateRefund(s) \/ WriteInvoiceOfRefund(s)
         \/ CancelExpired(s) \/ RequestFails(s)
  PROVE  AnswerInv'
<1>1. CASE CreateRefund(s)
  <2>0. PICK e : e = [NoTransaction EXCEPT !.kind = "refund",
                    !.status = "refunded", !.inv = req[s].inv,
                    !.of = req[s].txn, !.student = txns[req[s].txn].student]
    OBVIOUS
  <2>1. PICK t \in Txns : IsNext(t) /\ txns' = [txns EXCEPT ![t] = e]
    BY <1>1, <2>0 DEF CreateRefund
  <2>2. e.tracker = None
    BY <2>0 DEF NoTransaction
  <2>3. UNCHANGED <<inv, sess, acked, settled>> /\ Goto(s, "refundWrite")
    BY <1>1 DEF CreateRefund, gateway
  <2>4. "refundWrite" \in Unhooked /\ "refundWrite" \in PCs
    BY DEF Unhooked, PCs, WebhookPCs
  <2>5. \A q \in Slots : req'[q] = req[q] \/ req'[q].pc \in Unhooked
    BY <2>3, <2>4, Moves
  <2>. QED BY <2>1, <2>2, <2>3, <2>5, NewRowAnswer, AnswerQuiet
<1>2. CASE WriteInvoiceOfRefund(s)
  <2>1. /\ UNCHANGED <<txns, sess, acked, settled>> /\ Finish(s)
        /\ inv' = [inv EXCEPT ![req[s].inv].status = "overdue"] \/ inv' = inv
    BY <1>2 DEF WriteInvoiceOfRefund, gateway
  <2>2. \A i \in Invoices : inv'[i].live = inv[i].live
    BY <2>1 DEF Inv, TypeOK, InvoiceRows
  <2>3. Kept
    BY <2>1, <2>2 DEF Kept
  <2>. QED BY <2>1, <2>3, Moves, AnswerQuiet
<1>3. CASE CancelExpired(s)
  <2>1. PICK t \in Newest(req[s].todo) :
          /\ txns' = [txns EXCEPT ![t].status = "cancelled"]
          /\ IF req[s].todo = {t}
             THEN Finish(s)
             ELSE req' = [req EXCEPT ![s].todo = @ \ {t}]
    BY <1>3 DEF CancelExpired
  <2>2. UNCHANGED <<inv, sess, acked, settled>> /\ req[s].pc = "cleanup"
    BY <1>3 DEF CancelExpired, gateway, At
  <2>3. \A u \in Txns : /\ txns'[u].tracker = txns[u].tracker
                        /\ txns'[u].inv = txns[u].inv
    BY <2>1 DEF Inv, TypeOK, TransactionRows
  <2>4. Kept
    BY <2>2, <2>3 DEF Kept
  <2>5. \A q \in Slots : req'[q] = req[q] \/ req'[q].pc \in Unhooked
    <3>1. CASE Finish(s)
      BY <3>1, Moves
    <3>2. CASE req' = [req EXCEPT ![s].todo = @ \ {t}]
      BY <2>2, <3>2 DEF Inv, TypeOK, Handlers, Unhooked, PCs, WebhookPCs
    <3>. QED BY <2>1, <3>1, <3>2
  <2>. QED BY <2>2, <2>4, <2>5, AnswerQuiet
<1>4. CASE RequestFails(s)
  <2>1. Kept /\ UNCHANGED acked /\ Finish(s)
    BY <1>4, KeptQuiet DEF RequestFails, gateway
  <2>. QED BY <2>1, Moves, AnswerQuiet
<1>. QED BY <1>1, <1>2, <1>3, <1>4

\* No handler moves in what the gateway, the staff and a restart do.
LEMMA OutsideAnswer ==
  ASSUME Inv, AnswerInv,
         \/ \E k \in Trackers, e \in Events : GatewayEvent(k, e)
         \/ Staff \/ BankTransfer \/ Crash \/ UNCHANGED vars
  PROVE  AnswerInv'
<1>0. ASSUME Kept, UNCHANGED <<acked, req>> PROVE AnswerInv'
  BY <1>0, AnswerQuiet
<1>1. CASE \E k \in Trackers, e \in Events : GatewayEvent(k, e)
  BY <1>0, <1>1, KeptQuiet DEF GatewayEvent
<1>2. CASE Staff
  <2>1. PICK i \in Invoices :
          \/ \E status \in InvoiceStatus : UpdateInvoice(i, status)
          \/ \E ref \in {None, External} : MarkAsPaid(i, ref)
          \/ ApprovePayment(i) \/ RemoveInvoice(i)
    BY <1>2 DEF Staff
  <2>2. UNCHANGED <<txns, req, sess, acked, settled>>
    BY <2>1 DEF UpdateInvoice, MarkAsPaid, ApprovePayment, RemoveInvoice, gateway
  <2>3. PICK r : /\ inv' = [inv EXCEPT ![i] = r]
                 /\ ~inv[i].live => ~r.live
    <3>1. ASSUME NEW status, UpdateInvoice(i, status)
          PROVE  inv' = [inv EXCEPT ![i] = [@ EXCEPT !.status = status]]
      BY <3>1 DEF UpdateInvoice
    <3>2. ASSUME NEW ref, MarkAsPaid(i, ref)
          PROVE  inv' = [inv EXCEPT ![i] = [@ EXCEPT !.status = "paid",
                           !.txn = IF ref = None THEN inv[i].txn ELSE ref]]
      BY <3>2 DEF MarkAsPaid
    <3>3. ASSUME ApprovePayment(i)
          PROVE  inv' = [inv EXCEPT ![i] = [@ EXCEPT !.status = "paid"]]
      BY <3>3 DEF ApprovePayment
    <3>4. ASSUME RemoveInvoice(i)
          PROVE  inv' = [inv EXCEPT ![i] = [@ EXCEPT !.live = FALSE]]
      BY <3>4 DEF RemoveInvoice
    <3>5. inv[i].live
      BY <2>1 DEF UpdateInvoice, MarkAsPaid, ApprovePayment, RemoveInvoice
    <3>. QED BY <2>1, <3>1, <3>2, <3>3, <3>4, <3>5
  <2>4. \A j \in Invoices : ~inv[j].live => ~inv'[j].live
    BY <2>3 DEF Inv, TypeOK
  <2>. QED BY <1>0, <2>2, <2>4 DEF Kept
<1>3. CASE BankTransfer
  <2>1. UNCHANGED <<inv, req, sess, acked, settled>>
    BY <1>3 DEF BankTransfer, CreateBankTransferPayment,
                UpdateBankTransferStatus, gateway
  <2>2. ASSUME NEW i \in Invoices, CreateBankTransferPayment(i) PROVE Kept
    <3>0. PICK e : e = [NoTransaction EXCEPT !.kind = "bank", !.inv = i,
                                            !.student = Owner[i]]
      OBVIOUS
    <3>1. PICK t \in Txns : IsNext(t) /\ txns' = [txns EXCEPT ![t] = e]
      BY <2>2, <3>0 DEF CreateBankTransferPayment
    <3>2. e.tracker = None
      BY <3>0 DEF NoTransaction
    <3>. QED BY <2>1, <3>1, <3>2, NewRowAnswer
  <2>3. ASSUME NEW t \in Txns, NEW status, UpdateBankTransferStatus(t, status)
        PROVE  Kept
    <3>1. txns' = [txns EXCEPT ![t].status = status]
      BY <2>3 DEF UpdateBankTransferStatus
    <3>2. \A u \in Txns : /\ txns'[u].tracker = txns[u].tracker
                          /\ txns'[u].inv = txns[u].inv
      BY <3>1 DEF Inv, TypeOK, TransactionRows
    <3>. QED BY <2>1, <3>2 DEF Kept
  <2>. QED BY <1>0, <1>3, <2>1, <2>2, <2>3 DEF BankTransfer
<1>4. CASE Crash
  <2>1. Kept /\ UNCHANGED acked /\ req' = [s \in Slots |-> IdleRequest]
    BY <1>4, KeptQuiet DEF Crash, gateway
  <2>2. IdleRequest.pc \in Unhooked
    BY DEF IdleRequest, Unhooked, PCs, WebhookPCs
  <2>. QED BY <2>1, <2>2, AnswerQuiet
<1>5. CASE UNCHANGED vars
  BY <1>0, <1>5, KeptQuiet DEF vars, gateway
<1>. QED BY <1>1, <1>2, <1>3, <1>4, <1>5

LEMMA InitAnswer == ASSUME Init PROVE AnswerInv
<1>1. \A s \in Slots : AnswerHandler(req[s])
  BY DEF Init, AnswerHandler, IdleRequest, WebhookPCs, Settling, NothingLeft
<1>. QED BY <1>1 DEF Init, AnswerInv

\* A swallowed error is answered, but not as a success.
LEMMA DatabaseErrorAnswer ==
  ASSUME Inv, AnswerInv, NEW s \in Slots, WebhookDatabaseError(s)
  PROVE  AnswerInv'
<1>. PICK k, e, t : /\ k = req[s].key /\ e = req[s].event
                    /\ t = req[s].txn
  OBVIOUS
<1>1. /\ req[s].pc \in WebhookPCs /\ ~Dependable
      /\ UNCHANGED <<inv, txns, sess, settled>>
  BY DEF WebhookDatabaseError, Dependable
<1>2. Kept
  BY <1>1, KeptQuiet
<1>3. CASE At(s, "handleSuccess")
  <2>1. Goto(s, "processSuccess") /\ UNCHANGED acked
    BY <1>3 DEF WebhookDatabaseError
  <2>2. req[s].event = "succeeded"
    BY <1>3 DEF AnswerInv, AnswerHandler, At, Settling
  <2>3. "dbError" \in Ops
    BY DEF WebhookDatabaseError
  <2>. QED BY <1>1, <1>2, <2>1, <2>2, <2>3, WebhookAnswer
           DEF WebhookPCs, NothingLeft
<1>4. CASE ~At(s, "handleSuccess")
  <2>1. Finish(s) /\ Ack(s, FALSE)
    BY <1>4 DEF WebhookDatabaseError
  <2>2. Answered(k, e, FALSE)'
    BY <1>1, HandlersWebhook DEF Answered, Missed, Dependable
  <2>. QED BY <1>1, <1>2, <2>1, <2>2, WebhookAnswer
<1>. QED BY <1>3, <1>4

LEMMA NextAnswer ==
  ASSUME Inv, AnswerInv, [Next]_vars
  PROVE  AnswerInv'
<1>1. ASSUME NEW s \in Slots, StartRequest(s) PROVE AnswerInv'
  BY <1>1, StartRequestAnswer
<1>2. ASSUME NEW s \in Slots, HandlerStep(s) PROVE AnswerInv'
  BY <1>2, WebhookStepAnswer, SessionStepAnswer, OtherStepAnswer
     DEF HandlerStep
<1>3. ASSUME NEW s \in Slots, WebhookDatabaseError(s) PROVE AnswerInv'
  BY <1>3, DatabaseErrorAnswer
<1>4. CASE \/ \E k \in Trackers, e \in Events : GatewayEvent(k, e)
           \/ Staff \/ BankTransfer \/ Crash \/ UNCHANGED vars
  BY <1>4, OutsideAnswer
<1>. QED BY <1>1, <1>2, <1>3, <1>4 DEF Next

\* Whatever runs, fails or crashes, answers are as AnswerInv says.
LEMMA AnswerInvariance == Spec => [](Inv /\ AnswerInv)
<1>1. Init => AnswerInv
  BY InitAnswer
<1>2. Inv /\ AnswerInv /\ [Next]_vars => AnswerInv'
  BY NextAnswer
<1>. QED BY <1>1, <1>2, Invariance, PTL DEF Spec

\* Only events the gateway sends are answered.
LEMMA AnswerTypes ==
  ASSUME Inv, NEW k, NEW e, NEW ok, <<k, e, ok>> \in acked
  PROVE  k \in Trackers /\ e \in Events /\ ok \in BOOLEAN
  BY DEF Inv, TypeOK, Answers

\* What an answered payment webhook should have done is done, whatever ran or
\* crashed meanwhile: the gateway may stop sending it.
THEOREM AnsweredSettled ==
  ASSUME Dependable PROVE Spec => []AnsweredPaymentIsSettled
<1>1. ASSUME Inv, AnswerInv PROVE AnsweredPaymentIsSettled
  <2>1. ASSUME NEW t \in Recorded, NEW k \in Trackers, txns[t].tracker = k,
               txns[t].inv # None, Acked(k, "succeeded")
        PROVE  t \in settled \/ ~inv[txns[t].inv].live
    <3>1. PICK ok \in BOOLEAN : <<k, "succeeded", ok>> \in acked
      BY <2>1 DEF Acked
    <3>2. Answered(k, "succeeded", ok) /\ t \in Txns
      BY <1>1, <3>1, AnswerTypes DEF AnswerInv, Recorded
    <3>. QED BY <2>1, <3>2 DEF Answered, Missed
  <2>. QED BY <2>1 DEF AnsweredPaymentIsSettled
<1>. QED BY <1>1, AnswerInvariance, PTL

\* Nothing is assumed of gateways or the database: an answer that says success
\* is one to a payment that was booked, unless a database error cost the first
\* of the two bookings and the removal of the invoice the second.
THEOREM SuccessSettled == Spec => []SuccessMeansSettled
<1>1. ASSUME Inv, AnswerInv PROVE SuccessMeansSettled
  <2>1. ASSUME NEW t \in Recorded, NEW k \in Trackers, txns[t].tracker = k,
               txns[t].inv # None, <<k, "succeeded", TRUE>> \in acked
        PROVE  t \in settled \/ ("dbError" \in Ops /\ ~inv[txns[t].inv].live)
    <3>1. Answered(k, "succeeded", TRUE) /\ t \in Txns
      BY <1>1, <2>1, AnswerTypes DEF AnswerInv, Recorded
    <3>. QED BY <2>1, <3>1 DEF Answered, Missed
  <2>. QED BY <2>1 DEF SuccessMeansSettled
<1>. QED BY <1>1, AnswerInvariance, PTL

=============================================================================
