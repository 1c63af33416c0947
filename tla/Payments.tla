------------------------------- MODULE Payments -------------------------------
(***************************************************************************)
(* PaymentsService: orders at Razorpay and the webhook that completes a    *)
(* captured one, composed with the booking core.  The webhook keeps no     *)
(* state between the two: the order's notes carry the hold, the mandate    *)
(* and an idempotency key, and the delivery confirms that hold under that  *)
(* key as a request of Reservations; a confirm that fails is refunded.     *)
(*                                                                         *)
(* Razorpay is external: it captures a payment once per order, delivers    *)
(* the event at least once, in any number of overlapping copies, and       *)
(* refuses to refund one payment twice.                                    *)
(***************************************************************************)
EXTENDS Reservations

CONSTANTS
  Orders,          \* Razorpay orders, each with its one payment
  OrderKey,        \* notes.idempotencyKey, a fresh UUID per order
  OrderCalls       \* the confirms orders are made for

ASSUME PaymentsAssumption ==
  /\ Nil \notin Orders
  /\ OrderKey \in [Orders -> Keys]
  /\ \A o1, o2 \in Orders : OrderKey[o1] = OrderKey[o2] => o1 = o2
  /\ OrderCalls \subseteq Call
  /\ \A c \in OrderCalls : c.op = "confirm"

VARIABLES
  order,           \* [state, notes] of each order
  delivery,        \* the order a request is a webhook delivery of, or Nil
  stage,           \* where the webhook handler is around its confirm
  refunded,        \* the orders Razorpay has refunded
  razorpayPaymentId, \* the order recorded on a reservation's payment row, or Nil
  compensations    \* agent_decisions of step COMPENSATE: <<mandate, order, reason>>

payment == <<order, delivery, stage, refunded, razorpayPaymentId, compensations>>
allVars == <<vars, payment>>

OrderStates == {"none", "allowed", "denied", "created", "captured"}
Stages == {"none", "confirming", "log", "acked", "ignored", "failed"}

PaymentsTypeOK ==
  /\ order \in [Orders -> [state: OrderStates, notes: Call \cup {Nil}]]
  /\ delivery \in [Requests -> Orders \cup {Nil}]
  /\ stage \in [Requests -> Stages]
  /\ refunded \subseteq Orders
  /\ razorpayPaymentId \in [Requests -> Orders \cup {Nil}]
  /\ compensations \subseteq Mandates \X Orders \X Statuses

-------------------------------------------------------------------------------
(* POST /payments/orders *)

SetOrder(o, state, notes) ==
  /\ order' = [order EXCEPT ![o] = [state |-> state, notes |-> notes]]
  /\ UNCHANGED <<vars, delivery, stage, refunded, razorpayPaymentId, compensations>>

\* The preview's verdict: without a mandate there is nothing to preview.
Previewed(c) ==
  IF c.mandate = Nil THEN "ALLOW"
  ELSE EvaluateMandate(mandates[c.mandate], CheckOf(c), now)

\* createOrder up to its preview, for a hold the client was given.  The PROPOSE row
\* the preview logs says what the order's state says.
PreviewOrder(o, c) ==
  /\ Provider = "razorpay"
  /\ order[o].state = "none"
  /\ ~ Misplaced(c)
  /\ Known(c)
  /\ c.mandate # Nil => mandates[c.mandate].owner = c.user
  /\ SetOrder(o, IF Previewed(c) = "ALLOW" THEN "allowed" ELSE "denied", c)

\* razorpay.createOrder, with the notes that the webhook will read.
CreateOrder(o) ==
  /\ order[o].state = "allowed"
  /\ SetOrder(o, "created", [order[o].notes EXCEPT !.key = OrderKey[o]])

\* The person pays.
Capture(o) ==
  /\ order[o].state = "created"
  /\ SetOrder(o, "captured", order[o].notes)

-------------------------------------------------------------------------------
(* POST /payments/webhook/razorpay *)

\* What the webhook confirms: the hold, for the user and seat of its metadata, under
\* the key and mandate of the notes.
ConfirmOf(o) ==
  LET notes == order[o].notes
      meta == call[notes.hold] IN
  [notes EXCEPT !.user = meta.user, !.table = meta.table, !.slot = meta.slot]

\* A correctly signed payment.captured event reaches the handler, in a request r of
\* its own.
Receive(r, o, next) ==
  /\ At(r, "idle") /\ stage[r] = "none"
  /\ order[o].state = "captured"
  /\ delivery' = [delivery EXCEPT ![r] = o]
  /\ stage' = [stage EXCEPT ![r] = next]
  /\ UNCHANGED <<order, refunded, razorpayPaymentId, compensations>>

\* resolveHold finds the metadata gone: the event is acknowledged.
Ignore(r, o) ==
  /\ Receive(r, o, "ignored")
  /\ order[o].notes.hold \notin holdMeta
  /\ UNCHANGED vars

\* resolveHold finds it: confirmHold is called.
Deliver(r, o) ==
  /\ Receive(r, o, "confirming")
  /\ order[o].notes.hold \in holdMeta
  /\ call' = [call EXCEPT ![r] = ConfirmOf(o)]
  /\ Goto(r, "claim")
  /\ UNCHANGED <<shared, reply, seenVersion, attempt, world>>

\* Mutant: only a booking this delivery made itself counts as one.
ConfirmedHere(r) == reply[r].status = "created" /\ reply[r].id = r

\* confirmHold returned a reservation, made now or replayed.
Confirmed(r) == reply[r].status = "created"

\* Where the handler goes on from the end of its confirm.
AfterConfirm(r) == stage[r] = "confirming" /\ At(r, "done")

\* Mutant: the link goes to the row of the request at hand.
RecordOnOwnRow(r) ==
  /\ AfterConfirm(r)
  /\ Confirmed(r)
  /\ razorpayPaymentId' = [razorpayPaymentId EXCEPT ![r] =
                             IF @ = Nil THEN delivery[r] ELSE @]
  /\ stage' = [stage EXCEPT ![r] = "acked"]
  /\ UNCHANGED <<vars, order, delivery, refunded, compensations>>

\* The payment row of the reservation gets the payment's id, unless it has one.
RecordPayment(r) ==
  /\ AfterConfirm(r)
  /\ Confirmed(r)
  /\ razorpayPaymentId' = [razorpayPaymentId EXCEPT ![reply[r].id] =
                             IF @ = Nil THEN delivery[r] ELSE @]
  /\ stage' = [stage EXCEPT ![r] = "acked"]
  /\ UNCHANGED <<vars, order, delivery, refunded, compensations>>

\* RazorpayClient.refund throws: Razorpay does not refund one payment twice.
RefundRefused(o) == o \in refunded

\* Mutant: the early return for an order without a mandate comes first.
RefundMandatesOnly(r) ==
  LET o == delivery[r] IN
  /\ AfterConfirm(r)
  /\ ~ Confirmed(r)
  /\ IF call[r].mandate = Nil
     THEN stage' = [stage EXCEPT ![r] = "acked"] /\ UNCHANGED refunded
     ELSE /\ o \notin refunded
          /\ refunded' = refunded \cup {o}
          /\ stage' = [stage EXCEPT ![r] = "log"]
  /\ UNCHANGED <<vars, order, delivery, razorpayPaymentId, compensations>>

\* compensate, whatever the confirm threw: the refund.  A second refund of one
\* payment is refused there and answers 500 here.  (The code refunds an entity with
\* an id and an amount only, and Razorpay's payment entities have both.)
Refund(r) ==
  LET o == delivery[r] IN
  /\ AfterConfirm(r)
  /\ ~ Confirmed(r)
  /\ refunded' = refunded \cup {o}
  /\ stage' = [stage EXCEPT ![r] =
                 IF RefundRefused(o) THEN "failed"
                 ELSE IF call[r].mandate = Nil THEN "acked" ELSE "log"]
  /\ UNCHANGED <<vars, order, delivery, razorpayPaymentId, compensations>>

\* failureReason: the deny reason or the message of what the confirm threw.
FailureReason(r) == reply[r].status

\* Its decision row, for an order under a mandate.
LogCompensation(r) ==
  /\ stage[r] = "log"
  /\ compensations' = compensations \cup {<<call[r].mandate, delivery[r], FailureReason(r)>>}
  /\ stage' = [stage EXCEPT ![r] = "acked"]
  /\ UNCHANGED <<vars, order, delivery, refunded, razorpayPaymentId>>

\* An await of the webhook's own fails, or the process dies there: no 2xx, and
\* Razorpay delivers the event again.
Unacknowledged(r) ==
  /\ faults < MaxFaults
  /\ faults' = faults + 1
  /\ stage' = [stage EXCEPT ![r] = "failed"]
  /\ UNCHANGED <<shared, pc, reply, locals, now, order, delivery, compensations>>

WebhookFails(r) ==
  /\ AfterConfirm(r) \/ stage[r] = "log"
  /\ Unacknowledged(r)
  /\ UNCHANGED <<refunded, razorpayPaymentId>>

\* The same, once the refund or the payment's id is written.
WebhookAnswerLost(r) ==
  /\ AfterConfirm(r)
  /\ IF Confirmed(r)
     THEN /\ razorpayPaymentId' = [razorpayPaymentId EXCEPT ![reply[r].id] =
                                     IF @ = Nil THEN delivery[r] ELSE @]
          /\ UNCHANGED refunded
     ELSE /\ refunded' = refunded \cup {delivery[r]}
          /\ UNCHANGED razorpayPaymentId
  /\ Unacknowledged(r)

-------------------------------------------------------------------------------
(* The specification *)

PaymentsInit ==
  /\ Init
  /\ order = [o \in Orders |-> [state |-> "none", notes |-> Nil]]
  /\ delivery = [r \in Requests |-> Nil]
  /\ stage = [r \in Requests |-> "none"]
  /\ refunded = {}
  /\ razorpayPaymentId = [r \in Requests |-> Nil]
  /\ compensations = {}

\* The key of an order is in its notes, which createOrder answers: a confirm that
\* uses it comes after that.
KeyHandedOut(c) ==
  c.op = "confirm" =>
    \A o \in Orders : OrderKey[o] = c.key => order[o].state \in {"created", "captured"}

BookingSide ==
  /\ \/ \E r \in Requests :
          \/ stage[r] = "none" /\ \E c \in Calls : KeyHandedOut(c) /\ Arrive(r, c)
          \/ Handle(r) \/ Fault(r) \/ AnswerLost(r) \/ Crash(r)
     \/ Environment
     \/ Rest
  /\ UNCHANGED payment

Webhook(r) ==
  \/ RecordPayment(r) \/ Refund(r) \/ LogCompensation(r)

PaymentSide ==
  \/ \E o \in Orders :
       \/ \E c \in OrderCalls : PreviewOrder(o, c)
       \/ CreateOrder(o) \/ Capture(o)
       \/ \E r \in Requests : Ignore(r, o) \/ Deliver(r, o)
  \/ \E r \in Requests : Webhook(r) \/ WebhookFails(r) \/ WebhookAnswerLost(r)

PaymentsNext == BookingSide \/ PaymentSide

PaymentsSpec == PaymentsInit /\ [][PaymentsNext]_allVars

-------------------------------------------------------------------------------
(* Properties *)

\* The reservations of an order: those its hold was confirmed into.
BookedFor(o) ==
  {q \in Requests : /\ reservations[q] # Nil /\ call[q].op = "confirm"
                    /\ order[o].state # "none" /\ call[q].hold = order[o].notes.hold}

\* A capture whose event was acknowledged is settled: the person has the booking or
\* the money, through every overlap of deliveries, the person's own confirm, failures
\* and crashes.  Only an event that found no hold metadata is acknowledged for nothing.
AcknowledgedCaptureIsSettled ==
  \A r \in Requests :
    stage[r] = "acked" => BookedFor(delivery[r]) # {} \/ delivery[r] \in refunded

\* The requests that confirm under the key of an order, as its webhook does.
UnderItsKey(q, o) ==
  pc[q] # "idle" /\ Keyed(q) /\ KeyOf(call[q]) = KeyOf(ConfirmOf(o))

\* Booking and refund of one payment together take an overlap or a failure: some
\* request under the order's key must have been told "in progress", or have failed.
\* A final answer, fresh or replayed from the key, never leads to both.  (A second
\* order for the same hold is another payment; it is refunded, and rightly.)
BothOnlyByOverlap ==
  \A o \in refunded, q \in Requests :
    /\ reservations[q] # Nil /\ UnderItsKey(q, o)
    /\ HashOf(call[q]) = HashOf(ConfirmOf(o))
    => \E p \in Requests :
         /\ UnderItsKey(p, o)
         /\ At(p, "crashed") \/ reply[p].status \in {"error", "inProgress"}

\* A payment id on a payment row is the payment for that row's hold, and no two
\* rows claim one payment.
PaymentLinkIsItsOwn ==
  /\ \A q \in Requests :
       razorpayPaymentId[q] # Nil => q \in BookedFor(razorpayPaymentId[q])
  /\ \A q1, q2 \in Requests :
       razorpayPaymentId[q1] = razorpayPaymentId[q2] /\ razorpayPaymentId[q1] # Nil
         => q1 = q2

\* "The existing claim/replay machinery is what makes redelivery and the
\* webhook-vs-agent race both safe": a booking that stands is not refunded.  An
\* overlapping delivery is told "in progress", which is refunded like a refusal.
BookedIsNotRefunded == \A o \in refunded : BookedFor(o) = {}
================================================================================
