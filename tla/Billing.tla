------------------------------- MODULE Billing -------------------------------
(***************************************************************************)
(* The subscriptions of one user: the rows of the subscription store       *)
(* (pkg/billing/subscription.go), Stripe's webhook events that keep them   *)
(* in step with Stripe (pkg/billing/webhook.go) and the plan changes the   *)
(* user asks for (pkg/billing/plan_change.go).  Every handler reads a row  *)
(* and later writes the whole of it back, with no transaction around both. *)
(* Stripe may deliver an event late, again, or while another is handled.   *)
(* Billing intervals, periods, the cancel-at-period-end flag, proration    *)
(* and the customer's id are left out: no decision here reads them.  The   *)
(* enterprise plan, which is handled like the other paid ones, is left out *)
(* too.  A price stands for the plan the price map makes of it, or for one *)
(* the map does not know (a subscription without items is no different).   *)
(***************************************************************************)
EXTENDS Naturals, Sequences

CONSTANTS
    Handler,    \* concurrent requests, each an event for the webhook or a call of ChangePlan
    Reported,   \* what else `updated` events report: a status and a price
    MaxSub,     \* bound: Stripe subscriptions
    MaxEvent,   \* bound: events Stripe emits
    MaxRow,     \* bound: rows
    NoWork

PlanTierOrder == [free |-> 0, starter |-> 1, pro |-> 2]
Plan == DOMAIN PlanTierOrder
Paid == Plan \ {"free"}
Price == Paid \cup {"unknown"}
Sub == 1..MaxSub             \* Stripe's subscription ids; 0: none

\* mapStripeStatus; a status that is not in the map ("incomplete") changes nothing.
mapStripeStatus ==
    [active |-> "active", trialing |-> "trialing", past_due |-> "past_due",
     canceled |-> "canceled", unpaid |-> "canceled", paused |-> "paused",
     incomplete_expired |-> "expired"]

\* PlanForPrice knows the price.
Known(price) == price \in Paid

StripeStatus == DOMAIN mapStripeStatus \cup {"incomplete"}
Status == {"active", "trialing", "past_due", "paused", "canceled", "expired"}
Mapped(status) == status \in DOMAIN mapStripeStatus
Ended == {"canceled", "incomplete_expired"}     \* for good

Row == [plan : Plan, status : Status, link : 0..MaxSub]
Work == [id : 0..MaxRow, row : Row]     \* id 0: a row to be created
Event == [type : {"checkout", "updated", "deleted", "failed", "succeeded"},
          sub : Sub, price : Price, status : StripeStatus]

ASSUME BillingAssumption ==
    \* A cancellation is reported as `deleted`.
    /\ Reported \subseteq [status : StripeStatus \ {"canceled"}, price : Price]
    /\ MaxSub \in Nat /\ MaxEvent \in Nat /\ MaxRow \in Nat /\ NoWork \notin Work

VARIABLES
    rows,      \* the user's rows, oldest first
    stripe,    \* Stripe: price and status of each subscription, "none" before its checkout
    events,    \* Stripe: the events it has emitted, in order
    seen,      \* how many were delivered in order
    calm,      \* history: in order, one handler at a time, nothing failed
    work       \* what a handler is about to write

billVars == <<rows, stripe, events, seen, calm, work>>

BillInit ==
    /\ rows = <<>>
    /\ stripe = [s \in Sub |-> [price |-> "starter", status |-> "none"]]
    /\ events = <<>> /\ seen = 0
    /\ calm = TRUE
    /\ work = [h \in Handler |-> NoWork]

(***************************************************************************)
(* Stripe                                                                  *)
(***************************************************************************)

EventOf(type, s, price, status) == [type |-> type, sub |-> s, price |-> price, status |-> status]

\* Stripe's subscription changes and the events go out.
Emits(s, price, status, types) ==
    /\ Len(events) + Len(types) <= MaxEvent
    /\ stripe' = [stripe EXCEPT ![s] = [price |-> price, status |-> status]]
    /\ events' = events \o [i \in 1..Len(types) |-> EventOf(types[i], s, price, status)]

\* The subscription has begun and has not ended.
Exists(s) == stripe[s].status \notin Ended \cup {"none"}

\* A checkout session handleCreateCheckout opened is paid.
Checkout(s) ==
    /\ stripe[s].status = "none"
    /\ \E price \in Paid : Emits(s, price, "active", <<"checkout", "updated">>)
    /\ UNCHANGED <<rows, seen, calm, work>>

\* An invoice is not paid, and later it is (a success that changes nothing is left out).
Charge(s) ==
    /\ \/ stripe[s].status \in {"active", "trialing"} /\ Emits(s, stripe[s].price, "past_due", <<"failed">>)
       \/ stripe[s].status = "past_due" /\ Emits(s, stripe[s].price, "active", <<"succeeded">>)
    /\ UNCHANGED <<rows, seen, calm, work>>

\* Status and price change in Stripe's portal or dashboard, or because a trial ends or
\* the attempts to collect a payment are over.
Amend(s) ==
    /\ Exists(s)
    /\ \E r \in Reported : Emits(s, r.price, r.status, <<"updated">>)
    /\ UNCHANGED <<rows, seen, calm, work>>

End(s) ==
    /\ Exists(s)
    /\ Emits(s, stripe[s].price, "canceled", <<"deleted">>)
    /\ UNCHANGED <<rows, seen, calm, work>>

(***************************************************************************)
(* The webhook                                                             *)
(***************************************************************************)

Newest == Len(rows)
Rank == [active |-> 1, trialing |-> 2, past_due |-> 3, paused |-> 4, canceled |-> 5, expired |-> 6]

\* MUTANT: the user's newest row, whatever it is linked to.
findAny(s) == {i \in DOMAIN rows : i = Newest}

\* findByStripeSubID: by status, and the newest row of a status first.
findByStripeSubID(s) ==
    LET Linked == {i \in DOMAIN rows : rows[i].link = s} IN
    {i \in Linked : \A j \in Linked :
        \/ Rank[rows[i].status] < Rank[rows[j].status]
        \/ rows[i].status = rows[j].status /\ i >= j}

\* MUTANT: the plan is left alone.
handleUpdatedStatusOnly(e, row) ==
    [row EXCEPT !.status = IF Mapped(e.status) THEN mapStripeStatus[e.status] ELSE @]

\* MUTANT: Stripe's status is stored as it is.
handleUpdatedUnmapped(e, row) ==
    [row EXCEPT !.status = e.status, !.plan = IF Known(e.price) THEN e.price ELSE @]

\* What the maps do not know is left as it is.
handleSubscriptionUpdated(e, row) ==
    [row EXCEPT
        !.status = IF Mapped(e.status) THEN mapStripeStatus[e.status] ELSE @,
        !.plan = IF Known(e.price) THEN e.price ELSE @]

\* The handlers of events about a subscription, on the row it is linked to.
Handled(e, row) ==
    CASE e.type = "updated" -> handleSubscriptionUpdated(e, row)
      [] e.type = "deleted" -> [row EXCEPT !.status = "canceled"]
      [] e.type = "failed" -> [row EXCEPT !.status = "past_due"]
      [] e.type = "succeeded" -> [row EXCEPT !.status = "active"]

\* A payment changes only a row that is past due.
NothingToDo(e, row) == e.type = "succeeded" /\ row.status # "past_due"

\* handleCheckoutCompleted: resolvePlanFromSubscriptionID always fails, so the plan is
\* starter; the user's newest row is linked to the new subscription, or a row created.
handleCheckoutCompleted(e) ==
    [id |-> Newest, row |-> [plan |-> "starter", status |-> "active", link |-> e.sub]]

Busy == \E h \in Handler : work[h] # NoWork

\* A request with the i-th event: processEvent looks a row up and prepares what it will
\* write; an event whose row is not found is dropped, and answered with 200 all the same.
\* The lookup reads status by status, so while another handler writes it may miss the row.
Deliver(h, i) ==
    /\ work[h] = NoWork /\ i \in DOMAIN events
    /\ calm' = (calm /\ i \in {seen, seen + 1} /\ ~Busy)
    /\ seen' = IF i = seen + 1 THEN i ELSE seen
    /\ LET e == events[i] IN
       \/ /\ e.type = "checkout"
          /\ work' = [work EXCEPT ![h] = handleCheckoutCompleted(e)]
       \/ /\ e.type # "checkout"
          /\ \E id \in findByStripeSubID(e.sub) :
                /\ ~NothingToDo(e, rows[id])
                /\ work' = [work EXCEPT ![h] = [id |-> id, row |-> Handled(e, rows[id])]]
       \/ /\ e.type # "checkout"
          /\ Busy \/ \A id \in findByStripeSubID(e.sub) : NothingToDo(e, rows[id])
          /\ UNCHANGED work
    /\ UNCHANGED <<rows, stripe, events>>

(***************************************************************************)
(* Plan changes                                                            *)
(***************************************************************************)

CurrentPlan == IF rows = <<>> THEN "free" ELSE rows[Newest].plan
Prepare(c, id, row) == work' = [work EXCEPT ![c] = [id |-> id, row |-> row]]

\* ChangePlan to free, now: Stripe's subscription, if there is one, is canceled first.
DowngradeNow(c) ==
    LET row == rows[Newest] IN
    /\ \/ row.link = 0 /\ UNCHANGED <<stripe, events>>
       \/ /\ row.link # 0 /\ Exists(row.link)
          /\ Emits(row.link, stripe[row.link].price, "canceled", <<"deleted">>)
    /\ Prepare(c, Newest, [row EXCEPT !.status = "canceled", !.plan = "free"])

\* ChangePlan to free, at the end of the period: only the flag changes.
DowngradeLater(c) ==
    /\ Prepare(c, Newest, rows[Newest])
    /\ UNCHANGED <<stripe, events>>

handleDowngradeToFree(c) ==
    /\ rows # <<>> /\ CurrentPlan # "free"
    /\ DowngradeNow(c) \/ DowngradeLater(c)
    /\ calm' = (calm /\ ~Busy)

\* Always a new row, without a Stripe subscription.
handleUpgradeFromFree(c, new) ==
    /\ CurrentPlan = "free"
    /\ Prepare(c, 0, [plan |-> new, status |-> "active", link |-> 0])
    /\ calm' = (calm /\ ~Busy)
    /\ UNCHANGED <<stripe, events>>

\* Stripe's subscription is changed first.  At the end of the period means: the row is left
\* to the event that will follow, or changed here when Stripe's call fails.
handlePaidPlanChange(c, new) ==
    LET row == rows[Newest]
        Changed == [row EXCEPT !.plan = new]
    IN
    /\ CurrentPlan \in Paid /\ CurrentPlan # new
    /\ \/ /\ row.link = 0
          /\ Prepare(c, Newest, Changed)
          /\ UNCHANGED <<stripe, events>>
          /\ calm' = (calm /\ ~Busy)
       \/ /\ row.link # 0 /\ Exists(row.link)
          /\ Emits(row.link, new, stripe[row.link].status, <<"updated">>)
          /\ \E written \in {row, Changed} : Prepare(c, Newest, written)
          /\ calm' = (calm /\ ~Busy)
       \/ /\ row.link # 0
          /\ Prepare(c, Newest, Changed)
          /\ UNCHANGED <<stripe, events>>
          /\ calm' = FALSE

\* ChangePlan reads the newest row, calls Stripe, and will write the row it read.
ChangePlan(c) ==
    /\ work[c] = NoWork
    /\ \/ handleDowngradeToFree(c)
       \/ \E new \in Paid : handleUpgradeFromFree(c, new) \/ handlePaidPlanChange(c, new)
    /\ UNCHANGED <<rows, seen>>

(***************************************************************************)
(* The store                                                               *)
(***************************************************************************)

\* Create or Update of the whole row; an error is reported, and the event not redelivered.
Write(h) ==
    /\ work[h] # NoWork
    /\ LET w == work[h] IN
       \/ /\ w.id # 0
          /\ rows' = [rows EXCEPT ![w.id] = w.row]
          /\ UNCHANGED calm
       \/ /\ w.id = 0 /\ Newest < MaxRow
          /\ rows' = Append(rows, w.row)
          /\ UNCHANGED calm
       \/ calm' = FALSE /\ UNCHANGED rows
    /\ work' = [work EXCEPT ![h] = NoWork]
    /\ UNCHANGED <<stripe, events, seen>>

BillNext ==
    \/ \E s \in Sub : Checkout(s) \/ Charge(s) \/ Amend(s) \/ End(s)
    \/ \E h \in Handler :
          \/ \E i \in 1..MaxEvent : Deliver(h, i)
          \/ ChangePlan(h)
          \/ Write(h)

BillSpec == BillInit /\ [][BillNext]_billVars

(***************************************************************************)
(* Properties                                                              *)
(***************************************************************************)

BillTypeOK ==
    /\ rows \in Seq(Row) /\ Len(rows) <= MaxRow
    /\ stripe \in [Sub -> [price : Price, status : StripeStatus \cup {"none"}]]
    /\ events \in Seq(Event) /\ Len(events) <= MaxEvent
    /\ seen \in 0..Len(events) /\ calm \in BOOLEAN
    /\ work \in [Handler -> Work \cup {NoWork}]

\* The event says that its subscription is over or that Stripe has given up its invoices.
Cancels(e) ==
    \/ e.type = "deleted"
    \/ e.type = "updated" /\ e.status \in {"canceled", "unpaid"}

\* Whatever is late, repeated or overlapping, a row is canceled only because Stripe has said
\* so of the very subscription the row is linked to, or because the user went back to the free
\* plan.  (The link itself may be an old one again, see LinkKept.)
NoWrongfulCancel ==
    \A i \in DOMAIN rows : rows[i].status = "canceled" =>
        \/ rows[i].link = 0 /\ rows[i].plan = "free"
        \/ \E j \in DOMAIN events : events[j].sub = rows[i].link /\ Cancels(events[j])

\* "This synchronises plan, status, and period from Stripe": once every event has been
\* handled, a linked row says what Stripe says, as far as the maps know Stripe's status and
\* price - provided the events came in order (the last one perhaps again), no two handlers
\* overlapped and no call failed.
SyncedWhenCalm ==
    (calm /\ seen = Len(events) /\ ~Busy) =>
        \A i \in DOMAIN rows : rows[i].link # 0 =>
            LET s == stripe[rows[i].link] IN
            /\ Mapped(s.status) => rows[i].status = mapStripeStatus[s.status]
            /\ s.status # "canceled" /\ Known(s.price) => rows[i].plan = s.price

\* A row that is linked to a subscription which goes on is not linked back to one that has
\* ended.  The code does not promise it: a handler of an event about the old subscription
\* that read the row before the checkout of the new one writes it back after it, old link
\* included, and so does a checkout event that comes again.
LinkKept ==
    [][\A i \in DOMAIN rows : (rows[i].link # 0 /\ Exists(rows[i].link)) =>
            rows'[i].link # 0 /\ (rows'[i].link # rows[i].link => Exists(rows'[i].link))]_billVars
=============================================================================
