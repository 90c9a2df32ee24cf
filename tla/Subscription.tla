----------------------------- MODULE Subscription -----------------------------
(***************************************************************************)
(* The subscription of one channel: the modal that pays and polls, the     *)
(* webhook of Paystack, the check that marks a subscription expired, and   *)
(* the counting of messages and invitations in the same record.  All of    *)
(* them read the channel, await something, and write fields of it back;    *)
(* nothing records which payments were counted.                            *)
(*                                                                         *)
(* Paystack is external: a charge is paid or fails at any time, and every  *)
(* paid charge is delivered to the webhook at least once.  A date is a     *)
(* number of time units, 0 when the field is blank.                        *)
(***************************************************************************)
EXTENDS Integers, Sequences, FiniteSetsExt

CONSTANTS
    Start,       \* channels there are: status, dates and tier set and actions counted so far
    Call,        \* requests to the server in progress at a time
    Cycle,       \* units of the billing cycle
    MaxPolls,    \* attempts of pollPaymentStatus
    MaxNow,      \* bound on the clock
    MaxCharges,  \* bound on the charges started at Paystack
    Polled,      \* bound: which of them may be polled for, by reference
    MaxRepeats,  \* bound on repeated deliveries
    MaxTracked   \* bound on the actions counted

ASSUME SubscriptionAssumption ==
    /\ Start \subseteq [status : {"trial", "active"}, trialEnd : Nat, paidUntil : Nat, tier : BOOLEAN,
                       tracked : Nat]
    \* only a payment sets the expiry, and it ends the trial
    /\ \A s \in Start : s.status = "trial" => s.paidUntil = 0
    /\ Cycle \in Nat \ {0} /\ MaxPolls \in Nat
    /\ MaxNow \in Nat /\ MaxCharges \in Nat /\ Polled \subseteq Nat /\ MaxRepeats \in Nat
    /\ MaxTracked \in Nat

VARIABLES
    channel,    \* the custom fields of the channel; recent: paid in the last 5 minutes
    now,
    charge,     \* the charges at Paystack, by reference
    due,        \* deliveries to the webhook under way, by reference
    repeats,    \* history: repeated deliveries
    verdict,    \* the cached result of a verification, kept for ten seconds
    polls,      \* attempts the modal has left, by reference
    call,       \* the locals of each request
    told,       \* references the modal was told are paid
    extended,   \* history: who extended the subscription, by reference
    overlapped, \* history: references that two requests dealt with at once
    crossed,    \* history: two payments were counted from the same expiry
    clobbered,  \* history: a payment was counted while an expiry was being written
    tracked,    \* history: actions counted
    restored,   \* history: an older record of the channel was written back
    lately      \* history: references counted in the last five minutes

vars == <<channel, now, charge, due, repeats, verdict, polls, call, told,
          extended, overlapped, crossed, clobbered, tracked, restored, lately>>

Ref == 1..Len(charge)
Idle == [op |-> "none", at |-> "idle", ref |-> 0, until |-> 0, verdict |-> "none", heard |-> FALSE,
         seen |-> <<>>]

Init ==
    /\ \E s \in Start :
         /\ channel = [status |-> s.status, trialEnd |-> s.trialEnd, paidUntil |-> s.paidUntil,
                       tier |-> s.tier, recent |-> FALSE]
         /\ tracked = s.tracked
    /\ now = 0
    /\ charge = <<>> /\ due = <<>> /\ verdict = <<>> /\ polls = <<>> /\ extended = <<>>
    /\ repeats = 0 /\ call = [c \in Call |-> Idle] /\ told = {}
    /\ overlapped = {} /\ crossed = FALSE /\ clobbered = FALSE
    /\ restored = FALSE /\ lately = {}

Goes(c, at) == call' = [call EXCEPT ![c].at = at]
Ends(c) == call' = [call EXCEPT ![c] = Idle]
-----------------------------------------------------------------------------
(* initiatePurchase *)

\* New charges, each with the number of polls it will get.
Charges(attempts) ==
    LET n == Len(attempts)
    IN  /\ Len(charge) + n <= MaxCharges
        /\ charge'   = charge   \o [i \in 1..n |-> "pending"]
        /\ due'      = due      \o [i \in 1..n |-> 0]
        /\ verdict'  = verdict  \o [i \in 1..n |-> "none"]
        /\ extended' = extended \o [i \in 1..n |-> <<>>]
        /\ polls'    = polls    \o attempts
        /\ UNCHANGED <<channel, now, repeats, call, told, overlapped, crossed, clobbered, tracked, restored, lately>>

\* The prompt on the phone was sent, and the modal polls.
PushPrompt == Len(charge) + 1 \in Polled /\ Charges(<<MaxPolls>>)

\* A payment link, on another page: nobody polls.
PaymentLink == Charges(<<0>>)

\* The request for the prompt timed out, though the prompt may be there, and
\* the customer is sent to a link as well.
PromptTimesOut == Charges(<<0, 0>>)
-----------------------------------------------------------------------------
(* Paystack *)

Settle(r, state) ==
    /\ charge[r] = "pending"
    /\ charge' = [charge EXCEPT ![r] = state]
    /\ due' = IF state = "success" THEN [due EXCEPT ![r] = 1] ELSE due
    /\ UNCHANGED <<channel, now, repeats, verdict, polls, call, told, extended, overlapped,
                   crossed, clobbered, tracked, restored, lately>>

Repeat(r) ==
    /\ charge[r] = "success" /\ repeats < MaxRepeats
    /\ repeats' = repeats + 1 /\ due' = [due EXCEPT ![r] = @ + 1]
    /\ UNCHANGED <<channel, now, charge, verdict, polls, call, told, extended, overlapped,
                   crossed, clobbered, tracked, restored, lately>>
-----------------------------------------------------------------------------
(* Requests about a payment *)

Begin(c, op, at, r) ==
    /\ call[c] = Idle
    /\ call' = [call EXCEPT ![c] = [Idle EXCEPT !.op = op, !.at = at, !.ref = r, !.heard = TRUE]]
    /\ overlapped' = IF \E d \in Call : call[d].ref = r THEN overlapped \cup {r} ELSE overlapped
    /\ UNCHANGED <<channel, now, charge, repeats, verdict, told, extended, crossed, clobbered,
                   tracked, restored, lately>>

\* handleWebhook, handleChargeSuccess.
Deliver(c, r) ==
    /\ due[r] > 0
    /\ due' = [due EXCEPT ![r] = @ - 1]
    /\ Begin(c, "webhook", "verify", r) /\ UNCHANGED polls

\* verifyPayment from pollPaymentStatus: the next attempt follows the answer of
\* the one before, or its failure.
Poll(c, r) ==
    /\ polls[r] > 0 /\ \A d \in Call : ~(call[d].op = "poll" /\ call[d].ref = r /\ call[d].heard)
    /\ polls' = [polls EXCEPT ![r] = @ - 1]
    /\ Begin(c, "poll", "state", r) /\ UNCHANGED due

\* The rest of a request only moves its own locals.
OnlyCalls ==
    UNCHANGED <<channel, now, charge, due, repeats, verdict, polls, told, extended,
                overlapped, crossed, clobbered, tracked, restored, lately>>

\* Mutant of PaidLately: any active subscription will do.
PaidLatelyOrActive == channel.status = "active"

\* Mutant of PaidLately: the channel is not asked.
PaidLatelyNever == FALSE

\* checkPaymentStatus, step 1: whichever payment it was.
PaidLately == channel.status = "active" /\ channel.recent

\* A success that is heard is shown, and ends the polling.  What is cached is
\* only kept here while there is an attempt left that may read it.
Answer(c, v) ==
    LET r == call[c].ref
        success == call[c].heard /\ v = "success"
    IN  /\ told'  = IF success THEN told \cup {r} ELSE told
        /\ polls' = IF success THEN [polls EXCEPT ![r] = 0] ELSE polls
        /\ Ends(c)
        /\ UNCHANGED <<channel, now, charge, due, repeats, extended, overlapped, crossed,
                       clobbered, tracked, restored, lately>>

ReadState(c) ==
    /\ call[c].at = "state"
    /\ IF PaidLately
       THEN Answer(c, "success") /\ UNCHANGED verdict
       ELSE Goes(c, "cache") /\ OnlyCalls

\* Step 2.
CachedVerdict(c) ==
    /\ call[c].at = "cache" /\ verdict[call[c].ref] # "none"
    /\ Answer(c, verdict[call[c].ref]) /\ UNCHANGED verdict

\* What a request does when something fails: a poll caches the failure, and
\* the webhook gives up and still answers 200.
Fails(c) ==
    IF call[c].op = "poll"
    THEN call' = [call EXCEPT ![c].at = "keep", ![c].verdict = "failed"]
    ELSE Ends(c)

Charged(c) == charge[call[c].ref]

\* verifyTransaction, for the webhook or when nothing is cached; it may fail.
Verifying(c) == \/ call[c].at = "verify"
                \/ call[c].at = "cache" /\ verdict[call[c].ref] = "none"

VerifyPending(c) ==
    /\ Verifying(c) /\ Charged(c) = "pending"
    /\ call' = [call EXCEPT ![c].at = "keep", ![c].verdict = "pending"]
    /\ OnlyCalls

VerifyFails(c) == Verifying(c) /\ Fails(c) /\ OnlyCalls

\* Mutant of Until: the new period starts today, whatever was paid before.
UntilFromNow == now + Cycle

\* processSuccessfulPayment counts from the latest of the dates...
Until == Max({channel.paidUntil, channel.trialEnd, now}) + Cycle

\* ... that it reads with the channel; without a tier it throws.  A charge that
\* was found paid stays paid, so finding it and reading the channel are one step.
ReadChannel(c) ==
    /\ Verifying(c) /\ Charged(c) = "success"
    /\ IF channel.tier
       THEN call' = [call EXCEPT ![c].at = "update", ![c].until = Until]
       ELSE Fails(c)
    /\ OnlyCalls

Extend(c) ==
    /\ call[c].at = "update"
    /\ channel' = [channel EXCEPT !.status = "active", !.paidUntil = call[c].until, !.recent = TRUE]
    /\ IF call[c].op = "poll"
       THEN call' = [call EXCEPT ![c].at = "keep", ![c].verdict = "success"]
       ELSE Ends(c)
    /\ extended'  = [extended EXCEPT ![call[c].ref] = Append(@, call[c].op)]
    /\ crossed'   = (crossed \/ \E d \in Call \ {c} : call[d].at = "update")
    /\ clobbered' = (clobbered \/ \E d \in Call : call[d].at = "expire")
    /\ lately'    = lately \cup {call[c].ref}
    /\ UNCHANGED <<now, charge, due, repeats, verdict, polls, told, overlapped, tracked, restored>>

\* channelService.update throws.
ExtendFails(c) == call[c].at = "update" /\ Fails(c) /\ OnlyCalls

\* Step 4.
KeepVerdict(c) ==
    LET r == call[c].ref
    IN  /\ call[c].at = "keep"
        /\ Answer(c, call[c].verdict)
        /\ verdict' = IF polls'[r] > 0 THEN [verdict EXCEPT ![r] = call[c].verdict] ELSE verdict

\* verifyPayment fails in the browser; the server goes on.
LoseConnection(c) ==
    /\ call[c].op = "poll" /\ call[c].heard
    /\ call' = [call EXCEPT ![c].heard = FALSE]
    /\ OnlyCalls
-----------------------------------------------------------------------------
(* checkSubscriptionStatus *)

Over(date) == date # 0 /\ date <= now

IsOver == \/ channel.status = "trial" /\ Over(channel.trialEnd)
          \/ channel.status = "active" /\ Over(channel.paidUntil)

\* A check that finds nothing to write changes nothing.
CheckStatus(c) ==
    /\ call[c] = Idle /\ IsOver
    /\ call' = [call EXCEPT ![c].op = "check", ![c].at = "expire"]
    /\ OnlyCalls

\* handleExpiredSubscription looks at the status again, not at the dates.
MarkExpired(c) ==
    /\ call[c].at = "expire"
    /\ channel' = [channel EXCEPT !.status = "expired"]
    /\ Ends(c)
    /\ UNCHANGED <<now, charge, due, repeats, verdict, polls, told, extended, overlapped,
                   crossed, clobbered, tracked, restored, lately>>
-----------------------------------------------------------------------------
(* trackAction: the counters of messages and invitations *)

\* It reads the channel with all its custom fields ...
TrackAction(c) ==
    /\ call[c] = Idle /\ tracked < MaxTracked
    /\ tracked' = tracked + 1
    /\ call' = [call EXCEPT ![c].op = "track", ![c].at = "count", ![c].seen = channel]
    /\ UNCHANGED <<channel, now, charge, due, repeats, verdict, polls, told, extended, overlapped,
                   crossed, clobbered, restored, lately>>

\* ... and writes all of them back with the counters it has raised.
CountAction(c) ==
    LET old == call[c].seen
    IN  /\ call[c].at = "count"
        /\ channel' = [old EXCEPT !.recent = @ /\ channel.recent]
        /\ restored' = (restored \/ [old EXCEPT !.recent = FALSE]
                                       # [channel EXCEPT !.recent = FALSE])
        /\ Ends(c)
        /\ UNCHANGED <<now, charge, due, repeats, verdict, polls, told, extended, overlapped,
                       crossed, clobbered, tracked, lately>>
-----------------------------------------------------------------------------
(* Time *)

\* A unit is long: it does not end while a payment is being counted, nor in the
\* five minutes after that.
Tick ==
    /\ now < MaxNow /\ ~channel.recent /\ lately = {}
    /\ \A c \in Call : call[c].at # "update"
    /\ now' = now + 1
    /\ UNCHANGED <<channel, charge, due, repeats, verdict, polls, call, told, extended,
                   overlapped, crossed, clobbered, tracked, restored, lately>>

\* Five minutes after a payment.  Three attempts at fifteen seconds, each with a
\* request that times out after thirty, are over by then.
FiveMinutes ==
    /\ lately # {}
    /\ \A r \in Ref : polls[r] = 0
    /\ \A c \in Call : call[c].op \notin {"poll", "webhook"}
    /\ channel' = [channel EXCEPT !.recent = FALSE]
    /\ lately' = {}
    /\ UNCHANGED <<now, charge, due, repeats, verdict, polls, call, told, extended,
                   overlapped, crossed, clobbered, tracked, restored>>

ForgetVerdict(r) ==
    /\ verdict[r] # "none"
    /\ verdict' = [verdict EXCEPT ![r] = "none"]
    /\ UNCHANGED <<channel, now, charge, due, repeats, polls, call, told, extended,
                   overlapped, crossed, clobbered, tracked, restored, lately>>

\* The administrator gives the channel a tier.
SetTier ==
    /\ ~channel.tier
    /\ channel' = [channel EXCEPT !.tier = TRUE]
    /\ UNCHANGED <<now, charge, due, repeats, verdict, polls, call, told, extended,
                   overlapped, crossed, clobbered, tracked, restored, lately>>

Next ==
    \/ PushPrompt \/ PaymentLink \/ PromptTimesOut
    \/ Tick \/ FiveMinutes \/ SetTier
    \/ \E r \in Ref :
         \/ \E state \in {"success", "failed"} : Settle(r, state)
         \/ Repeat(r) \/ ForgetVerdict(r)
         \/ \E c \in Call : Deliver(c, r) \/ Poll(c, r)
    \/ \E c \in Call :
         \/ ReadState(c) \/ CachedVerdict(c) \/ VerifyPending(c) \/ VerifyFails(c)
         \/ ReadChannel(c) \/ Extend(c) \/ ExtendFails(c) \/ KeepVerdict(c)
         \/ LoseConnection(c)
         \/ CheckStatus(c) \/ MarkExpired(c)
         \/ TrackAction(c) \/ CountAction(c)

Spec == Init /\ [][Next]_vars
-----------------------------------------------------------------------------
(* Properties *)

Extensions == MapThenSumSet(LAMBDA r : Len(extended[r]), Ref)

\* Time that was paid for is there to be used, unless the counting of an action
\* put an older record back (trackAction writes every field it has read).  A
\* subscription with time left is marked expired only by a check that was
\* writing while a payment was counted (handleExpiredSubscription); and every
\* extension is a whole cycle on top of the ones before, unless two of them were
\* counted from the same expiry (processSuccessfulPayment reads, awaits the
\* tier, and writes).
PaidTimeKept ==
    /\ channel.status = "expired" /\ channel.paidUntil > now => clobbered \/ restored
    /\ crossed \/ restored \/ Extensions = 0 \/ channel.paidUntil >= Extensions * Cycle

\* Once a payment was counted, polling for it does not count it again, whatever
\* answers were lost: only a further delivery to the webhook does, which looks
\* at nothing.  Excepted are requests for the payment that overlap, and a
\* channel that was marked expired, or put back to an older record, just as it
\* was paid for (checkPaymentStatus).
CountedOnceByPolls ==
    \A r \in Ref \ overlapped :
        clobbered \/ restored \/ \A i \in 2..Len(extended[r]) : extended[r][i] = "webhook"

\* The modal is told that a payment was verified only when it has been counted,
\* or when another one was within the last five minutes, from which
\* checkPaymentStatus cannot tell it: neither an older payment, nor a status
\* that is still active, nor a cached verdict passes for this one.
ToldPaid ==
    [][\A r \in told' \ told : extended[r] # <<>> \/ lately # {}]_vars
=============================================================================
