------------------------- MODULE SubscriptionProofs -------------------------
(***************************************************************************)
(* Proofs about Subscription, for any number of requests, charges and      *)
(* repeated deliveries, and any dates: polling counts a payment once, the  *)
(* modal is told only of what was counted, and time that was paid for is   *)
(* there.  A delivery is counted as often as it is repeated: no theorem    *)
(* says otherwise.                                                         *)
(***************************************************************************)
EXTENDS Subscription, Sums, SequenceTheorems

USE SubscriptionAssumption DEF SubscriptionAssumption

Channels == [status : {"trial", "active", "expired"}, trialEnd : Nat, paidUntil : Nat,
             tier : BOOLEAN, recent : BOOLEAN]
Verdicts == {"none", "pending", "failed", "success"}
Calls == [op : {"none", "webhook", "poll", "check", "track"},
          at : {"idle", "state", "cache", "verify", "update", "keep", "expire", "count"},
          ref : Nat, until : Nat, verdict : Verdicts, heard : BOOLEAN,
          seen : Channels \cup {<<>>}]
Counted == {"webhook", "poll"}   \* the requests that count payments

Typed ==
    /\ channel \in Channels /\ now \in Nat /\ repeats \in Nat
    /\ charge \in Seq({"pending", "failed", "success"})
    /\ due \in Seq(Nat) /\ Len(due) = Len(charge)
    /\ verdict \in Seq(Verdicts) /\ Len(verdict) = Len(charge)
    /\ polls \in Seq(Nat) /\ Len(polls) = Len(charge)
    /\ extended \in Seq(Seq(Counted)) /\ Len(extended) = Len(charge)
    /\ call \in [Call -> Calls]
    /\ crossed \in BOOLEAN /\ clobbered \in BOOLEAN /\ restored \in BOOLEAN

\* What a request is about follows from where it is.
Locals == \A c \in Call :
    /\ call[c].ref \in Ref \cup {0} /\ (call[c].op \in Counted <=> call[c].ref \in Ref)
    /\ call[c].at \in {"state", "cache"} => call[c].op = "poll"
    /\ call[c].at = "verify" => call[c].op = "webhook"
    /\ call[c].at \in {"keep", "update"} => call[c].op \in Counted
    /\ call[c].at = "update" => call[c].until > now
    /\ call[c].at = "count" => call[c].seen \in Channels

\* No payment was counted against a check that was writing, and no older
\* record was written back.
Sane == ~clobbered /\ ~restored

\* Requests for one payment at the same time are noted.
OneAtATime == \A r \in Ref \ overlapped : \A c, d \in Call :
    call[c].ref = r /\ call[d].ref = r => c = d

\* Who has just paid has a subscription, and no check is about to end it.
RecentIsActive == Sane /\ channel.recent =>
    /\ channel.status = "active" /\ channel.paidUntil > now
    /\ \A c \in Call : call[c].at # "expire"

\* An expiry that is being written is later than the one there is, unless
\* another payment was just counted.
ExpiryGrows == Sane /\ ~channel.recent => \A c \in Call :
    call[c].at = "update" => call[c].until > channel.paidUntil

\* What trackAction saw before a payment has an earlier expiry than the payment
\* gives, so that writing it back is noted.
SeenIsOlder == Sane => \A d \in Call : call[d].at = "count" /\ ~call[d].seen.recent =>
    /\ call[d].seen.paidUntil <= channel.paidUntil
    /\ channel.recent => call[d].seen.paidUntil < channel.paidUntil
    /\ \A c \in Call : call[c].at = "update" => call[d].seen.paidUntil < call[c].until

\* Five minutes after a payment nobody polls for it any more.
PollingEnds == Sane => \A r \in Ref : extended[r] # <<>> =>
    \/ channel.recent
    \/ polls[r] = 0 /\ \A c \in Call : ~(call[c].op = "poll" /\ call[c].ref = r)

\* A poll for a payment that was counted gets no further than the first step.
PollStops == Sane => \A r \in Ref \ overlapped : extended[r] # <<>> =>
    \A c \in Call : call[c].op = "poll" /\ call[c].ref = r => call[c].at \in {"state", "keep"}

\* Only a subscription that is over is marked so.
ExpiredIsOver == Sane =>
    /\ channel.status = "trial" => channel.paidUntil = 0
    /\ channel.status = "expired" => channel.paidUntil <= now
    /\ \A c \in Call : call[c].at = "expire" => channel.paidUntil <= now

\* Each payment adds a cycle.
CyclesAdd == ~crossed /\ ~restored =>
    /\ channel.paidUntil >= Extensions * Cycle
    /\ \A c \in Call : call[c].at = "update" => call[c].until >= channel.paidUntil + Cycle

\* What is remembered as a success was counted, for that very payment.
Recorded ==
    /\ \A r \in Ref : verdict[r] = "success" => extended[r] # <<>>
    /\ \A c \in Call : call[c].verdict = "success" =>
         call[c].ref \in Ref /\ extended[call[c].ref] # <<>>

\* Who seems to have paid within five minutes has.
LatelyNoted == channel.recent => lately # {}

Evidence == Recorded /\ LatelyNoted

IInv == /\ Typed /\ Locals /\ Evidence /\ OneAtATime /\ RecentIsActive /\ ExpiryGrows /\ SeenIsOlder
        /\ PollingEnds /\ PollStops /\ CountedOnceByPolls /\ ExpiredIsOver /\ CyclesAdd
-----------------------------------------------------------------------------
\* Growing a sequence by entries that are all the same.
LEMMA Grown ==
    ASSUME NEW S, NEW s \in Seq(S), NEW v \in S, NEW n \in Nat
    PROVE  LET t == s \o [i \in 1..n |-> v]
           IN  /\ t \in Seq(S) /\ Len(t) = Len(s) + n
               /\ \A i \in 1..Len(s) : t[i] = s[i]
               /\ \A i \in 1..Len(s) + n : i \notin 1..Len(s) => t[i] = v
<1> DEFINE e == [i \in 1..n |-> v]
<1>1. e \in Seq(S) /\ Len(e) = n /\ \A i \in 1..n : e[i] = v
  OBVIOUS
<1> HIDE DEF e
<1>2. /\ s \o e \in Seq(S) /\ Len(s \o e) = Len(s) + n
      /\ \A i \in 1..Len(s) + n : (s \o e)[i] = IF i <= Len(s) THEN s[i] ELSE e[i - Len(s)]
  BY <1>1, ConcatProperties
<1>3. Len(s) \in Nat
  OBVIOUS
<1>4. \A i \in 1..Len(s) + n : i \notin 1..Len(s) => ~(i <= Len(s)) /\ i - Len(s) \in 1..n
  BY <1>3
<1> QED BY <1>1, <1>2, <1>3, <1>4 DEF e

\* New charges: nothing was found out about them, nor counted.
LEMMA NewCharges ==
    ASSUME Typed, PushPrompt \/ PaymentLink \/ PromptTimesOut
    PROVE  /\ charge' \in Seq({"pending", "failed", "success"})
           /\ due' \in Seq(Nat) /\ Len(due') = Len(charge')
           /\ verdict' \in Seq(Verdicts) /\ Len(verdict') = Len(charge')
           /\ polls' \in Seq(Nat) /\ Len(polls') = Len(charge')
           /\ extended' \in Seq(Seq(Counted)) /\ Len(extended') = Len(charge')
           /\ Ref \subseteq Ref' /\ 0 \notin Ref'
           /\ Ref' = Ref \cup {Len(charge) + 1} \/ Ref' = (Ref \cup {Len(charge) + 1}) \cup {Len(charge) + 2}
           /\ \A r \in Ref : verdict'[r] = verdict[r] /\ extended'[r] = extended[r]
                             /\ polls'[r] = polls[r]
           /\ \A r \in Ref' \ Ref : verdict'[r] = "none" /\ extended'[r] = <<>>
           /\ UNCHANGED <<channel, now, repeats, call, told, overlapped, crossed, clobbered,
                          tracked, restored, lately>>
<1>1. PICK attempts : /\ attempts \in {<<MaxPolls>>, <<0>>, <<0, 0>>} /\ Charges(attempts)
  BY DEF PushPrompt, PaymentLink, PromptTimesOut
<1>2. attempts \in Seq(Nat) /\ Len(attempts) \in {1, 2}
  <2>1. /\ <<MaxPolls>> \in Seq(Nat) /\ Len(<<MaxPolls>>) = 1
        /\ <<0>> \in Seq(Nat) /\ Len(<<0>>) = 1
        /\ <<0, 0>> \in Seq(Nat) /\ Len(<<0, 0>>) = 2
    OBVIOUS
  <2> QED BY <1>1, <2>1
<1>3. PICK n \in {1, 2} : n = Len(attempts)
  BY <1>2
<1>4. /\ charge'   = charge   \o [i \in 1..n |-> "pending"]
      /\ due'      = due      \o [i \in 1..n |-> 0]
      /\ verdict'  = verdict  \o [i \in 1..n |-> "none"]
      /\ extended' = extended \o [i \in 1..n |-> <<>>]
      /\ polls'    = polls    \o attempts
      /\ UNCHANGED <<channel, now, repeats, call, told, overlapped, crossed, clobbered,
                     tracked, restored, lately>>
  BY <1>1, <1>3 DEF Charges
<1>5. Len(charge) \in Nat /\ n \in Nat
  BY DEF Typed
<1>6. /\ charge' \in Seq({"pending", "failed", "success"}) /\ Len(charge') = Len(charge) + n
  BY <1>4, <1>5, Grown DEF Typed
<1>7. due' \in Seq(Nat) /\ Len(due') = Len(charge) + n
  BY <1>4, <1>5, Grown DEF Typed
<1>8. /\ verdict' \in Seq(Verdicts) /\ Len(verdict') = Len(charge) + n
      /\ \A r \in 1..Len(charge) : verdict'[r] = verdict[r]
      /\ \A r \in 1..Len(charge) + n : r \notin 1..Len(charge) => verdict'[r] = "none"
  <2>1. "none" \in Verdicts
    BY DEF Verdicts
  <2> QED BY <1>4, <1>5, <2>1, Grown DEF Typed
<1>9. /\ extended' \in Seq(Seq(Counted)) /\ Len(extended') = Len(charge) + n
      /\ \A r \in 1..Len(charge) : extended'[r] = extended[r]
      /\ \A r \in 1..Len(charge) + n : r \notin 1..Len(charge) => extended'[r] = <<>>
  <2>1. <<>> \in Seq(Counted)
    OBVIOUS
  <2> QED BY <1>4, <1>5, <2>1, Grown DEF Typed
<1>10. /\ polls' \in Seq(Nat) /\ Len(polls') = Len(charge) + n
       /\ \A r \in 1..Len(charge) : polls'[r] = polls[r]
  <2>1. polls \in Seq(Nat) /\ Len(polls) = Len(charge) /\ attempts \in Seq(Nat)
    BY <1>2 DEF Typed
  <2>2. /\ polls \o attempts \in Seq(Nat) /\ Len(polls \o attempts) = Len(polls) + Len(attempts)
        /\ \A i \in 1..Len(polls) + Len(attempts) :
             (polls \o attempts)[i] = IF i <= Len(polls) THEN polls[i] ELSE attempts[i - Len(polls)]
    BY <2>1, ConcatProperties
  <2> QED BY <1>3, <1>4, <1>5, <2>1, <2>2
<1>11. /\ 1..Len(charge) \subseteq 1..Len(charge) + n /\ 0 \notin 1..Len(charge) + n
       /\ \/ 1..Len(charge) + n = 1..Len(charge) \cup {Len(charge) + 1}
          \/ 1..Len(charge) + n = (1..Len(charge) \cup {Len(charge) + 1}) \cup {Len(charge) + 2}
  BY <1>5
<1> QED BY <1>4, <1>6, <1>7, <1>8, <1>9, <1>10, <1>11 DEF Ref
-----------------------------------------------------------------------------
\* A new expiry is a cycle after the old one, and after today.
LEMMA UntilIs ==
    ASSUME Typed PROVE Until \in Nat /\ Until >= channel.paidUntil + Cycle /\ Until > now
<1> DEFINE dates == {channel.paidUntil, channel.trialEnd, now}
<1>1. channel.paidUntil \in Nat /\ channel.trialEnd \in Nat /\ now \in Nat
  BY DEF Typed, Channels
<1>2. \E x \in dates : \A y \in dates : x >= y
  BY <1>1
<1>3. Max(dates) \in dates /\ \A y \in dates : Max(dates) >= y
  BY <1>2 DEF Max
<1>4. Max(dates) \in Nat /\ Max(dates) >= channel.paidUntil /\ Max(dates) >= now
  BY <1>1, <1>3
<1>5. PICK m \in Nat : m = Max(dates)
  BY <1>4
<1> QED BY <1>1, <1>4, <1>5 DEF Until

\* What the steps leave that move the locals of one request alone.
Marked(c, v) == [call[c] EXCEPT !.at = "keep", !.verdict = v]
Counting(c)  == [call[c] EXCEPT !.at = "update", !.until = Until]
Checking(c)  == [call[c] EXCEPT !.op = "check", !.at = "expire"]
Tracking(c)  == [call[c] EXCEPT !.op = "track", !.at = "count", !.seen = channel]

Sets(c, k) == call' = [call EXCEPT ![c] = k]

LEMMA Moves ==
    ASSUME Typed, NEW c \in Call
    PROVE  /\ Idle \in Calls
           /\ \A v \in Verdicts : Marked(c, v) \in Calls
           /\ Counting(c) \in Calls /\ Checking(c) \in Calls /\ Tracking(c) \in Calls
           /\ [call[c] EXCEPT !.at = "cache"] \in Calls
           /\ [call[c] EXCEPT !.heard = FALSE] \in Calls
           /\ Ends(c) => Sets(c, Idle)
           /\ Goes(c, "cache") => Sets(c, [call[c] EXCEPT !.at = "cache"])
           /\ Fails(c) => Sets(c, Idle) \/ (Sets(c, Marked(c, "failed")) /\ call[c].op = "poll")
           /\ VerifyPending(c) => Sets(c, Marked(c, "pending"))
           /\ ReadChannel(c) => Sets(c, Counting(c)) \/ Fails(c)
           /\ Extend(c) => Sets(c, Idle) \/ (Sets(c, Marked(c, "success")) /\ call[c].op = "poll")
           /\ LoseConnection(c) => Sets(c, [call[c] EXCEPT !.heard = FALSE])
           /\ CheckStatus(c) => Sets(c, Checking(c))
           /\ TrackAction(c) => Sets(c, Tracking(c))
<1> call \in [Call -> Calls] /\ call[c] \in Calls /\ channel \in Channels
  BY DEF Typed
<1>1. Idle \in Calls
  BY DEF Idle, Calls, Verdicts
<1>2. /\ \A v \in Verdicts : Marked(c, v) \in Calls
      /\ Counting(c) \in Calls /\ Checking(c) \in Calls /\ Tracking(c) \in Calls
  BY UntilIs DEF Calls, Marked, Counting, Checking, Tracking
<1>3. /\ [call[c] EXCEPT !.at = "cache"] \in Calls
      /\ [call[c] EXCEPT !.heard = FALSE] \in Calls
  BY DEF Calls
<1>4. Ends(c) => Sets(c, Idle)
  BY DEF Ends, Sets
<1>5. Goes(c, "cache") => Sets(c, [call[c] EXCEPT !.at = "cache"])
  BY DEF Goes, Sets
<1>6. Fails(c) => Sets(c, Idle) \/ (Sets(c, Marked(c, "failed")) /\ call[c].op = "poll")
  BY DEF Fails, Ends, Sets, Marked
<1>7. VerifyPending(c) => Sets(c, Marked(c, "pending"))
  BY DEF VerifyPending, Sets, Marked
<1>8. ReadChannel(c) => Sets(c, Counting(c)) \/ Fails(c)
  BY DEF ReadChannel, Sets, Counting
<1>9. Extend(c) => Sets(c, Idle) \/ (Sets(c, Marked(c, "success")) /\ call[c].op = "poll")
  BY DEF Extend, Ends, Sets, Marked
<1>10. LoseConnection(c) => Sets(c, [call[c] EXCEPT !.heard = FALSE])
  BY DEF LoseConnection, Sets
<1>11. CheckStatus(c) => Sets(c, Checking(c))
  BY DEF CheckStatus, Sets, Checking
<1>12. TrackAction(c) => Sets(c, Tracking(c))
  BY DEF TrackAction, Sets, Tracking
<1> QED BY <1>1, <1>2, <1>3, <1>4, <1>5, <1>6, <1>7, <1>8, <1>9, <1>10, <1>11, <1>12

LEMMA Fields ==
    ASSUME Typed, NEW c \in Call
    PROVE  /\ Idle.op = "none" /\ Idle.at = "idle" /\ Idle.ref = 0 /\ Idle.verdict = "none"
           /\ \A v : /\ Marked(c, v).op = call[c].op /\ Marked(c, v).at = "keep"
                     /\ Marked(c, v).ref = call[c].ref /\ Marked(c, v).verdict = v
           /\ Counting(c).op = call[c].op /\ Counting(c).at = "update"
           /\ Counting(c).ref = call[c].ref /\ Counting(c).verdict = call[c].verdict
           /\ Checking(c).op = "check" /\ Checking(c).at = "expire"
           /\ Checking(c).ref = call[c].ref /\ Checking(c).verdict = call[c].verdict
           /\ Tracking(c).op = "track" /\ Tracking(c).at = "count" /\ Tracking(c).seen = channel
           /\ Tracking(c).ref = call[c].ref /\ Tracking(c).verdict = call[c].verdict
<1>1. call[c] \in Calls
  BY DEF Typed
<1>2. Idle.op = "none" /\ Idle.at = "idle" /\ Idle.ref = 0 /\ Idle.verdict = "none"
  BY DEF Idle
<1>3. \A v : /\ Marked(c, v).op = call[c].op /\ Marked(c, v).at = "keep"
             /\ Marked(c, v).ref = call[c].ref /\ Marked(c, v).verdict = v
  BY <1>1 DEF Marked, Calls
<1>4. /\ Counting(c).op = call[c].op /\ Counting(c).at = "update"
      /\ Counting(c).ref = call[c].ref /\ Counting(c).verdict = call[c].verdict
  BY <1>1 DEF Counting, Calls
<1>5. /\ Checking(c).op = "check" /\ Checking(c).at = "expire"
      /\ Checking(c).ref = call[c].ref /\ Checking(c).verdict = call[c].verdict
  BY <1>1 DEF Checking, Calls
<1>6. /\ Tracking(c).op = "track" /\ Tracking(c).at = "count" /\ Tracking(c).seen = channel
      /\ Tracking(c).ref = call[c].ref /\ Tracking(c).verdict = call[c].verdict
  BY <1>1 DEF Tracking, Calls
<1> QED BY <1>2, <1>3, <1>4, <1>5, <1>6

LEMMA IdleIsCall == Idle \in Calls
  BY DEF Idle, Calls, Verdicts

\* Every step keeps the types.
LEMMA Typing == ASSUME Typed, Locals, [Next]_vars PROVE Typed'
<1> USE DEF Typed
<1> /\ Len(charge) \in Nat /\ "pending" \in Verdicts /\ "failed" \in Verdicts
    /\ "success" \in Verdicts /\ "none" \in Verdicts
  BY DEF Verdicts
<1>1. CASE PushPrompt \/ PaymentLink \/ PromptTimesOut
  BY <1>1, NewCharges
<1>2. ASSUME NEW r \in Ref, NEW state \in {"success", "failed"}, Settle(r, state) PROVE Typed'
  BY <1>2, ExceptSeq DEF Settle, Ref
<1>3. ASSUME NEW r \in Ref, Repeat(r) PROVE Typed'
  <2>1. due[r] + 1 \in Nat
    BY DEF Ref
  <2> QED BY <1>3, <2>1, ExceptSeq DEF Repeat, Ref
<1>4. ASSUME NEW r \in Ref, ForgetVerdict(r) PROVE Typed'
  BY <1>4, ExceptSeq DEF ForgetVerdict, Ref
<1>5. ASSUME NEW r \in Ref, NEW c \in Call, Deliver(c, r) \/ Poll(c, r) PROVE Typed'
  <2>1. ASSUME NEW op \in {"webhook", "poll"}, NEW at \in {"verify", "state"}, Begin(c, op, at, r)
        PROVE  call' \in [Call -> Calls]
    <3>1. [Idle EXCEPT !.op = op, !.at = at, !.ref = r, !.heard = TRUE] \in Calls
      <4>1. r \in Nat /\ Idle \in Calls
        BY IdleIsCall DEF Ref
      <4> QED BY <4>1 DEF Calls
    <3> QED BY <2>1, <3>1 DEF Begin
  <2>2. call' \in [Call -> Calls]
    BY <1>5, <2>1 DEF Deliver, Poll
  <2>3. due[r] \in Nat /\ polls[r] \in Nat /\ r \in 1..Len(due) /\ r \in 1..Len(polls)
    BY DEF Ref
  <2>4. /\ due' \in Seq(Nat) /\ Len(due') = Len(charge)
        /\ polls' \in Seq(Nat) /\ Len(polls') = Len(charge)
    <3>1. CASE Deliver(c, r)
      <4>1. due[r] - 1 \in Nat /\ due' = [due EXCEPT ![r] = due[r] - 1] /\ polls' = polls
        BY <2>3, <3>1 DEF Deliver
      <4> QED BY <2>3, <4>1, ExceptSeq
    <3>2. CASE Poll(c, r)
      <4>1. polls[r] - 1 \in Nat /\ polls' = [polls EXCEPT ![r] = polls[r] - 1] /\ due' = due
        BY <2>3, <3>2 DEF Poll
      <4> QED BY <2>3, <4>1, ExceptSeq
    <3> QED BY <1>5, <3>1, <3>2
  <2> QED BY <1>5, <2>2, <2>4 DEF Deliver, Poll, Begin
<1>6. ASSUME NEW c \in Call, NEW v \in Verdicts, Answer(c, v), call[c].ref \in Ref,
             \/ verdict' = verdict
             \/ \E w \in Verdicts : verdict' = [verdict EXCEPT ![call[c].ref] = w]
      PROVE  Typed'
  <2>1. call' \in [Call -> Calls]
    BY <1>6, Moves DEF Answer, Sets
  <2>2. verdict' \in Seq(Verdicts) /\ Len(verdict') = Len(charge)
    <3>1. \A w \in Verdicts : LET kept == [verdict EXCEPT ![call[c].ref] = w]
                             IN  kept \in Seq(Verdicts) /\ Len(kept) = Len(charge)
      BY <1>6, ExceptSeq DEF Ref
    <3> QED BY <1>6, <3>1
  <2>3. polls' \in Seq(Nat) /\ Len(polls') = Len(charge)
    BY <1>6, ExceptSeq DEF Answer, Ref
  <2> QED BY <1>6, <2>1, <2>2, <2>3 DEF Answer
<1>7. ASSUME NEW c \in Call, NEW k \in Calls, Sets(c, k) PROVE call' \in [Call -> Calls]
  BY <1>7 DEF Sets
<1>8. ASSUME OnlyCalls, call' \in [Call -> Calls] PROVE Typed'
  BY <1>8 DEF OnlyCalls
<1>9. ASSUME NEW c \in Call, ReadState(c) PROVE Typed'
  <2>1. call[c].ref \in Ref
    BY <1>9 DEF ReadState, Locals, Counted
  <2>2. CASE PaidLately
    BY <1>6, <1>9, <2>1, <2>2 DEF ReadState
  <2>3. CASE ~PaidLately
    <3>1. call' \in [Call -> Calls]
      BY <1>7, <1>9, <2>3, Moves DEF ReadState
    <3> QED BY <1>8, <1>9, <2>3, <3>1 DEF ReadState
  <2> QED BY <2>2, <2>3
<1>10. ASSUME NEW c \in Call, CachedVerdict(c) PROVE Typed'
  <2>1. call[c].ref \in Ref /\ verdict[call[c].ref] \in Verdicts
    <3>1. call[c].ref \in 1..Len(verdict) /\ verdict \in Seq(Verdicts)
      BY <1>10 DEF CachedVerdict, Locals, Counted, Ref
    <3>2. verdict[call[c].ref] \in Verdicts
      BY <3>1
    <3> QED BY <3>1, <3>2 DEF Ref
  <2> QED BY <1>6, <1>10, <2>1 DEF CachedVerdict
<1>11. ASSUME NEW c \in Call,
              \/ VerifyPending(c) \/ VerifyFails(c) \/ ExtendFails(c) \/ ReadChannel(c)
              \/ LoseConnection(c) \/ CheckStatus(c)
      PROVE  Typed'
  <2>1. OnlyCalls
    BY <1>11 DEF VerifyPending, VerifyFails, ExtendFails, ReadChannel, LoseConnection, CheckStatus
  <2>2. Fails(c) => call' \in [Call -> Calls]
    BY <1>7, Moves
  <2>3. ReadChannel(c) \/ VerifyPending(c) \/ LoseConnection(c) \/ CheckStatus(c)
        => call' \in [Call -> Calls]
    BY <1>7, <2>2, Moves
  <2>4. call' \in [Call -> Calls]
    BY <1>11, <2>2, <2>3 DEF VerifyFails, ExtendFails
  <2> QED BY <1>8, <2>1, <2>4
<1>12. ASSUME NEW c \in Call, Extend(c) PROVE Typed'
  <2>1. call[c].ref \in Ref /\ call[c].op \in Counted
    BY <1>12 DEF Extend, Locals
  <2>2. channel' \in Channels
    BY <1>12 DEF Extend, Channels, Calls
  <2>3. call' \in [Call -> Calls]
    BY <1>7, <1>12, Moves
  <2>4. extended[call[c].ref] \in Seq(Counted)
    BY <2>1 DEF Ref
  <2>5. Append(extended[call[c].ref], call[c].op) \in Seq(Counted)
    BY <2>1, <2>4, AppendProperties
  <2>6. extended' \in Seq(Seq(Counted)) /\ Len(extended') = Len(charge)
    <3>1. /\ call[c].ref \in 1..Len(extended) /\ extended \in Seq(Seq(Counted))
          /\ extended' = [extended EXCEPT ![call[c].ref] =
                                Append(extended[call[c].ref], call[c].op)]
      BY <1>12, <2>1 DEF Extend, Ref
    <3> QED BY <2>5, <3>1, ExceptSeq
  <2> QED BY <1>12, <2>2, <2>3, <2>6 DEF Extend
<1>13. ASSUME NEW c \in Call, KeepVerdict(c) PROVE Typed'
  <2>1. call[c].ref \in Ref /\ call[c].verdict \in Verdicts
    BY <1>13 DEF KeepVerdict, Locals, Calls
  <2> QED BY <1>6, <1>13, <2>1 DEF KeepVerdict
<1>14. ASSUME NEW c \in Call, MarkExpired(c) PROVE Typed'
  <2>1. channel' \in Channels
    BY <1>14 DEF MarkExpired, Channels
  <2>2. call' \in [Call -> Calls]
    BY <1>7, <1>14, Moves DEF MarkExpired
  <2> QED BY <1>14, <2>1, <2>2 DEF MarkExpired
<1>15. ASSUME NEW c \in Call, TrackAction(c) PROVE Typed'
  <2>1. call' \in [Call -> Calls]
    BY <1>7, <1>15, Moves
  <2> QED BY <1>15, <2>1 DEF TrackAction
<1>16. ASSUME NEW c \in Call, CountAction(c) PROVE Typed'
  <2>1. channel' \in Channels
    BY <1>16 DEF CountAction, Locals, Channels
  <2>2. call' \in [Call -> Calls]
    BY <1>7, <1>16, Moves DEF CountAction
  <2>3. restored' \in BOOLEAN
    BY <1>16 DEF CountAction
  <2> QED BY <1>16, <2>1, <2>2, <2>3 DEF CountAction
<1>17. CASE Tick \/ FiveMinutes \/ SetTier
  <2>1. channel' \in Channels
    BY <1>17 DEF Tick, FiveMinutes, SetTier, Channels
  <2> QED BY <1>17, <2>1 DEF Tick, FiveMinutes, SetTier
<1>18. CASE UNCHANGED vars
  BY <1>18 DEF vars
<1> QED
  BY <1>1, <1>2, <1>3, <1>4, <1>5, <1>9, <1>10, <1>11, <1>12, <1>13, <1>14, <1>15, <1>16, <1>17,
     <1>18 DEF Next
-----------------------------------------------------------------------------
\* Only what begins a purchase, and time, touch what the locals are about.
LEMMA RefKept ==
    ASSUME Typed, [Next]_vars, ~(PushPrompt \/ PaymentLink \/ PromptTimesOut)
    PROVE  Ref' = Ref
<1> Len(charge) \in Nat /\ charge \in Seq({"pending", "failed", "success"})
  BY DEF Typed
<1>1. ASSUME NEW r \in Ref, NEW state \in {"success", "failed"}, Settle(r, state) PROVE Ref' = Ref
  BY <1>1, ExceptSeq DEF Settle, Ref
<1>2. (\E r \in Ref : \E state \in {"success", "failed"} : Settle(r, state)) \/ charge' = charge
  BY DEF Next, vars, Tick, FiveMinutes, SetTier, Repeat, ForgetVerdict, Deliver, Poll, Begin,
         ReadState, CachedVerdict, Answer, OnlyCalls, VerifyPending, VerifyFails, ReadChannel,
         Extend, ExtendFails, KeepVerdict, LoseConnection, CheckStatus, MarkExpired, TrackAction,
         CountAction
<1> QED BY <1>1, <1>2 DEF Ref

\* A request is about the same payment, and at a place it can be at.
LEMMA LocalsKept == ASSUME Typed, Typed', Locals, [Next]_vars PROVE Locals'
<1> USE DEF Locals, Counted
<1> Len(charge) \in Nat /\ call \in [Call -> Calls] /\ 0 \notin Ref
  BY DEF Typed, Ref
<1>1. CASE PushPrompt \/ PaymentLink \/ PromptTimesOut
  <2>1. call' = call /\ now' = now /\ Ref \subseteq Ref' /\ 0 \notin Ref'
    BY <1>1, NewCharges
  <2>2. \A c \in Call : call[c].ref \in Ref' <=> call[c].ref \in Ref
    BY <2>1
  <2> QED BY <2>1, <2>2
<1>2. ASSUME Ref' = Ref, now' = now, call' = call PROVE Locals'
  BY <1>2
<1>3. ASSUME Ref' = Ref, now' = now, NEW c \in Call, NEW k \in Calls, Sets(c, k),
             k.ref \in Ref \cup {0}, k.op \in Counted <=> k.ref \in Ref,
             k.at \in {"state", "cache"} => k.op = "poll",
             k.at = "verify" => k.op = "webhook",
             k.at \in {"keep", "update"} => k.op \in Counted,
             k.at = "update" => k.until > now,
             k.at = "count" => k.seen \in Channels
      PROVE  Locals'
  <2>1. call'[c] = k /\ \A d \in Call \ {c} : call'[d] = call[d]
    BY <1>3 DEF Sets
  <2> SUFFICES ASSUME NEW d \in Call
               PROVE  /\ call'[d].ref \in Ref \cup {0}
                      /\ call'[d].op \in Counted <=> call'[d].ref \in Ref
                      /\ call'[d].at \in {"state", "cache"} => call'[d].op = "poll"
                      /\ call'[d].at = "verify" => call'[d].op = "webhook"
                      /\ call'[d].at \in {"keep", "update"} => call'[d].op \in Counted
                      /\ call'[d].at = "update" => call'[d].until > now
                      /\ call'[d].at = "count" => call'[d].seen \in Channels
    BY <1>3
  <2>2. CASE d = c
    BY <1>3, <2>1, <2>2
  <2>3. CASE d # c
    BY <2>1, <2>3
  <2> QED BY <2>2, <2>3
<1>4. ASSUME Ref' = Ref, now' = now, NEW c \in Call, Sets(c, Idle) PROVE Locals'
  BY <1>3, <1>4, Moves DEF Idle
<1>5. ASSUME Ref' = Ref, now' = now, NEW c \in Call, NEW v \in Verdicts, Sets(c, Marked(c, v)),
             call[c].op \in Counted
      PROVE  Locals'
  <2>1. Marked(c, v).ref = call[c].ref /\ Marked(c, v).op = call[c].op /\ Marked(c, v).at = "keep"
    BY DEF Marked, Calls
  <2> QED BY <1>3, <1>5, <2>1, Moves
<1>6. ASSUME Ref' = Ref, now' = now, NEW c \in Call, Fails(c) PROVE Locals'
  <2>1. "failed" \in Verdicts
    BY DEF Verdicts
  <2> QED BY <1>4, <1>5, <1>6, <2>1, Moves
<1>7. ASSUME ~(PushPrompt \/ PaymentLink \/ PromptTimesOut) PROVE Ref' = Ref
  BY <1>7, RefKept
<1>8. ASSUME NEW r \in Ref, Ref' = Ref, NEW c \in Call, Deliver(c, r) \/ Poll(c, r) PROVE Locals'
  <2>1. ASSUME NEW op \in {"webhook", "poll"}, NEW at \in {"verify", "state"}, Begin(c, op, at, r),
               op = "webhook" <=> at = "verify"
        PROVE  Locals'
    <3> DEFINE k == [Idle EXCEPT !.op = op, !.at = at, !.ref = r, !.heard = TRUE]
    <3>1. k \in Calls
      <4>1. r \in Nat /\ Idle \in Calls
        BY IdleIsCall DEF Ref
      <4> QED BY <4>1 DEF Calls
    <3>2. k.op = op /\ k.at = at /\ k.ref = r
      BY DEF Idle
    <3>3. Sets(c, k)
      BY <2>1 DEF Begin, Sets
    <3>4. now' = now
      BY <2>1 DEF Begin
    <3> HIDE DEF k
    <3> QED BY <1>3, <1>8, <2>1, <3>1, <3>2, <3>3, <3>4
  <2> QED BY <1>8, <2>1 DEF Deliver, Poll
<1>9. ASSUME NEW c \in Call, Ref' = Ref, ReadState(c) \/ CachedVerdict(c) \/ KeepVerdict(c)
      PROVE  Locals'
  <2>1. \/ Sets(c, Idle) /\ now' = now
        \/ Sets(c, [call[c] EXCEPT !.at = "cache"]) /\ call[c].at = "state" /\ now' = now
    BY <1>9, Moves DEF ReadState, CachedVerdict, KeepVerdict, Answer, OnlyCalls
  <2>2. CASE Sets(c, [call[c] EXCEPT !.at = "cache"]) /\ call[c].at = "state" /\ now' = now
    <3> DEFINE k == [call[c] EXCEPT !.at = "cache"]
    <3>1. k \in Calls
      BY Moves
    <3>2. k.ref = call[c].ref /\ k.op = call[c].op /\ k.at = "cache"
      <4>1. call[c] \in Calls
        OBVIOUS
      <4> QED BY <4>1 DEF Calls
    <3> HIDE DEF k
    <3>3. Sets(c, k)
      BY <2>2 DEF k
    <3> QED BY <1>3, <1>9, <2>2, <3>1, <3>2, <3>3
  <2> QED BY <1>4, <1>9, <2>1, <2>2
<1>10. ASSUME NEW c \in Call, Ref' = Ref, VerifyFails(c) \/ ExtendFails(c) PROVE Locals'
  BY <1>6, <1>10 DEF VerifyFails, ExtendFails, OnlyCalls
<1>11. ASSUME NEW c \in Call, Ref' = Ref, VerifyPending(c) PROVE Locals'
  <2>1. call[c].op \in Counted /\ now' = now /\ "pending" \in Verdicts
    BY <1>11 DEF VerifyPending, Verifying, OnlyCalls, Verdicts
  <2> QED BY <1>5, <1>11, <2>1, Moves
<1>12. ASSUME NEW c \in Call, Ref' = Ref, ReadChannel(c) PROVE Locals'
  <2>1. call[c].op \in Counted /\ now' = now
    BY <1>12 DEF ReadChannel, Verifying, OnlyCalls
  <2>2. CASE Sets(c, Counting(c))
    <3>1. /\ Counting(c).ref = call[c].ref /\ Counting(c).op = call[c].op
          /\ Counting(c).at = "update" /\ Counting(c).until > now
      BY UntilIs DEF Counting, Calls
    <3> QED BY <1>3, <1>12, <2>1, <2>2, <3>1, Moves
  <2> QED BY <1>6, <1>12, <2>1, <2>2, Moves
<1>13. ASSUME NEW c \in Call, Ref' = Ref, Extend(c) PROVE Locals'
  <2>1. now' = now /\ "success" \in Verdicts
    BY <1>13 DEF Extend, Verdicts
  <2> QED BY <1>4, <1>5, <1>13, <2>1, Moves
<1>14. ASSUME NEW c \in Call, Ref' = Ref, LoseConnection(c) PROVE Locals'
  <2>1. Sets(c, [call[c] EXCEPT !.heard = FALSE]) /\ now' = now
    BY <1>14, Moves DEF LoseConnection, OnlyCalls
  <2> DEFINE k == [call[c] EXCEPT !.heard = FALSE]
  <2>2. /\ k.ref = call[c].ref /\ k.op = call[c].op /\ k.at = call[c].at
        /\ k.until = call[c].until /\ k.seen = call[c].seen
    <3>1. call[c] \in Calls
      OBVIOUS
    <3> QED BY <3>1 DEF Calls
  <2>3. k \in Calls
    BY Moves
  <2> HIDE DEF k
  <2>4. Sets(c, k)
    BY <2>1 DEF k
  <2> QED BY <1>3, <1>14, <2>1, <2>2, <2>3, <2>4
<1>15. ASSUME NEW c \in Call, Ref' = Ref, CheckStatus(c) \/ TrackAction(c) PROVE Locals'
  <2>1. /\ Sets(c, Checking(c)) \/ Sets(c, Tracking(c))
        /\ now' = now /\ call[c] = Idle
    BY <1>15, Moves DEF CheckStatus, TrackAction, OnlyCalls
  <2>2. /\ Checking(c).ref = 0 /\ Checking(c).op = "check" /\ Checking(c).at = "expire"
        /\ Tracking(c).ref = 0 /\ Tracking(c).op = "track" /\ Tracking(c).at = "count"
        /\ Tracking(c).seen = channel
    BY <2>1 DEF Checking, Tracking, Idle
  <2> QED BY <1>3, <1>15, <2>1, <2>2, Moves DEF Typed
<1>16. ASSUME NEW c \in Call, Ref' = Ref, MarkExpired(c) \/ CountAction(c) PROVE Locals'
  BY <1>4, <1>16, Moves DEF MarkExpired, CountAction
<1>17. CASE Ref' = Ref /\ Tick
  BY <1>17 DEF Tick
<1>18. CASE Ref' = Ref /\ (FiveMinutes \/ SetTier)
  BY <1>2, <1>18 DEF FiveMinutes, SetTier
<1>19. ASSUME NEW r \in Ref, Ref' = Ref, NEW state \in {"success", "failed"},
              Settle(r, state) \/ Repeat(r) \/ ForgetVerdict(r)
       PROVE  Locals'
  BY <1>2, <1>19 DEF Settle, Repeat, ForgetVerdict
<1>20. CASE Ref' = Ref /\ UNCHANGED vars
  BY <1>2, <1>20 DEF vars
<1> QED
  BY <1>1, <1>7, <1>8, <1>9, <1>10, <1>11, <1>12, <1>13, <1>14, <1>15, <1>16, <1>17, <1>18,
     <1>19, <1>20 DEF Next
-----------------------------------------------------------------------------
\* A payment that is counted stays counted.
LEMMA ExtendCounts ==
    ASSUME Typed, Locals, NEW c \in Call, Extend(c)
    PROVE  /\ call[c].ref \in Ref /\ call[c].op \in Counted /\ Ref' = Ref
           /\ extended'[call[c].ref] = Append(extended[call[c].ref], call[c].op)
           /\ extended'[call[c].ref] # <<>>
           /\ Len(extended'[call[c].ref]) = Len(extended[call[c].ref]) + 1
           /\ \A r \in Ref \ {call[c].ref} : extended'[r] = extended[r]
           /\ extended[call[c].ref] \in Seq(Counted)
<1> DEFINE ref == call[c].ref
           counts == Append(extended[ref], call[c].op)
<1>1. ref \in Ref /\ call[c].op \in Counted
  BY DEF Extend, Locals
<1>2. ref \in 1..Len(extended) /\ extended[ref] \in Seq(Counted) /\ extended \in Seq(Seq(Counted))
  BY <1>1 DEF Typed, Ref
<1>3. counts \in Seq(Counted) /\ counts # <<>> /\ Len(counts) = Len(extended[ref]) + 1
  <2>1. PICK s \in Seq(Counted) : s = extended[ref]
    BY <1>2
  <2>2. PICK op \in Counted : op = call[c].op
    BY <1>1
  <2>3. counts = Append(s, op)
    BY <2>1, <2>2
  <2> HIDE DEF counts
  <2>4. Append(s, op) \in Seq(Counted) /\ Append(s, op) # <<>> /\ Len(Append(s, op)) = Len(s) + 1
    BY AppendProperties
  <2> QED BY <2>1, <2>3, <2>4
<1> HIDE DEF counts
<1>4. extended' = [extended EXCEPT ![ref] = counts] /\ Ref' = Ref
  BY DEF Extend, counts, Ref
<1>5. extended'[ref] = counts /\ \A r \in Ref \ {ref} : extended'[r] = extended[r]
  BY <1>2, <1>3, <1>4, ExceptSeq DEF Ref, Typed
<1> QED BY <1>1, <1>2, <1>3, <1>4, <1>5 DEF counts

LEMMA ExtendedKept ==
    ASSUME Typed, Locals, [Next]_vars, \A c \in Call : ~Extend(c)
    PROVE  /\ Ref \subseteq Ref' /\ \A r \in Ref : extended'[r] = extended[r]
           /\ \A r \in Ref' \ Ref : extended'[r] = <<>>
<1>1. CASE PushPrompt \/ PaymentLink \/ PromptTimesOut
  BY <1>1, NewCharges
<1>2. CASE ~(PushPrompt \/ PaymentLink \/ PromptTimesOut)
  <2>1. Ref' = Ref
    BY <1>2, RefKept
  <2>2. extended' = extended
    BY <1>2 DEF Next, vars, Tick, FiveMinutes, SetTier, Settle, Repeat, ForgetVerdict, Deliver, Poll,
           Begin, ReadState, CachedVerdict, Answer, OnlyCalls, VerifyPending, VerifyFails,
           ReadChannel, ExtendFails, KeepVerdict, LoseConnection, CheckStatus, MarkExpired,
           TrackAction, CountAction
  <2> QED BY <2>1, <2>2
<1> QED BY <1>1, <1>2

LEMMA CountedStays ==
    ASSUME Typed, Locals, [Next]_vars, NEW r \in Ref, extended[r] # <<>>
    PROVE  r \in Ref' /\ extended'[r] # <<>>
<1>1. ASSUME NEW c \in Call, Extend(c) PROVE r \in Ref' /\ extended'[r] # <<>>
  BY <1>1, ExtendCounts
<1>2. CASE \A c \in Call : ~Extend(c)
  BY <1>2, ExtendedKept
<1> QED BY <1>1, <1>2

\* What remembers a success was told of it by what remembered it, unless a
\* payment is being counted.
Remembered ==
    /\ \A r \in Ref' : verdict'[r] = "success" => r \in Ref /\
         (verdict[r] = "success" \/ \E c \in Call : call[c].ref = r /\ call[c].verdict = "success")
    /\ \A c \in Call : call'[c].verdict = "success" =>
         call[c].verdict = "success" /\ call'[c].ref = call[c].ref
    /\ channel'.recent => channel.recent

LEMMA SuccessFollows ==
    ASSUME Typed, Locals, [Next]_vars, \A c \in Call : ~Extend(c)
    PROVE  Remembered
<1> USE DEF Remembered
<1> call \in [Call -> Calls] /\ channel \in Channels /\ verdict \in Seq(Verdicts)
  BY DEF Typed
<1>1. CASE PushPrompt \/ PaymentLink \/ PromptTimesOut
  <2>1. \A r \in Ref' : verdict'[r] = "success" => r \in Ref /\ verdict[r] = "success"
    BY <1>1, NewCharges
  <2> QED BY <1>1, <2>1, NewCharges
<1> SUFFICES ASSUME ~(PushPrompt \/ PaymentLink \/ PromptTimesOut) PROVE Remembered
  BY <1>1
<1>2. Ref' = Ref
  BY RefKept
<1>3. ASSUME UNCHANGED <<verdict, call>>, channel'.recent => channel.recent
      PROVE  Remembered
  BY <1>2, <1>3
<1>4. ASSUME verdict' = verdict, channel'.recent => channel.recent,
             NEW c \in Call, NEW k \in Calls, Sets(c, k),
             k.verdict # "success" \/ (k.verdict = call[c].verdict /\ k.ref = call[c].ref)
      PROVE  Remembered
  BY <1>2, <1>4 DEF Sets
<1>5. ASSUME NEW c \in Call, NEW v, Answer(c, v), call[c].ref \in Ref,
             \/ verdict' = verdict
             \/ verdict' = [verdict EXCEPT ![call[c].ref] = v] /\ v = call[c].verdict
      PROVE  Remembered
  <2>1. channel' = channel /\ Sets(c, Idle)
    BY <1>5, Moves DEF Answer
  <2>2. \A r \in Ref : verdict'[r] = "success" =>
           verdict[r] = "success" \/ (r = call[c].ref /\ call[c].verdict = "success")
    <3>1. DOMAIN verdict = Ref
      BY DEF Typed, Ref
    <3> QED BY <1>5, <3>1
  <2>3. \A d \in Call : call'[d].verdict = "success" => call'[d] = call[d]
    BY <2>1 DEF Sets, Idle
  <2> QED BY <1>2, <2>1, <2>2, <2>3
<1>6. ASSUME NEW r \in Ref, NEW state \in {"success", "failed"}, Settle(r, state) \/ Repeat(r)
      PROVE  Remembered
  BY <1>3, <1>6 DEF Settle, Repeat
<1>7. ASSUME NEW r \in Ref, ForgetVerdict(r) PROVE Remembered
  <2>1. DOMAIN verdict = Ref
    BY DEF Typed, Ref
  <2> QED BY <1>2, <1>7, <2>1 DEF ForgetVerdict
<1>8. ASSUME NEW r \in Ref, NEW c \in Call, Deliver(c, r) \/ Poll(c, r) PROVE Remembered
  <2>1. \A d \in Call : call'[d].verdict = "success" => call'[d] = call[d]
    <3>1. ASSUME NEW op, NEW at, Begin(c, op, at, r)
          PROVE  /\ call'[c].verdict = "none" /\ \A d \in Call \ {c} : call'[d] = call[d]
      BY <3>1 DEF Begin, Idle
    <3> QED BY <1>8, <3>1 DEF Deliver, Poll
  <2>2. UNCHANGED <<channel, verdict>>
    BY <1>8 DEF Deliver, Poll, Begin
  <2> QED BY <1>2, <2>1, <2>2
<1>9. ASSUME NEW c \in Call, ReadState(c) PROVE Remembered
  <2>1. call[c].ref \in Ref
    BY <1>9 DEF ReadState, Locals, Counted
  <2>2. CASE PaidLately
    BY <1>5, <1>9, <2>1, <2>2 DEF ReadState
  <2>3. CASE ~PaidLately
    <3>1. Sets(c, [call[c] EXCEPT !.at = "cache"]) /\ UNCHANGED <<verdict, channel>>
      BY <1>9, <2>3, Moves DEF ReadState, OnlyCalls
    <3>2. \A d \in Call : call'[d].verdict = call[d].verdict /\ call'[d].ref = call[d].ref
      BY <3>1 DEF Sets, Calls
    <3> QED BY <1>2, <3>1, <3>2
  <2> QED BY <2>2, <2>3
<1>10. ASSUME NEW c \in Call, CachedVerdict(c) PROVE Remembered
  <2>1. call[c].ref \in Ref
    BY <1>10 DEF CachedVerdict, Locals, Counted
  <2> QED BY <1>5, <1>10, <2>1 DEF CachedVerdict
<1>11. ASSUME NEW c \in Call, KeepVerdict(c) PROVE Remembered
  <2>1. call[c].ref \in Ref
    BY <1>11 DEF KeepVerdict, Locals, Counted
  <2> QED BY <1>5, <1>11, <2>1 DEF KeepVerdict
<1>12. ASSUME NEW c \in Call,
              \/ VerifyPending(c) \/ VerifyFails(c) \/ ExtendFails(c) \/ ReadChannel(c)
              \/ LoseConnection(c) \/ CheckStatus(c)
       PROVE  Remembered
  <2>1. UNCHANGED <<verdict, channel>>
    BY <1>12 DEF VerifyPending, VerifyFails, ExtendFails, ReadChannel, LoseConnection, CheckStatus,
                 OnlyCalls
  <2>2. \E k \in Calls : /\ Sets(c, k)
                       /\ \/ k.verdict # "success"
                          \/ k.verdict = call[c].verdict /\ k.ref = call[c].ref
    <3>1. /\ Idle.verdict = "none" /\ Marked(c, "pending").verdict = "pending"
          /\ Marked(c, "failed").verdict = "failed" /\ Counting(c).verdict = call[c].verdict
          /\ Checking(c).verdict = call[c].verdict
          /\ [call[c] EXCEPT !.heard = FALSE].verdict = call[c].verdict
          /\ Counting(c).ref = call[c].ref /\ Checking(c).ref = call[c].ref
          /\ [call[c] EXCEPT !.heard = FALSE].ref = call[c].ref
      BY DEF Idle, Marked, Counting, Checking, Calls
    <3>2. "pending" \in Verdicts /\ "failed" \in Verdicts
      BY DEF Verdicts
    <3> QED BY <1>12, <3>1, <3>2, Moves DEF VerifyFails, ExtendFails
  <2> QED BY <1>4, <2>1, <2>2
<1>13. ASSUME NEW c \in Call, MarkExpired(c) \/ CountAction(c) PROVE Remembered
  <2>1. Sets(c, Idle) /\ verdict' = verdict /\ (channel'.recent => channel.recent)
    BY <1>13, Moves DEF MarkExpired, CountAction, Locals, Channels
  <2> QED BY <1>4, <2>1, Moves DEF Idle
<1>14. ASSUME NEW c \in Call, TrackAction(c) PROVE Remembered
  <2>1. Sets(c, Tracking(c)) /\ UNCHANGED <<verdict, channel>>
    BY <1>14, Moves DEF TrackAction
  <2>2. Tracking(c).verdict = call[c].verdict /\ Tracking(c).ref = call[c].ref
    BY DEF Tracking, Calls
  <2> QED BY <1>4, <2>1, <2>2, Moves
<1>15. CASE Tick \/ FiveMinutes \/ SetTier
  BY <1>3, <1>15 DEF Tick, FiveMinutes, SetTier, Channels
<1>16. CASE UNCHANGED vars
  BY <1>3, <1>16 DEF vars
<1> QED
  BY <1>6, <1>7, <1>8, <1>9, <1>10, <1>11, <1>12, <1>13, <1>14, <1>15, <1>16 DEF Next

\* So what is remembered was counted.
LEMMA EvidenceKept == ASSUME Typed, Typed', Locals, Evidence, [Next]_vars PROVE Evidence'
<1> USE DEF Evidence, Recorded, LatelyNoted
<1>1. ASSUME NEW c \in Call, Extend(c) PROVE Evidence'
  <2>1. call[c].ref \in Ref /\ Ref' = Ref /\ verdict' = verdict /\ lately' # {}
        /\ extended'[call[c].ref] # <<>>
    BY <1>1, ExtendCounts DEF Extend
  <2>2. \A r \in Ref : extended[r] # <<>> => extended'[r] # <<>>
    BY CountedStays
  <2>3. \/ Sets(c, Idle) /\ Idle.verdict = "none"
        \/ Sets(c, Marked(c, "success")) /\ Marked(c, "success").ref = call[c].ref
    <3>1. Idle.verdict = "none" /\ Marked(c, "success").ref = call[c].ref
      BY Fields
    <3>2. Sets(c, Idle) \/ Sets(c, Marked(c, "success"))
      BY <1>1, Moves
    <3> QED BY <3>1, <3>2
  <2>4. \A d \in Call : call'[d] = call[d]
                         \/ call'[d].verdict = "none" \/ call'[d].ref = call[c].ref
    BY <2>3 DEF Sets, Typed
  <2> QED BY <2>1, <2>2, <2>4
<1>2. CASE \A c \in Call : ~Extend(c)
  <2>1. Remembered
    BY <1>2, SuccessFollows
  <2>2. \A r \in Ref : extended[r] # <<>> => r \in Ref' /\ extended'[r] # <<>>
    BY CountedStays
  <2>3. lately' = lately \/ ~channel'.recent
    <3>1. CASE PushPrompt \/ PaymentLink \/ PromptTimesOut
      BY <3>1, NewCharges
    <3>2. FiveMinutes => ~channel'.recent
      BY DEF FiveMinutes, Typed, Channels
    <3>3. CASE ~(PushPrompt \/ PaymentLink \/ PromptTimesOut) /\ ~FiveMinutes
      BY <1>2, <3>3 DEF Next, vars, Tick, SetTier, Settle, Repeat, ForgetVerdict, Deliver,
             Poll, Begin, ReadState, CachedVerdict, Answer, OnlyCalls, VerifyPending, VerifyFails,
             ReadChannel, ExtendFails, KeepVerdict, LoseConnection, CheckStatus, MarkExpired,
             TrackAction, CountAction
    <3> QED BY <3>1, <3>2, <3>3
  <2> QED BY <2>1, <2>2, <2>3 DEF Remembered
<1> QED BY <1>1, <1>2

\* And what the modal is told was, or another payment was counted lately.
LEMMA TellsTruth ==
    ASSUME Typed, Locals, Evidence, [Next]_vars
    PROVE  \A r \in told' \ told : extended[r] # <<>> \/ lately # {}
<1> SUFFICES ASSUME NEW r \in told' \ told PROVE extended[r] # <<>> \/ lately # {}
  OBVIOUS
<1> USE DEF Evidence, Recorded, LatelyNoted
<1>1. PICK c \in Call : ReadState(c) \/ CachedVerdict(c) \/ KeepVerdict(c)
  <2>1. ~(PushPrompt \/ PaymentLink \/ PromptTimesOut)
    BY NewCharges
  <2> QED BY <2>1 DEF Next, vars, Tick, FiveMinutes, SetTier, Settle, Repeat, ForgetVerdict,
             Deliver, Poll, Begin, OnlyCalls, VerifyPending, VerifyFails, ReadChannel, Extend,
             ExtendFails, LoseConnection, CheckStatus, MarkExpired, TrackAction, CountAction
<1>2. ASSUME NEW v, Answer(c, v) PROVE v = "success" /\ r = call[c].ref
  BY <1>2 DEF Answer
<1>3. CASE ReadState(c)
  BY <1>3 DEF ReadState, PaidLately, OnlyCalls
<1>4. CASE CachedVerdict(c)
  <2>1. call[c].ref \in Ref
    BY <1>4 DEF CachedVerdict, Locals, Counted
  <2> QED BY <1>2, <1>4, <2>1 DEF CachedVerdict
<1>5. CASE KeepVerdict(c)
  BY <1>2, <1>5 DEF KeepVerdict
<1> QED BY <1>1, <1>3, <1>4, <1>5
-----------------------------------------------------------------------------
\* What a step does to the channel, the requests and what is counted, in the
\* kinds the invariant tells apart.
Flags == <<overlapped, crossed, clobbered, restored>>

Elsewhere == \* nothing that the invariant is about, but for new charges
    /\ UNCHANGED <<channel, now, call, Flags>>
    /\ \A r \in Ref : polls'[r] = polls[r]

Moving(c, k) == \* a request goes on or ends, and may end the polling
    /\ Sets(c, k) /\ k \in Calls /\ UNCHANGED <<channel, now, Flags>>
    /\ \A r \in Ref : polls'[r] \in {polls[r], 0}
    /\ \/ k = Idle
       \/ /\ k.op = call[c].op /\ k.ref = call[c].ref
          /\ \/ k.at = call[c].at /\ k.until = call[c].until /\ k.seen = call[c].seen
             \/ k.at = "keep"
             \/ k.at = "cache" /\ call[c].at = "state" /\ ~PaidLately
             \/ k.at = "update" /\ call[c].at \in {"verify", "cache"} /\ k.until = Until

LEMMA MovingSteps ==
    ASSUME Typed, Locals, NEW c \in Call,
           \/ ReadState(c) \/ CachedVerdict(c) \/ VerifyPending(c) \/ VerifyFails(c)
           \/ ReadChannel(c) \/ ExtendFails(c) \/ KeepVerdict(c) \/ LoseConnection(c)
    PROVE  \E k \in Calls : Moving(c, k)
<1> call \in [Call -> Calls] /\ call[c] \in Calls /\ DOMAIN polls = Ref
  BY DEF Typed, Ref
<1>1. ASSUME NEW v, Answer(c, v) PROVE Moving(c, Idle)
  BY <1>1, Moves DEF Answer, Moving, Flags
<1>2. ASSUME OnlyCalls, Sets(c, Idle) PROVE Moving(c, Idle)
  BY <1>2, Moves DEF OnlyCalls, Moving, Flags
<1>3. ASSUME OnlyCalls, NEW v \in Verdicts, Sets(c, Marked(c, v)) PROVE Moving(c, Marked(c, v))
  <2>1. Marked(c, v).op = call[c].op /\ Marked(c, v).ref = call[c].ref /\ Marked(c, v).at = "keep"
    BY DEF Marked, Calls
  <2> QED BY <1>3, <2>1, Moves DEF OnlyCalls, Moving, Flags
<1>4. ASSUME OnlyCalls, Fails(c) PROVE Moving(c, Idle) \/ Moving(c, Marked(c, "failed"))
  <2>1. "failed" \in Verdicts
    BY DEF Verdicts
  <2> QED BY <1>2, <1>3, <1>4, <2>1, Moves
<1>5. \A v \in Verdicts : Marked(c, v) \in Calls /\ Idle \in Calls
  BY Moves
<1>6. "failed" \in Verdicts /\ "pending" \in Verdicts
  BY DEF Verdicts
<1>7. CASE ReadState(c)
  <2>1. CASE PaidLately
    BY <1>1, <1>7, <2>1, Moves DEF ReadState
  <2>2. CASE ~PaidLately
    <3> DEFINE k == [call[c] EXCEPT !.at = "cache"]
    <3>1. k.op = call[c].op /\ k.ref = call[c].ref /\ k.at = "cache"
      BY DEF Calls
    <3>2. k \in Calls /\ Sets(c, k)
      BY <1>7, <2>2, Moves DEF ReadState
    <3> HIDE DEF k
    <3>3. OnlyCalls /\ call[c].at = "state"
      BY <1>7, <2>2 DEF ReadState
    <3>4. Moving(c, k)
      BY <2>2, <3>1, <3>2, <3>3 DEF Moving, OnlyCalls, Flags
    <3> QED BY <3>2, <3>4
  <2> QED BY <2>1, <2>2
<1>8. CASE CachedVerdict(c) \/ KeepVerdict(c)
  BY <1>1, <1>8, Moves DEF CachedVerdict, KeepVerdict
<1>9. CASE VerifyPending(c)
  BY <1>3, <1>5, <1>6, <1>9, Moves DEF VerifyPending
<1>10. CASE VerifyFails(c) \/ ExtendFails(c)
  BY <1>4, <1>5, <1>6, <1>10, Moves DEF VerifyFails, ExtendFails
<1>11. CASE ReadChannel(c)
  <2>1. CASE Sets(c, Counting(c))
    <3>1. /\ Counting(c).op = call[c].op /\ Counting(c).ref = call[c].ref
          /\ Counting(c).at = "update" /\ Counting(c).until = Until
      BY DEF Counting, Calls
    <3>2. OnlyCalls /\ call[c].at \in {"verify", "cache"}
      BY <1>11 DEF ReadChannel, Verifying
    <3>3. Moving(c, Counting(c))
      BY <2>1, <3>1, <3>2, Moves DEF Moving, OnlyCalls, Flags
    <3> QED BY <3>3, Moves
  <2>2. CASE Fails(c)
    BY <1>4, <1>5, <1>6, <1>11, <2>2 DEF ReadChannel
  <2> QED BY <1>11, <2>1, <2>2, Moves
<1>12. CASE LoseConnection(c)
  <2> DEFINE k == [call[c] EXCEPT !.heard = FALSE]
  <2>1. /\ k.op = call[c].op /\ k.ref = call[c].ref /\ k.at = call[c].at
        /\ k.until = call[c].until /\ k.seen = call[c].seen
    BY DEF Calls
  <2>2. k \in Calls /\ Sets(c, k)
    BY <1>12, Moves
  <2> HIDE DEF k
  <2>3. Moving(c, k)
    BY <1>12, <2>1, <2>2 DEF Moving, LoseConnection, OnlyCalls, Flags
  <2> QED BY <2>2, <2>3
<1> QED BY <1>7, <1>8, <1>9, <1>10, <1>11, <1>12

LEMMA Kinds ==
    ASSUME Typed, Locals, [Next]_vars
    PROVE  \/ Elsewhere
           \/ \E r \in Ref, c \in Call : Deliver(c, r) \/ Poll(c, r)
           \/ \E c \in Call, k \in Calls : Moving(c, k)
           \/ \E c \in Call : Extend(c) \/ CheckStatus(c) \/ MarkExpired(c) \/ TrackAction(c)
                             \/ CountAction(c)
           \/ Tick \/ FiveMinutes \/ SetTier
<1>1. CASE PushPrompt \/ PaymentLink \/ PromptTimesOut
  BY <1>1, NewCharges DEF Elsewhere, Flags
<1>2. ASSUME NEW r \in Ref, NEW state \in {"success", "failed"},
             Settle(r, state) \/ Repeat(r) \/ ForgetVerdict(r)
      PROVE  Elsewhere
  BY <1>2 DEF Settle, Repeat, ForgetVerdict, Elsewhere, Flags
<1>3. CASE UNCHANGED vars
  BY <1>3 DEF vars, Elsewhere, Flags
<1> QED BY <1>1, <1>2, <1>3, MovingSteps DEF Next

\* Counting an action either is noted as restoring, or leaves the dates and the
\* status alone; the mark of a recent payment too, unless a check interfered.
LEMMA CountKeeps ==
    ASSUME Typed, Locals, NEW c \in Call, CountAction(c), ~restored'
    PROVE  /\ ~restored /\ Sets(c, Idle) /\ UNCHANGED <<now, polls, extended, overlapped, crossed, clobbered>>
           /\ channel'.status = channel.status /\ channel'.paidUntil = channel.paidUntil
           /\ channel'.trialEnd = channel.trialEnd
           /\ SeenIsOlder /\ ~clobbered => channel'.recent = channel.recent
<1> channel \in Channels /\ channel' \in Channels /\ call[c].seen \in Channels
  BY DEF Typed, Locals, CountAction, Channels
<1>1. ~restored /\ Sets(c, Idle) /\ UNCHANGED <<now, polls, extended, overlapped, crossed, clobbered>>
  BY Moves DEF CountAction
<1>2. [call[c].seen EXCEPT !.recent = FALSE] = [channel EXCEPT !.recent = FALSE]
  BY DEF CountAction
<1>3. /\ call[c].seen.status = channel.status /\ call[c].seen.paidUntil = channel.paidUntil
      /\ call[c].seen.trialEnd = channel.trialEnd
  <2>1. ASSUME NEW a \in Channels, NEW b \in Channels,
               [a EXCEPT !.recent = FALSE] = [b EXCEPT !.recent = FALSE]
        PROVE  a.status = b.status /\ a.paidUntil = b.paidUntil /\ a.trialEnd = b.trialEnd
    <3>1. /\ [a EXCEPT !.recent = FALSE].status = a.status
          /\ [a EXCEPT !.recent = FALSE].paidUntil = a.paidUntil
          /\ [a EXCEPT !.recent = FALSE].trialEnd = a.trialEnd
          /\ [b EXCEPT !.recent = FALSE].status = b.status
          /\ [b EXCEPT !.recent = FALSE].paidUntil = b.paidUntil
          /\ [b EXCEPT !.recent = FALSE].trialEnd = b.trialEnd
      BY DEF Channels
    <3> QED BY <2>1, <3>1
  <2> QED BY <1>2, <2>1
<1>4. /\ channel'.status = call[c].seen.status /\ channel'.paidUntil = call[c].seen.paidUntil
      /\ channel'.trialEnd = call[c].seen.trialEnd
      /\ channel'.recent = (call[c].seen.recent /\ channel.recent)
  BY DEF CountAction, Channels
<1>5. SeenIsOlder /\ ~clobbered /\ ~call[c].seen.recent => ~channel.recent
  <2> SUFFICES ASSUME SeenIsOlder, ~clobbered, ~call[c].seen.recent, channel.recent PROVE FALSE
    OBVIOUS
  <2>1. call[c].seen.paidUntil < channel.paidUntil
    BY <1>1 DEF SeenIsOlder, Sane, CountAction
  <2> QED BY <1>3, <2>1 DEF Channels
<1> QED BY <1>1, <1>3, <1>4, <1>5 DEF Channels

\* Each kind of step, read pointwise.
LEMMA MovesOne ==
    ASSUME Typed, NEW c \in Call, NEW k, Sets(c, k)
    PROVE  call'[c] = k /\ \A d \in Call \ {c} : call'[d] = call[d]
  BY DEF Sets, Typed

LEMMA Begun ==
    ASSUME Typed, NEW c \in Call, NEW r \in Ref, Deliver(c, r) \/ Poll(c, r)
    PROVE  /\ UNCHANGED <<channel, now, crossed, clobbered, restored, extended>> /\ Ref' = Ref
           /\ call'[c].ref = r /\ call'[c].op \in Counted
           /\ call'[c].at = IF call'[c].op = "poll" THEN "state" ELSE "verify"
           /\ \A d \in Call \ {c} : call'[d] = call[d]
           /\ overlapped \subseteq overlapped'
           /\ r \in overlapped' \/ \A d \in Call : call[d].ref # r
           /\ call'[c].op = "poll" => polls[r] > 0
           /\ \A s \in Ref : polls[s] = 0 => polls'[s] = 0
<1> call \in [Call -> Calls] /\ polls \in Seq(Nat) /\ DOMAIN polls = Ref
  BY DEF Typed, Ref
<1>1. ASSUME NEW op \in {"webhook", "poll"}, NEW at \in {"verify", "state"}, Begin(c, op, at, r)
      PROVE  /\ call'[c].ref = r /\ call'[c].op = op /\ call'[c].at = at
             /\ \A d \in Call \ {c} : call'[d] = call[d]
             /\ overlapped \subseteq overlapped'
             /\ r \in overlapped' \/ \A d \in Call : call[d].ref # r
             /\ UNCHANGED <<channel, now, charge, crossed, clobbered, restored, extended>>
  BY <1>1 DEF Begin, Idle
<1>2. CASE Deliver(c, r)
  BY <1>1, <1>2 DEF Deliver, Counted, Ref
<1>3. CASE Poll(c, r)
  <2>1. Begin(c, "poll", "state", r) /\ polls[r] > 0 /\ polls' = [polls EXCEPT ![r] = polls[r] - 1]
    BY <1>3 DEF Poll
  <2>2. \A s \in Ref : polls[s] = 0 => polls'[s] = 0
    BY <2>1
  <2> QED BY <1>1, <2>1, <2>2 DEF Counted, Ref
<1> QED BY <1>2, <1>3

LEMMA Extending ==
    ASSUME Typed, Locals, NEW c \in Call, Extend(c)
    PROVE  /\ call[c].at = "update" /\ call[c].until > now /\ UNCHANGED <<now, polls, overlapped, restored>>
           /\ channel'.status = "active" /\ channel'.paidUntil = call[c].until /\ channel'.recent
           /\ call'[c].at \in {"idle", "keep"}
           /\ call'[c].ref \in {0, call[c].ref} /\ (call'[c].op = "poll" => call[c].op = "poll")
           /\ \A d \in Call \ {c} : call'[d] = call[d]
           /\ crossed' <=> crossed \/ \E d \in Call \ {c} : call[d].at = "update"
           /\ clobbered' <=> clobbered \/ \E d \in Call : call[d].at = "expire"
<1> call \in [Call -> Calls] /\ channel \in Channels
  BY DEF Typed
<1>1. /\ Marked(c, "success").at = "keep" /\ Marked(c, "success").ref = call[c].ref
      /\ Idle.at = "idle" /\ Idle.ref = 0 /\ Idle.op = "none"
  BY DEF Marked, Calls, Idle
<1>2. Sets(c, Idle) \/ (Sets(c, Marked(c, "success")) /\ call[c].op = "poll")
  BY Moves
<1>3. /\ call'[c].at \in {"idle", "keep"} /\ call'[c].ref \in {0, call[c].ref}
      /\ call'[c].op = "poll" => call[c].op = "poll"
      /\ \A d \in Call \ {c} : call'[d] = call[d]
  BY <1>1, <1>2, MovesOne
<1>4. channel'.status = "active" /\ channel'.paidUntil = call[c].until /\ channel'.recent
  BY DEF Extend, Channels
<1>5. call[c].at = "update" /\ call[c].until > now /\ UNCHANGED <<now, polls, overlapped, restored>>
  BY DEF Extend, Locals
<1>6. /\ crossed' <=> crossed \/ \E d \in Call \ {c} : call[d].at = "update"
      /\ clobbered' <=> clobbered \/ \E d \in Call : call[d].at = "expire"
  BY DEF Extend
<1> QED BY <1>3, <1>4, <1>5, <1>6

\* Requests for one payment are noted as they begin.
LEMMA OneAtATimeKept ==
    ASSUME Typed, Locals, OneAtATime, [Next]_vars PROVE OneAtATime'
<1> USE DEF OneAtATime
<1> 0 \notin Ref /\ 0 \notin Ref' /\ \A c \in Call : call[c].ref \in Ref \cup {0}
  BY DEF Ref, Locals
<1>1. ASSUME overlapped' = overlapped, NEW c \in Call, call'[c].ref \in {call[c].ref, 0},
             \A d \in Call \ {c} : call'[d] = call[d]
      PROVE  OneAtATime'
  <2> SUFFICES ASSUME NEW r \in Ref' \ overlapped', NEW d \in Call, NEW e \in Call,
                      call'[d].ref = r, call'[e].ref = r
               PROVE  d = e
    OBVIOUS
  <2>1. call[d].ref = r /\ call[e].ref = r
    BY <1>1
  <2> QED BY <1>1, <2>1
<1>2. CASE Elsewhere
  BY <1>2 DEF Elsewhere, Flags
<1>3. ASSUME NEW r \in Ref, NEW c \in Call, Deliver(c, r) \/ Poll(c, r) PROVE OneAtATime'
  <2>1. call'[c].ref = r /\ (r \in overlapped' \/ \A d \in Call : call[d].ref # r)
        /\ overlapped \subseteq overlapped' /\ Ref' = Ref /\ \A d \in Call \ {c} : call'[d] = call[d]
    BY <1>3, Begun
  <2> QED BY <2>1
<1>4. ASSUME NEW c \in Call, NEW k \in Calls, Moving(c, k) PROVE OneAtATime'
  <2>1. overlapped' = overlapped /\ k.ref \in {call[c].ref, 0} /\ Sets(c, k)
    BY <1>4 DEF Moving, Flags, Idle
  <2> QED BY <1>1, <2>1, MovesOne
<1>5. ASSUME NEW c \in Call, Extend(c) PROVE OneAtATime'
  BY <1>1, <1>5, Extending
<1>6. ASSUME NEW c \in Call, CheckStatus(c) \/ TrackAction(c) PROVE OneAtATime'
  <2>1. overlapped' = overlapped
    BY <1>6 DEF CheckStatus, TrackAction, OnlyCalls
  <2>2. \E k : Sets(c, k) /\ k.ref = call[c].ref
    <3>1. Checking(c).ref = call[c].ref /\ Tracking(c).ref = call[c].ref
      BY Fields
    <3> QED BY <1>6, <3>1, Moves
  <2> QED BY <1>1, <2>1, <2>2, MovesOne
<1>7. ASSUME NEW c \in Call, MarkExpired(c) \/ CountAction(c) PROVE OneAtATime'
  <2>1. overlapped' = overlapped /\ Sets(c, Idle) /\ Idle.ref = 0
    BY <1>7, Moves DEF MarkExpired, CountAction, Idle
  <2> QED BY <1>1, <2>1, MovesOne
<1>8. CASE Tick \/ FiveMinutes \/ SetTier
  BY <1>8 DEF Tick, FiveMinutes, SetTier, Ref
<1> QED BY <1>2, <1>3, <1>4, <1>5, <1>6, <1>7, <1>8, Kinds

\* Only a payment or the end of one makes a difference to who is active.
LEMMA RecentKept ==
    ASSUME Typed, Typed', Locals, RecentIsActive, SeenIsOlder, [Next]_vars PROVE RecentIsActive'
<1> USE DEF RecentIsActive, Sane
<1> channel \in Channels /\ channel' \in Channels /\ call \in [Call -> Calls]
  BY DEF Typed
<1> SUFFICES ASSUME ~clobbered', ~restored', channel'.recent
             PROVE  /\ channel'.status = "active" /\ channel'.paidUntil > now'
                    /\ \A c \in Call : call'[c].at # "expire"
  OBVIOUS
<1>1. CASE Elsewhere
  BY <1>1 DEF Elsewhere, Flags
<1>2. ASSUME NEW r \in Ref, NEW c \in Call, Deliver(c, r) \/ Poll(c, r) PROVE RecentIsActive'
  BY <1>2, Begun
<1>3. ASSUME NEW c \in Call, NEW k \in Calls, Moving(c, k) PROVE RecentIsActive'
  <2>1. /\ UNCHANGED <<channel, now, clobbered, restored>> /\ Sets(c, k)
        /\ k.at = "expire" => call[c].at = "expire"
    BY <1>3 DEF Moving, Flags, Idle
  <2> QED BY <2>1, MovesOne
<1>4. ASSUME NEW c \in Call, Extend(c) PROVE RecentIsActive'
  BY <1>4, Extending
<1>5. ASSUME NEW c \in Call, CheckStatus(c) PROVE RecentIsActive'
  <2>1. channel' = channel /\ now' = now /\ IsOver /\ clobbered' = clobbered /\ restored' = restored
    BY <1>5 DEF CheckStatus, OnlyCalls
  <2>2. channel.status = "active" /\ channel.paidUntil > now /\ now \in Nat
    BY <2>1 DEF Typed
  <2> QED BY <2>1, <2>2 DEF IsOver, Over, Channels
<1>6. ASSUME NEW c \in Call, MarkExpired(c) PROVE RecentIsActive'
  BY <1>6 DEF MarkExpired, Channels
<1>7. ASSUME NEW c \in Call, TrackAction(c) PROVE RecentIsActive'
  <2>1. /\ Sets(c, Tracking(c)) /\ Tracking(c).at = "count"
        /\ UNCHANGED <<channel, now, clobbered, restored>>
    BY <1>7, Moves, Fields DEF TrackAction
  <2> QED BY <2>1, MovesOne
<1>8. ASSUME NEW c \in Call, CountAction(c) PROVE RecentIsActive'
  <2>1. Sets(c, Idle) /\ Idle.at = "idle"
    BY <1>8, Moves DEF CountAction, Idle
  <2>2. ~restored /\ ~clobbered /\ now' = now
    BY <1>8, CountKeeps
  <2>3. /\ channel'.status = channel.status /\ channel'.paidUntil = channel.paidUntil
        /\ channel'.recent = channel.recent
    BY <1>8, <2>2, CountKeeps
  <2> QED BY <2>1, <2>2, <2>3, MovesOne
<1>9. CASE Tick \/ FiveMinutes \/ SetTier
  BY <1>9 DEF Tick, FiveMinutes, SetTier, Channels
<1> QED BY <1>1, <1>2, <1>3, <1>4, <1>5, <1>6, <1>7, <1>8, <1>9, Kinds

\* An expiry that is being written stays later, until another payment counts.
LEMMA ExpiryGrowsKept ==
    ASSUME Typed, Typed', Locals, ExpiryGrows, SeenIsOlder, [Next]_vars PROVE ExpiryGrows'
<1> USE DEF ExpiryGrows, Sane
<1> channel \in Channels /\ channel' \in Channels /\ call \in [Call -> Calls]
  BY DEF Typed
<1> SUFFICES ASSUME ~clobbered', ~restored', ~channel'.recent PROVE ExpiryGrows'
  OBVIOUS
<1>1. CASE Elsewhere
  BY <1>1 DEF Elsewhere, Flags
<1>2. ASSUME NEW r \in Ref, NEW c \in Call, Deliver(c, r) \/ Poll(c, r) PROVE ExpiryGrows'
  BY <1>2, Begun
<1>3. ASSUME NEW c \in Call, NEW k \in Calls, Moving(c, k) PROVE ExpiryGrows'
  <2>1. UNCHANGED <<channel, clobbered, restored>> /\ Sets(c, k)
    BY <1>3 DEF Moving, Flags
  <2>2. k.at = "update" => k.until > channel.paidUntil
    <3>1. Until > channel.paidUntil
      BY UntilIs DEF Channels
    <3> QED BY <1>3, <2>1, <3>1 DEF Moving, Idle
  <2>3. call'[c] = k /\ \A d \in Call \ {c} : call'[d] = call[d]
    BY <2>1, MovesOne
  <2> QED BY <2>1, <2>2, <2>3
<1>4. ASSUME NEW c \in Call, Extend(c) PROVE ExpiryGrows'
  BY <1>4, Extending
<1>5. ASSUME NEW c \in Call, CheckStatus(c) \/ TrackAction(c) PROVE ExpiryGrows'
  <2>1. \E k : Sets(c, k) /\ k.at # "update"
    <3>1. Checking(c).at = "expire" /\ Tracking(c).at = "count"
      BY Fields
    <3> QED BY <1>5, <3>1, Moves
  <2>2. UNCHANGED <<channel, clobbered, restored>>
    BY <1>5 DEF CheckStatus, TrackAction, OnlyCalls
  <2> QED BY <2>1, <2>2, MovesOne
<1>6. ASSUME NEW c \in Call, MarkExpired(c) PROVE ExpiryGrows'
  <2>1. Sets(c, Idle) /\ Idle.at = "idle" /\ UNCHANGED <<clobbered, restored>>
    BY <1>6, Moves DEF MarkExpired, Idle
  <2>2. channel'.paidUntil = channel.paidUntil /\ channel'.recent = channel.recent
    BY <1>6 DEF MarkExpired, Channels
  <2> QED BY <2>1, <2>2, MovesOne
<1>7. ASSUME NEW c \in Call, CountAction(c) PROVE ExpiryGrows'
  <2>1. Sets(c, Idle) /\ Idle.at = "idle" /\ ~restored /\ ~clobbered
    BY <1>7, CountKeeps DEF Idle
  <2>2. channel'.paidUntil = channel.paidUntil /\ channel'.recent = channel.recent
    BY <1>7, <2>1, CountKeeps
  <2> QED BY <2>1, <2>2, MovesOne
<1>8. CASE FiveMinutes
  BY <1>8 DEF FiveMinutes, Locals, Counted
<1>9. CASE Tick \/ SetTier
  BY <1>9 DEF Tick, SetTier, Channels
<1> QED BY <1>1, <1>2, <1>3, <1>4, <1>5, <1>6, <1>7, <1>8, <1>9, Kinds

\* What trackAction saw stays older than what a payment gives.
LEMMA SeenKept ==
    ASSUME Typed, Typed', Locals, Locals', ExpiryGrows, SeenIsOlder, [Next]_vars PROVE SeenIsOlder'
<1> USE DEF SeenIsOlder, Sane
<1> channel \in Channels /\ channel' \in Channels /\ call \in [Call -> Calls]
  BY DEF Typed
<1> SUFFICES ASSUME ~clobbered', ~restored' PROVE SeenIsOlder'
  OBVIOUS
<1>1. CASE Elsewhere
  BY <1>1 DEF Elsewhere, Flags
<1>2. ASSUME NEW r \in Ref, NEW c \in Call, Deliver(c, r) \/ Poll(c, r) PROVE SeenIsOlder'
  <2>1. call'[c].at \notin {"count", "update"}
    BY <1>2, Begun
  <2> QED BY <1>2, <2>1, Begun
<1>3. ASSUME NEW c \in Call, NEW k \in Calls, Moving(c, k) PROVE SeenIsOlder'
  <2>1. UNCHANGED <<channel, clobbered, restored>> /\ Sets(c, k)
    BY <1>3 DEF Moving, Flags
  <2>2. /\ k.at = "count" => call[c].at = "count" /\ k.seen = call[c].seen
        /\ k.at = "update" => (call[c].at = "update" /\ k.until = call[c].until) \/ k.until = Until
    BY <1>3 DEF Moving, Idle
  <2>3. call'[c] = k /\ \A d \in Call \ {c} : call'[d] = call[d]
    BY <2>1, MovesOne
  <2>4. \A d \in Call : call'[d].at = "count" => call[d].at = "count" /\ call'[d].seen = call[d].seen
    BY <2>2, <2>3
  <2>5. \A d \in Call : call[d].at = "count" /\ ~call[d].seen.recent => call[d].seen.paidUntil < Until
    <3> TAKE d \in Call
    <3> HAVE call[d].at = "count" /\ ~call[d].seen.recent
    <3>1. call[d].seen.paidUntil <= channel.paidUntil /\ call[d].seen \in Channels
      BY <2>1 DEF Locals
    <3> QED BY <3>1, UntilIs DEF Channels
  <2> QED BY <2>1, <2>2, <2>3, <2>4, <2>5
<1>4. ASSUME NEW c \in Call, Extend(c) PROVE SeenIsOlder'
  <2>1. /\ call[c].at = "update" /\ channel'.paidUntil = call[c].until
        /\ call'[c].at \notin {"count", "update"} /\ \A d \in Call \ {c} : call'[d] = call[d]
        /\ ~clobbered /\ ~restored
    BY <1>4, Extending
  <2> SUFFICES ASSUME NEW d \in Call, call'[d].at = "count", ~call'[d].seen.recent
               PROVE  /\ call'[d].seen.paidUntil <= channel'.paidUntil
                      /\ channel'.recent => call'[d].seen.paidUntil < channel'.paidUntil
                      /\ \A e \in Call : call'[e].at = "update" => call'[d].seen.paidUntil < call'[e].until
    OBVIOUS
  <2>2. call'[d] = call[d] /\ call[d].seen.paidUntil < call[c].until
    BY <2>1
  <2>3. call[d].seen \in Channels
    BY <2>2 DEF Locals
  <2> QED BY <2>1, <2>2, <2>3 DEF Channels
<1>5. ASSUME NEW c \in Call, CheckStatus(c) PROVE SeenIsOlder'
  <2>1. Sets(c, Checking(c)) /\ Checking(c).at = "expire" /\ UNCHANGED <<channel, clobbered, restored>>
    BY <1>5, Moves, Fields DEF CheckStatus, OnlyCalls
  <2>2. call'[c].at = "expire" /\ \A d \in Call \ {c} : call'[d] = call[d]
    BY <2>1, MovesOne
  <2> QED BY <2>1, <2>2
<1>6. ASSUME NEW c \in Call, TrackAction(c) PROVE SeenIsOlder'
  <2>1. /\ Sets(c, Tracking(c)) /\ Tracking(c).at = "count" /\ Tracking(c).seen = channel
        /\ UNCHANGED <<channel, clobbered, restored>>
    BY <1>6, Moves, Fields DEF TrackAction
  <2>2. /\ call'[c].at = "count" /\ call'[c].seen = channel
        /\ \A d \in Call \ {c} : call'[d] = call[d]
    BY <2>1, MovesOne
  <2> QED BY <2>1, <2>2 DEF ExpiryGrows, Channels
<1>7. ASSUME NEW c \in Call, MarkExpired(c) PROVE SeenIsOlder'
  <2>1. Sets(c, Idle) /\ Idle.at = "idle" /\ UNCHANGED <<clobbered, restored>>
    BY <1>7, Moves DEF MarkExpired, Idle
  <2>2. channel'.paidUntil = channel.paidUntil /\ channel'.recent = channel.recent
    BY <1>7 DEF MarkExpired, Channels
  <2>3. call'[c].at = "idle" /\ \A d \in Call \ {c} : call'[d] = call[d]
    BY <2>1, MovesOne
  <2> QED BY <2>1, <2>2, <2>3
<1>8. ASSUME NEW c \in Call, CountAction(c) PROVE SeenIsOlder'
  <2>1. Sets(c, Idle) /\ Idle.at = "idle" /\ ~restored /\ ~clobbered
    BY <1>8, CountKeeps DEF Idle
  <2>2. channel'.paidUntil = channel.paidUntil /\ channel'.recent = channel.recent
    BY <1>8, <2>1, CountKeeps
  <2>3. call'[c].at = "idle" /\ \A d \in Call \ {c} : call'[d] = call[d]
    BY <2>1, MovesOne
  <2> QED BY <2>1, <2>2, <2>3
<1>9. CASE Tick \/ FiveMinutes \/ SetTier
  <2>1. call' = call /\ UNCHANGED <<clobbered, restored>>
    BY <1>9 DEF Tick, FiveMinutes, SetTier
  <2>2. channel'.paidUntil = channel.paidUntil /\ (channel'.recent => channel.recent)
    BY <1>9 DEF Tick, FiveMinutes, SetTier, Channels
  <2> QED BY <2>1, <2>2
<1> QED BY <1>1, <1>2, <1>3, <1>4, <1>5, <1>6, <1>7, <1>8, <1>9, Kinds

\* A payment that was counted is recent, or nobody polls for it.
LEMMA PollingEndsKept ==
    ASSUME Typed, Typed', Locals, SeenIsOlder, PollingEnds, [Next]_vars PROVE PollingEnds'
<1> USE DEF PollingEnds, Sane
<1> channel \in Channels /\ channel' \in Channels /\ call \in [Call -> Calls]
  BY DEF Typed
<1> SUFFICES ASSUME ~clobbered', ~restored', ~channel'.recent PROVE PollingEnds'
  OBVIOUS
<1>1. ASSUME NEW c \in Call, Extend(c) PROVE PollingEnds'
  BY <1>1, Extending
<1> SUFFICES ASSUME \A c \in Call : ~Extend(c) PROVE PollingEnds'
  BY <1>1
<1>2. \A r \in Ref' : extended'[r] # <<>> => r \in Ref /\ extended[r] # <<>>
  BY ExtendedKept
<1>3. ASSUME ~clobbered, ~restored, channel.recent => channel'.recent,
             \A r \in Ref : polls[r] = 0 => polls'[r] = 0,
             NEW c \in Call, \A d \in Call \ {c} : call'[d] = call[d],
             call'[c].op = "poll" => \/ call[c].op = "poll" /\ call'[c].ref = call[c].ref
                                    \/ polls[call'[c].ref] > 0
      PROVE  PollingEnds'
  <2> SUFFICES ASSUME NEW r \in Ref', extended'[r] # <<>>
               PROVE  polls'[r] = 0 /\ \A d \in Call : ~(call'[d].op = "poll" /\ call'[d].ref = r)
    OBVIOUS
  <2>1. r \in Ref /\ polls[r] = 0 /\ \A d \in Call : ~(call[d].op = "poll" /\ call[d].ref = r)
    BY <1>2, <1>3
  <2> QED BY <1>3, <2>1
<1>4. CASE Elsewhere
  BY <1>2, <1>4 DEF Elsewhere, Flags
<1>5. ASSUME NEW r \in Ref, NEW c \in Call, Deliver(c, r) \/ Poll(c, r) PROVE PollingEnds'
  BY <1>3, <1>5, Begun
<1>6. ASSUME NEW c \in Call, NEW k \in Calls, Moving(c, k) PROVE PollingEnds'
  <2>1. UNCHANGED <<channel, clobbered, restored>> /\ Sets(c, k)
    BY <1>6 DEF Moving, Flags
  <2>2. k.op = "poll" => call[c].op = "poll" /\ k.ref = call[c].ref
    BY <1>6 DEF Moving, Idle
  <2>3. \A r \in Ref : polls[r] = 0 => polls'[r] = 0
    BY <1>6 DEF Moving
  <2>4. call'[c] = k /\ \A d \in Call \ {c} : call'[d] = call[d]
    BY <2>1, MovesOne
  <2> QED BY <1>3, <2>1, <2>2, <2>3, <2>4
<1>7. ASSUME NEW c \in Call, CheckStatus(c) \/ TrackAction(c) PROVE PollingEnds'
  <2>1. \E k : Sets(c, k) /\ k.op # "poll"
    <3>1. Checking(c).op = "check" /\ Tracking(c).op = "track"
      BY Fields
    <3> QED BY <1>7, <3>1, Moves
  <2>2. UNCHANGED <<channel, polls, clobbered, restored>>
    BY <1>7 DEF CheckStatus, TrackAction, OnlyCalls
  <2>3. call'[c].op # "poll" /\ \A d \in Call \ {c} : call'[d] = call[d]
    BY <2>1, MovesOne
  <2> QED BY <1>3, <2>2, <2>3
<1>8. ASSUME NEW c \in Call, MarkExpired(c) PROVE PollingEnds'
  <2>1. Sets(c, Idle) /\ Idle.op = "none" /\ UNCHANGED <<polls, clobbered, restored>>
    BY <1>8, Moves DEF MarkExpired, Idle
  <2>2. channel'.recent = channel.recent
    BY <1>8 DEF MarkExpired, Channels
  <2>3. call'[c].op # "poll" /\ \A d \in Call \ {c} : call'[d] = call[d]
    BY <2>1, MovesOne
  <2> QED BY <1>3, <2>1, <2>2, <2>3
<1>9. ASSUME NEW c \in Call, CountAction(c) PROVE PollingEnds'
  <2>1. Sets(c, Idle) /\ Idle.op = "none" /\ ~restored /\ ~clobbered /\ polls' = polls
    BY <1>9, CountKeeps DEF Idle
  <2>2. channel'.recent = channel.recent
    BY <1>9, <2>1, CountKeeps
  <2>3. call'[c].op # "poll" /\ \A d \in Call \ {c} : call'[d] = call[d]
    BY <2>1, MovesOne
  <2> QED BY <1>3, <2>1, <2>2, <2>3
<1>10. CASE FiveMinutes
  <2>1. \A r \in Ref : polls[r] = 0
    BY <1>10 DEF FiveMinutes
  <2>2. UNCHANGED <<polls, call>> /\ \A c \in Call : call[c].op # "poll"
    BY <1>10 DEF FiveMinutes
  <2> QED BY <1>2, <2>1, <2>2
<1>11. CASE Tick \/ SetTier
  <2>1. UNCHANGED <<polls, call, clobbered, restored>>
    BY <1>11 DEF Tick, SetTier
  <2>2. channel'.recent = channel.recent
    BY <1>11 DEF Tick, SetTier, Channels
  <2> QED BY <1>2, <2>1, <2>2
<1> QED BY <1>4, <1>5, <1>6, <1>7, <1>8, <1>9, <1>10, <1>11, Kinds

\* A poll for a payment that was counted is answered at once.
LEMMA PollStopsKept ==
    ASSUME Typed, Typed', Locals, OneAtATime, RecentIsActive, PollingEnds, PollStops, [Next]_vars
    PROVE  PollStops'
<1> USE DEF PollStops, Sane
<1> call \in [Call -> Calls] /\ 0 \notin Ref
  BY DEF Typed, Ref
<1> SUFFICES ASSUME ~clobbered', ~restored' PROVE PollStops'
  OBVIOUS
<1>1. ASSUME NEW c \in Call, Extend(c) PROVE PollStops'
  <2>1. /\ call'[c].at \in {"idle", "keep"} /\ call'[c].ref \in {0, call[c].ref}
        /\ call'[c].op = "poll" => call'[c].at = "keep" \/ call'[c].ref = 0
        /\ \A d \in Call \ {c} : call'[d] = call[d]
        /\ ~clobbered /\ ~restored /\ overlapped' = overlapped
    <3>1. Sets(c, Idle) \/ Sets(c, Marked(c, "success"))
      BY <1>1, Moves
    <3>2. Idle.ref = 0 /\ Marked(c, "success").at = "keep"
      BY DEF Idle, Marked, Calls
    <3>3. call'[c].at = "keep" \/ call'[c].ref = 0
      BY <3>1, <3>2, MovesOne
    <3> QED BY <1>1, <3>3, Extending
  <2> SUFFICES ASSUME NEW r \in Ref \ overlapped, extended'[r] # <<>>, NEW d \in Call,
                      call'[d].op = "poll", call'[d].ref = r
               PROVE  call'[d].at \in {"state", "keep"}
    BY <1>1, <2>1, ExtendCounts
  <2>2. CASE d = c
    BY <2>1, <2>2
  <2>3. CASE d # c
    <3>1. call[d].ref = r /\ call[d].op = "poll" /\ call'[d].at = call[d].at
      BY <2>1, <2>3
    <3>2. r # call[c].ref
      BY <2>3, <3>1 DEF OneAtATime
    <3>3. extended[r] # <<>>
      BY <1>1, <3>2, ExtendCounts
    <3> QED BY <2>1, <3>1, <3>3
  <2> QED BY <2>2, <2>3
<1> SUFFICES ASSUME \A c \in Call : ~Extend(c) PROVE PollStops'
  BY <1>1
<1>2. \A r \in Ref' : extended'[r] # <<>> => r \in Ref /\ extended[r] # <<>>
  BY ExtendedKept
<1>3. ASSUME ~clobbered, ~restored, overlapped \subseteq overlapped',
             NEW c \in Call, \A d \in Call \ {c} : call'[d] = call[d],
             call'[c].op = "poll" =>
                \/ call'[c].at \in {"state", "keep"}
                \/ call[c].op = "poll" /\ call'[c].ref = call[c].ref
                   /\ (call[c].at \in {"state", "keep"} => call'[c].at \in {"state", "keep"})
      PROVE  PollStops'
  <2> SUFFICES ASSUME NEW r \in Ref' \ overlapped', extended'[r] # <<>>, NEW d \in Call,
                      call'[d].op = "poll", call'[d].ref = r
               PROVE  call'[d].at \in {"state", "keep"}
    OBVIOUS
  <2>1. r \in Ref \ overlapped /\ extended[r] # <<>>
    BY <1>2, <1>3
  <2> QED BY <1>3, <2>1
<1>4. CASE Elsewhere
  BY <1>2, <1>4 DEF Elsewhere, Flags
<1>5. ASSUME NEW r \in Ref, NEW c \in Call, Deliver(c, r) \/ Poll(c, r) PROVE PollStops'
  BY <1>3, <1>5, Begun
<1>6. ASSUME NEW c \in Call, NEW k \in Calls, Moving(c, k) PROVE PollStops'
  <2>1. UNCHANGED <<channel, clobbered, restored, overlapped>> /\ Sets(c, k)
    BY <1>6 DEF Moving, Flags
  <2>2. call'[c] = k /\ \A d \in Call \ {c} : call'[d] = call[d]
    BY <2>1, MovesOne
  <2>3. CASE ~(k.at = "cache" /\ call[c].at = "state" /\ ~PaidLately)
    <3>1. k.op = "poll" => \/ k.at = "keep"
                          \/ /\ call[c].op = "poll" /\ k.ref = call[c].ref
                             /\ (call[c].at \in {"state", "keep"} => k.at \in {"state", "keep"})
      BY <1>6, <2>3 DEF Moving, Idle
    <3> QED BY <1>3, <2>1, <2>2, <3>1
  <2>4. CASE k.at = "cache" /\ call[c].at = "state" /\ ~PaidLately
    <3>1. k.op = call[c].op /\ k.ref = call[c].ref
      BY <1>6, <2>4 DEF Moving, Idle
    <3>2. call[c].op = "poll" /\ call[c].ref \in Ref
      BY <2>4 DEF Locals, Counted
    <3>3. extended[call[c].ref] = <<>>
      <4> SUFFICES ASSUME extended[call[c].ref] # <<>> PROVE FALSE
        OBVIOUS
      <4>1. channel.recent
        BY <2>1, <3>2 DEF PollingEnds
      <4>2. PaidLately
        BY <2>1, <4>1 DEF RecentIsActive, PaidLately
      <4> QED BY <2>4, <4>2
    <3> SUFFICES ASSUME NEW r \in Ref' \ overlapped', extended'[r] # <<>>, NEW d \in Call,
                        call'[d].op = "poll", call'[d].ref = r
                 PROVE  call'[d].at \in {"state", "keep"}
      OBVIOUS
    <3>4. r \in Ref \ overlapped /\ extended[r] # <<>>
      BY <1>2, <2>1
    <3>5. d # c
      BY <2>2, <3>1, <3>3, <3>4
    <3> QED BY <2>1, <2>2, <3>4, <3>5
  <2> QED BY <2>3, <2>4
<1>7. ASSUME NEW c \in Call, CheckStatus(c) \/ TrackAction(c) PROVE PollStops'
  <2>1. \E k : Sets(c, k) /\ k.op # "poll"
    <3>1. Checking(c).op = "check" /\ Tracking(c).op = "track"
      BY Fields
    <3> QED BY <1>7, <3>1, Moves
  <2>2. UNCHANGED <<clobbered, restored, overlapped>>
    BY <1>7 DEF CheckStatus, TrackAction, OnlyCalls
  <2>3. call'[c].op # "poll" /\ \A d \in Call \ {c} : call'[d] = call[d]
    BY <2>1, MovesOne
  <2> QED BY <1>3, <2>2, <2>3
<1>8. ASSUME NEW c \in Call, MarkExpired(c) \/ CountAction(c) PROVE PollStops'
  <2>1. Sets(c, Idle) /\ Idle.op = "none" /\ overlapped' = overlapped /\ ~clobbered /\ ~restored
    <3>1. CASE MarkExpired(c)
      BY <3>1, Moves DEF MarkExpired, Idle
    <3>2. CASE CountAction(c)
      BY <3>2, CountKeeps DEF Idle
    <3> QED BY <1>8, <3>1, <3>2
  <2>2. call'[c].op # "poll" /\ \A d \in Call \ {c} : call'[d] = call[d]
    BY <2>1, MovesOne
  <2> QED BY <1>3, <2>1, <2>2
<1>9. CASE Tick \/ FiveMinutes \/ SetTier
  <2>1. UNCHANGED <<call, clobbered, restored, overlapped>>
    BY <1>9 DEF Tick, FiveMinutes, SetTier
  <2> QED BY <1>2, <2>1
<1> QED BY <1>4, <1>5, <1>6, <1>7, <1>8, <1>9, Kinds

\* So a poll does not count a payment again.
LEMMA CountedOnceKept ==
    ASSUME Typed, Locals, PollStops, CountedOnceByPolls, overlapped \subseteq overlapped',
           clobbered => clobbered', restored => restored', [Next]_vars
    PROVE  CountedOnceByPolls'
<1> SUFFICES ASSUME NEW r \in Ref' \ overlapped', ~clobbered', ~restored',
                    NEW i \in 2..Len(extended'[r])
             PROVE  extended'[r][i] = "webhook"
  BY DEF CountedOnceByPolls
<1>1. CASE \A c \in Call : ~Extend(c)
  <2>1. r \in Ref
    <3>1. Len(<<>>) = 0
      OBVIOUS
    <3> QED BY <1>1, <3>1, ExtendedKept
  <2>2. extended'[r] = extended[r]
    BY <1>1, <2>1, ExtendedKept
  <2> QED BY <2>1, <2>2 DEF CountedOnceByPolls
<1>2. ASSUME NEW c \in Call, Extend(c) PROVE extended'[r][i] = "webhook"
  <2>1. r \in Ref \ overlapped
    BY <1>2, ExtendCounts
  <2>2. CASE call[c].ref # r
    <3>1. extended'[r] = extended[r]
      BY <1>2, <2>1, <2>2, ExtendCounts
    <3> QED BY <2>1, <3>1 DEF CountedOnceByPolls
  <2>3. CASE call[c].ref = r
    <3>1. PICK s \in Seq(Counted) : s = extended[r]
      BY <1>2, <2>3, ExtendCounts
    <3>2. PICK op \in Counted : op = call[c].op
      BY <1>2, ExtendCounts
    <3>3. extended'[r] = Append(s, op)
      BY <1>2, <2>3, <3>1, <3>2, ExtendCounts
    <3>4. CASE i <= Len(s)
      <4>1. Append(s, op)[i] = s[i] /\ i \in 2..Len(s)
        BY <3>3, <3>4, AppendProperties
      <4> QED BY <2>1, <3>1, <3>3, <4>1 DEF CountedOnceByPolls
    <3>5. CASE ~(i <= Len(s))
      <4>1. i = Len(s) + 1 /\ Append(s, op)[i] = op /\ s # <<>>
        BY <3>3, <3>5, AppendProperties
      <4>2. call[c].op # "poll"
        BY <1>2, <2>1, <2>3, <3>1, <4>1 DEF PollStops, Sane, Extend
      <4> QED BY <3>2, <3>3, <4>1, <4>2 DEF Counted
    <3> QED BY <3>4, <3>5
  <2> QED BY <2>2, <2>3
<1> QED BY <1>1, <1>2

\* What was noted stays noted.
LEMMA NotedStays ==
    ASSUME Typed, Locals, [Next]_vars
    PROVE  /\ overlapped \subseteq overlapped' /\ (clobbered => clobbered')
           /\ (restored => restored') /\ (crossed => crossed')
<1> DEFINE Stays == /\ overlapped \subseteq overlapped' /\ (clobbered => clobbered')
                    /\ (restored => restored') /\ (crossed => crossed')
<1>1. ASSUME Elsewhere PROVE Stays
  BY <1>1 DEF Elsewhere, Flags
<1>2. ASSUME NEW r \in Ref, NEW c \in Call, Deliver(c, r) \/ Poll(c, r) PROVE Stays
  BY <1>2, Begun
<1>3. ASSUME NEW c \in Call, NEW k \in Calls, Moving(c, k) PROVE Stays
  BY <1>3 DEF Moving, Flags
<1>4. ASSUME NEW c \in Call, Extend(c) PROVE Stays
  BY <1>4 DEF Extend
<1>5. ASSUME NEW c \in Call, CheckStatus(c) \/ MarkExpired(c) \/ TrackAction(c) PROVE Stays
  BY <1>5 DEF CheckStatus, MarkExpired, TrackAction, OnlyCalls
<1>6. ASSUME NEW c \in Call, CountAction(c) PROVE Stays
  <2>1. UNCHANGED <<overlapped, clobbered, crossed>>
    BY <1>6 DEF CountAction
  <2>2. restored => restored'
    BY <1>6 DEF CountAction
  <2> QED BY <2>1, <2>2
<1>7. ASSUME Tick \/ FiveMinutes \/ SetTier PROVE Stays
  BY <1>7 DEF Tick, FiveMinutes, SetTier
<1>8. Stays
  <2> HIDE DEF Stays
  <2> QED BY <1>1, <1>2, <1>3, <1>4, <1>5, <1>6, <1>7, Kinds
<1> QED BY <1>8

\* Only what is over is marked expired.
LEMMA ExpiredKept ==
    ASSUME Typed, Typed', Locals, ExpiredIsOver, [Next]_vars PROVE ExpiredIsOver'
<1> USE DEF ExpiredIsOver, Sane
<1> channel \in Channels /\ channel' \in Channels /\ call \in [Call -> Calls] /\ now \in Nat
  BY DEF Typed
<1> SUFFICES ASSUME ~clobbered', ~restored' PROVE ExpiredIsOver'
  OBVIOUS
<1> ~clobbered /\ ~restored
  BY NotedStays
<1>1. CASE Elsewhere
  BY <1>1 DEF Elsewhere, Flags
<1>2. ASSUME NEW r \in Ref, NEW c \in Call, Deliver(c, r) \/ Poll(c, r) PROVE ExpiredIsOver'
  BY <1>2, Begun
<1>3. ASSUME NEW c \in Call, NEW k \in Calls, Moving(c, k) PROVE ExpiredIsOver'
  <2>1. /\ UNCHANGED <<channel, now>> /\ Sets(c, k)
        /\ k.at = "expire" => call[c].at = "expire"
    BY <1>3 DEF Moving, Flags, Idle
  <2> QED BY <2>1, MovesOne
<1>4. ASSUME NEW c \in Call, Extend(c) PROVE ExpiredIsOver'
  BY <1>4, Extending
<1>5. ASSUME NEW c \in Call, CheckStatus(c) PROVE ExpiredIsOver'
  <2>1. channel' = channel /\ now' = now /\ IsOver
    BY <1>5 DEF CheckStatus, OnlyCalls
  <2>2. channel.paidUntil <= now
    BY <2>1 DEF IsOver, Over, Channels
  <2> QED BY <2>1, <2>2
<1>6. ASSUME NEW c \in Call, MarkExpired(c) PROVE ExpiredIsOver'
  <2>1. Sets(c, Idle) /\ Idle.at = "idle" /\ now' = now /\ call[c].at = "expire"
    BY <1>6, Moves DEF MarkExpired, Idle
  <2>2. channel'.paidUntil = channel.paidUntil /\ channel'.status = "expired"
    BY <1>6 DEF MarkExpired, Channels
  <2>3. call'[c].at = "idle" /\ \A d \in Call \ {c} : call'[d] = call[d]
    BY <2>1, MovesOne
  <2> QED BY <2>1, <2>2, <2>3
<1>7. ASSUME NEW c \in Call, TrackAction(c) PROVE ExpiredIsOver'
  <2>1. Sets(c, Tracking(c)) /\ Tracking(c).at = "count" /\ UNCHANGED <<channel, now>>
    BY <1>7, Moves, Fields DEF TrackAction
  <2> QED BY <2>1, MovesOne
<1>8. ASSUME NEW c \in Call, CountAction(c) PROVE ExpiredIsOver'
  <2>1. /\ Sets(c, Idle) /\ Idle.at = "idle" /\ now' = now
        /\ channel'.status = channel.status /\ channel'.paidUntil = channel.paidUntil
    BY <1>8, CountKeeps DEF Idle
  <2>2. call'[c].at = "idle" /\ \A d \in Call \ {c} : call'[d] = call[d]
    BY <2>1, MovesOne
  <2> QED BY <2>1, <2>2
<1>9. CASE Tick \/ FiveMinutes \/ SetTier
  <2>1. call' = call /\ now' \in {now, now + 1}
    BY <1>9 DEF Tick, FiveMinutes, SetTier
  <2>2. channel'.paidUntil = channel.paidUntil /\ channel'.status = channel.status
    BY <1>9 DEF Tick, FiveMinutes, SetTier, Channels
  <2> QED BY <2>1, <2>2 DEF Channels
<1> QED BY <1>1, <1>2, <1>3, <1>4, <1>5, <1>6, <1>7, <1>8, <1>9, Kinds
-----------------------------------------------------------------------------
\* The number of extensions, as a sum.
Counts == [r \in Ref |-> Len(extended[r])]

LEMMA ExtensionsAre ==
    ASSUME Typed PROVE /\ Extensions = SumOver(Counts, Ref) /\ Extensions \in Nat
                       /\ IsFiniteSet(Ref) /\ \A r \in Ref : Counts[r] \in Nat
<1> DEFINE pick(s) == CHOOSE r \in s : TRUE
           Sum(h) == [s \in SUBSET Ref |-> IF s = {} THEN 0
                                           ELSE Len(extended[pick(s)]) + h[s \ {pick(s)}]]
           total == CHOOSE h : h = Sum(h)
<1>1. Extensions = total[Ref]
  BY DEF Extensions, MapThenSumSet, MapThenFoldSet
<1>2. \A s \in SUBSET Ref : s = {} \/ pick(s) \in s
  OBVIOUS
<1>3. \A s : Some(s) = pick(s)
  BY DEF Some
<1>4. IsFiniteSet(Ref) /\ \A r \in Ref : Counts[r] = Len(extended[r]) /\ Counts[r] \in Nat
  <2>1. \A r \in Ref : extended[r] \in Seq(Counted)
    BY DEF Typed, Ref
  <2>2. \A r \in Ref : Len(extended[r]) \in Nat
    BY <2>1
  <2> QED BY <2>2, FS_Interval DEF Typed, Ref, Counts
<1> HIDE DEF pick
<1>5. PICK h : Adds(h, Counts, Ref)
  BY <1>4, SumExists
<1>6. \A g : Adds(g, Counts, Ref) <=> g = Sum(g)
  <2>1. ASSUME NEW g, NEW s \in SUBSET Ref
        PROVE  (IF s = {} THEN 0 ELSE Counts[Some(s)] + g[s \ {Some(s)}])
                 = (IF s = {} THEN 0 ELSE Len(extended[pick(s)]) + g[s \ {pick(s)}])
    BY <1>2, <1>3, <1>4
  <2> QED BY <2>1 DEF Adds
<1>7. total = Sum(total)
  BY <1>5, <1>6
<1> HIDE DEF total
<1>8. Adds(total, Counts, Ref)
  BY <1>6, <1>7
<1>9. Extensions = SumOver(Counts, Ref)
  BY <1>1, <1>4, <1>8, SumIs
<1> QED BY <1>4, <1>9, SumOfPart

LEMMA ExtensionsAreThen ==
    Typed' => Extensions' = SumOver(Counts', Ref')
<1>1. Typed => Extensions = SumOver(Counts, Ref)
  BY ExtensionsAre
<1>2. (Typed => Extensions = SumOver(Counts, Ref))'
  BY <1>1, PTL
<1> QED BY <1>2

\* Only a payment adds to it, and it adds one.
LEMMA ExtensionsKept ==
    ASSUME Typed, Typed', Locals, [Next]_vars, \A c \in Call : ~Extend(c)
    PROVE  Extensions' = Extensions
<1>1. /\ Extensions = SumOver(Counts, Ref) /\ IsFiniteSet(Ref)
      /\ \A r \in Ref : Counts[r] = Len(extended[r]) /\ Counts[r] \in Int
      /\ \A r \in Ref' : Counts'[r] = Len(extended'[r])
  BY ExtensionsAre DEF Counts
<1>2. Extensions' = SumOver(Counts', Ref')
  BY ExtensionsAreThen
<1>3. /\ \A r \in Ref : r \in Ref' /\ Counts'[r] = Counts[r]
      /\ \A r \in Ref' \ Ref : Counts'[r] = 0
  <2>1. Len(<<>>) = 0
    OBVIOUS
  <2> QED BY <1>1, <2>1, ExtendedKept
<1>4. SumOver(Counts', Ref) = SumOver(Counts, Ref) /\ SumOver(Counts', Ref) \in Int
  BY <1>1, <1>3, SumSame, SumType
<1>5. ASSUME NEW S, IsFiniteSet(S), NEW n, n \notin S,
             \A r \in S : Counts'[r] \in Int, Counts'[n] = 0
      PROVE  /\ IsFiniteSet(S \cup {n}) /\ SumOver(Counts', S \cup {n}) = SumOver(Counts', S)
             /\ \A r \in S \cup {n} : Counts'[r] \in Int
  <2>1. /\ IsFiniteSet(S \cup {n}) /\ SumOver(Counts', S) \in Int
        /\ SumOver(Counts', S \cup {n}) = SumOver(Counts', S) + Counts'[n]
    <3>1. \A r \in S \cup {n} : Counts'[r] \in Int
      BY <1>5
    <3> QED BY <1>5, <3>1, SumWith
  <2> QED BY <1>5, <2>1
<1>6. CASE Ref' = Ref
  BY <1>1, <1>2, <1>4, <1>6
<1>7. CASE Ref' # Ref
  <2>1. \/ Ref' = Ref \cup {Len(charge) + 1}
        \/ Ref' = (Ref \cup {Len(charge) + 1}) \cup {Len(charge) + 2}
    BY <1>7, RefKept, NewCharges
  <2>2. /\ Len(charge) + 1 \notin Ref /\ Len(charge) + 2 \notin Ref \cup {Len(charge) + 1}
    BY DEF Typed, Ref
  <2>3. /\ IsFiniteSet(Ref \cup {Len(charge) + 1})
        /\ SumOver(Counts', Ref \cup {Len(charge) + 1}) = SumOver(Counts', Ref)
        /\ \A r \in Ref \cup {Len(charge) + 1} : Counts'[r] \in Int
    BY <1>1, <1>3, <1>5, <2>1, <2>2
  <2>4. CASE Ref' = Ref \cup {Len(charge) + 1}
    BY <1>1, <1>2, <1>4, <2>3, <2>4
  <2>5. CASE Ref' = (Ref \cup {Len(charge) + 1}) \cup {Len(charge) + 2}
    <3>1. Counts'[Len(charge) + 2] = 0
      BY <1>3, <2>2, <2>5
    <3>2. SumOver(Counts', Ref') = SumOver(Counts', Ref \cup {Len(charge) + 1})
      BY <1>5, <2>2, <2>3, <2>5, <3>1
    <3> QED BY <1>1, <1>2, <1>4, <2>3, <3>2
  <2> QED BY <2>1, <2>4, <2>5
<1> QED BY <1>6, <1>7

LEMMA ExtensionsGrow ==
    ASSUME Typed, Typed', Locals, NEW c \in Call, Extend(c)
    PROVE  Extensions' = Extensions + 1
<1>1. /\ Extensions = SumOver(Counts, Ref) /\ IsFiniteSet(Ref) /\ Extensions \in Nat
      /\ \A r \in Ref : Counts[r] = Len(extended[r]) /\ Counts[r] \in Int
      /\ \A r \in Ref' : Counts'[r] = Len(extended'[r])
  BY ExtensionsAre DEF Counts
<1>2. Extensions' = SumOver(Counts', Ref')
  BY ExtensionsAreThen
<1>3. PICK ref \in Ref : ref = call[c].ref
  BY ExtendCounts
<1>4. /\ Ref' = Ref /\ Counts'[ref] = Counts[ref] + 1 /\ Counts'[ref] \in Int
      /\ \A r \in Ref \ {ref} : Counts'[r] = Counts[r]
  <2>1. /\ Ref' = Ref /\ Len(extended'[ref]) = Len(extended[ref]) + 1
        /\ \A r \in Ref \ {ref} : extended'[r] = extended[r]
    BY <1>3, ExtendCounts
  <2> QED BY <1>1, <2>1
<1>5. SumOver(Counts', Ref) = SumOver(Counts, Ref) + Counts'[ref] - Counts[ref]
  BY <1>1, <1>4, SumChanged
<1>6. PICK k \in Int : k = Counts[ref]
  BY <1>1
<1>7. Extensions' = Extensions + (k + 1) - k
  BY <1>1, <1>2, <1>4, <1>5, <1>6
<1> QED BY <1>1, <1>6, <1>7

\* Each payment adds a cycle.
LEMMA CyclesKept ==
    ASSUME Typed, Typed', Locals, CyclesAdd, [Next]_vars PROVE CyclesAdd'
<1> USE DEF CyclesAdd
<1> channel \in Channels /\ channel' \in Channels /\ call \in [Call -> Calls] /\ Extensions \in Nat
  BY ExtensionsAre DEF Typed
<1> SUFFICES ASSUME ~crossed', ~restored' PROVE CyclesAdd'
  OBVIOUS
<1> ~crossed /\ ~restored
  BY NotedStays
<1>1. ASSUME NEW c \in Call, Extend(c) PROVE CyclesAdd'
  <2>1. Extensions' = Extensions + 1 /\ (Extensions + 1) * Cycle = Extensions * Cycle + Cycle
    BY <1>1, ExtensionsGrow
  <2>2. /\ channel'.paidUntil = call[c].until /\ call[c].until >= channel.paidUntil + Cycle
        /\ call[c].until \in Nat
    BY <1>1, Extending DEF Calls
  <2>3. channel.paidUntil >= Extensions * Cycle /\ channel.paidUntil \in Nat /\ Extensions * Cycle \in Nat
    BY DEF Channels
  <2>4. channel'.paidUntil >= (Extensions + 1) * Cycle
    BY <2>1, <2>2, <2>3
  <2>5. \A d \in Call : call'[d].at # "update"
    BY <1>1, Extending
  <2> QED BY <2>1, <2>4, <2>5
<1> SUFFICES ASSUME \A c \in Call : ~Extend(c) PROVE CyclesAdd'
  BY <1>1
<1>2. Extensions' = Extensions
  BY ExtensionsKept
<1>3. ASSUME channel'.paidUntil = channel.paidUntil, NEW c \in Call, NEW k, Sets(c, k),
             k.at = "update" => call[c].at = "update" /\ k.until = call[c].until
      PROVE  CyclesAdd'
  BY <1>2, <1>3, MovesOne
<1>4. CASE Elsewhere
  BY <1>2, <1>4 DEF Elsewhere, Flags
<1>5. ASSUME NEW r \in Ref, NEW c \in Call, Deliver(c, r) \/ Poll(c, r) PROVE CyclesAdd'
  <2>1. call'[c].at # "update" /\ channel' = channel /\ \A d \in Call \ {c} : call'[d] = call[d]
    BY <1>5, Begun
  <2> QED BY <1>2, <2>1
<1>6. ASSUME NEW c \in Call, NEW k \in Calls, Moving(c, k) PROVE CyclesAdd'
  <2>1. channel' = channel /\ Sets(c, k)
    BY <1>6 DEF Moving
  <2>2. k.at = "update" => k.until >= channel.paidUntil + Cycle
    BY <1>6, UntilIs DEF Moving, Idle
  <2>3. call'[c] = k /\ \A d \in Call \ {c} : call'[d] = call[d]
    BY <2>1, MovesOne
  <2> QED BY <1>2, <2>1, <2>2, <2>3
<1>7. ASSUME NEW c \in Call, CheckStatus(c) \/ TrackAction(c) PROVE CyclesAdd'
  <2>1. \E k : Sets(c, k) /\ k.at # "update"
    <3>1. Checking(c).at = "expire" /\ Tracking(c).at = "count"
      BY Fields
    <3> QED BY <1>7, <3>1, Moves
  <2>2. channel' = channel
    BY <1>7 DEF CheckStatus, TrackAction, OnlyCalls
  <2> QED BY <1>3, <2>1, <2>2
<1>8. ASSUME NEW c \in Call, MarkExpired(c) PROVE CyclesAdd'
  <2>1. Sets(c, Idle) /\ Idle.at = "idle" /\ channel'.paidUntil = channel.paidUntil
    BY <1>8, Moves DEF MarkExpired, Idle, Channels
  <2> QED BY <1>3, <2>1
<1>9. ASSUME NEW c \in Call, CountAction(c) PROVE CyclesAdd'
  <2>1. Sets(c, Idle) /\ Idle.at = "idle" /\ channel'.paidUntil = channel.paidUntil
    BY <1>9, CountKeeps DEF Idle
  <2> QED BY <1>3, <2>1
<1>10. CASE Tick \/ FiveMinutes \/ SetTier
  <2>1. call' = call /\ channel'.paidUntil = channel.paidUntil
    BY <1>10 DEF Tick, FiveMinutes, SetTier, Channels
  <2> QED BY <1>2, <2>1
<1> QED BY <1>4, <1>5, <1>6, <1>7, <1>8, <1>9, <1>10, Kinds
-----------------------------------------------------------------------------
LEMMA Initially == ASSUME Init PROVE IInv
<1> USE DEF Init
<1>1. Typed
  <2>1. channel \in Channels
    BY DEF Channels
  <2>2. Idle \in Calls
    BY DEF Idle, Calls, Verdicts
  <2>3. Len(<<>>) = 0 /\ <<>> \in Seq({"pending", "failed", "success"}) /\ <<>> \in Seq(Nat)
        /\ <<>> \in Seq(Verdicts) /\ <<>> \in Seq(Seq(Counted))
    OBVIOUS
  <2>4. /\ charge = <<>> /\ due = <<>> /\ verdict = <<>> /\ polls = <<>> /\ extended = <<>>
        /\ now \in Nat /\ repeats \in Nat /\ call \in [Call -> Calls]
        /\ crossed \in BOOLEAN /\ clobbered \in BOOLEAN /\ restored \in BOOLEAN
    BY <2>2
  <2> HIDE DEF Init
  <2> QED BY <2>1, <2>3, <2>4 DEF Typed
<1>2. Ref = {} /\ \A c \in Call : call[c] = Idle
  <2>1. Len(<<>>) = 0 /\ 1..0 = {}
    OBVIOUS
  <2> QED BY <2>1 DEF Ref
<1>3. /\ ~channel.recent /\ channel.status # "expired" /\ lately = {}
      /\ channel.status = "trial" => channel.paidUntil = 0
  OBVIOUS
<1>4. CyclesAdd
  <2>1. SumOver(Counts, {}) = 0
    BY SumNone
  <2>2. Extensions = 0
    BY <1>1, <1>2, <2>1, ExtensionsAre
  <2>3. 0 * Cycle = 0 /\ channel.paidUntil \in Nat
    BY <1>1 DEF Typed, Channels
  <2> QED BY <1>2, <2>2, <2>3 DEF CyclesAdd, Idle
<1>5. Locals /\ Evidence
  BY <1>2, <1>3 DEF Locals, Evidence, Recorded, LatelyNoted, Idle, Counted
<1>6. OneAtATime /\ RecentIsActive /\ ExpiryGrows /\ SeenIsOlder
  BY <1>2, <1>3 DEF OneAtATime, RecentIsActive, ExpiryGrows, SeenIsOlder, Idle
<1>7. PollingEnds /\ PollStops /\ CountedOnceByPolls /\ ExpiredIsOver
  BY <1>2, <1>3 DEF PollingEnds, PollStops, CountedOnceByPolls, ExpiredIsOver, Idle
<1> QED BY <1>1, <1>4, <1>5, <1>6, <1>7 DEF IInv

LEMMA Step == ASSUME IInv, [Next]_vars PROVE IInv'
<1> Typed /\ Locals
  BY DEF IInv
<1>1. Typed' /\ Locals'
  BY Typing, LocalsKept
<1>2. Evidence' /\ OneAtATime'
  BY <1>1, EvidenceKept, OneAtATimeKept DEF IInv
<1>3. RecentIsActive' /\ ExpiryGrows' /\ SeenIsOlder'
  BY <1>1, RecentKept, ExpiryGrowsKept, SeenKept DEF IInv
<1>4. PollingEnds' /\ PollStops'
  BY <1>1, PollingEndsKept, PollStopsKept DEF IInv
<1>5. CountedOnceByPolls'
  BY NotedStays, CountedOnceKept DEF IInv
<1>6. ExpiredIsOver' /\ CyclesAdd'
  BY <1>1, ExpiredKept, CyclesKept DEF IInv
<1> QED BY <1>1, <1>2, <1>3, <1>4, <1>5, <1>6 DEF IInv

\* The invariant the three properties rest on (subscription.service.ts): what is
\* recent is active, what is being written is later than what there is, and
\* what is remembered as a success was counted.
THEOREM Invariant == Spec => []IInv
  BY Initially, Step, PTL DEF Spec

\* Polling counts no payment a second time, for any number of polls, lost
\* answers, failures and repeated deliveries (checkPaymentStatus,
\* processSuccessfulPayment).
THEOREM PollsCountOnce == Spec => []CountedOnceByPolls
<1>1. IInv => CountedOnceByPolls
  BY DEF IInv
<1> QED BY <1>1, Invariant, PTL

\* The modal is told of a payment only when that one was counted, or another
\* within the last five minutes (verifyPayment, checkPaymentStatus).
THEOREM ToldIsPaid == Spec => ToldPaid
<1>1. IInv /\ [Next]_vars => [\A r \in told' \ told : extended[r] # <<>> \/ lately # {}]_vars
  BY TellsTruth DEF IInv
<1> QED BY <1>1, Invariant, PTL DEF Spec, ToldPaid

\* A subscription with time left is marked expired, and a payment adds less
\* than a cycle, only in the windows that PaidTimeKept names
\* (processSuccessfulPayment, handleExpiredSubscription, trackAction).
THEOREM PaidTimeIsKept == Spec => []PaidTimeKept
<1>1. IInv => PaidTimeKept
  <2> SUFFICES ASSUME IInv PROVE PaidTimeKept
    OBVIOUS
  <2>1. now \in Nat /\ channel.paidUntil \in Nat
    BY DEF IInv, Typed, Channels
  <2>2. channel.status = "expired" /\ channel.paidUntil > now => clobbered \/ restored
    BY <2>1 DEF IInv, ExpiredIsOver, Sane
  <2>3. crossed \/ restored \/ Extensions = 0 \/ channel.paidUntil >= Extensions * Cycle
    BY DEF IInv, CyclesAdd
  <2> QED BY <2>2, <2>3 DEF PaidTimeKept
<1> QED BY <1>1, Invariant, PTL
=============================================================================
