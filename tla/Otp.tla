--------------------------------- MODULE Otp ---------------------------------
(***************************************************************************)
(* OtpService: one code per phone in Redis, with the wrong attempts made   *)
(* against it and the requests of the current rate window.  Login and      *)
(* registration share the code.  Every Redis command is an await, so the   *)
(* calls of Call interleave between them; two commands are one step where  *)
(* no other call can tell their order.                                     *)
(***************************************************************************)
EXTENDS Integers, Sequences, FiniteSets

CONSTANTS
    Phone,
    Call,         \* requests to the server in progress at a time
    MaxCodes,     \* bound on the codes generated; a code is its number
    RateLimit,    \* RATE_LIMIT_COUNT, requests per window
    MaxAttempts,  \* MAX_ATTEMPTS
    MaxOutside    \* bound on what happens from outside: keys that expire, decisions

ASSUME OtpAssumption ==
    /\ MaxCodes \in Nat /\ MaxOutside \in Nat
    /\ RateLimit \in Nat \ {0} /\ MaxAttempts \in Nat \ {0}

NoCode == 0
WrongCode == -1

VARIABLES
    code,    \* the code stored for each phone, until it is deleted or expires
    tries,   \* the attempts key of each phone
    asked,   \* the rate limit key of each phone
    sent,    \* the codes that reached the owner of each phone
    issued,  \* history: how many codes were generated
    outside, \* history: how much happened from outside
    call     \* the locals of each request

otpVars == <<code, tries, asked, sent, issued, outside, call>>

NoRequest == [op |-> "none", at |-> "idle"]
Gone == [name |-> "gone"]   \* no data: none was stored, or it was deleted

\* op is the mutation.  session, data: of a registration.  guess: the code that
\* the user entered; stored and wrong: what verifyOTP read.  The rest is read
\* while a company is provisioned.
NewCall(op, at, p, session, data, guess) ==
    [op |-> op, at |-> at, phone |-> p, session |-> session, data |-> data, guess |-> guess,
     stored |-> NoCode, wrong |-> 0, user |-> 0, code |-> <<>>,
     seen |-> {}, dropped |-> {}, roles |-> {}, unlinked |-> {}, raced |-> FALSE,
     company |-> 0]

OtpInit ==
    /\ code = [p \in Phone |-> NoCode] /\ tries = [p \in Phone |-> 0]
    /\ asked = [p \in Phone |-> 0] /\ sent = [p \in Phone |-> {}]
    /\ issued = 0 /\ outside = 0 /\ call = [c \in Call |-> NoRequest]

Goes(c, at) == call' = [call EXCEPT ![c].at = at]

\* An answer is all that is left of the call.
Answered(c, at) ==
    NewCall(call[c].op, at, call[c].phone, call[c].session, Gone, NoCode)

Answer(c, at) == call' = [call EXCEPT ![c] = Answered(c, at)]

Refuse(c) == Answer(c, "refused")
-----------------------------------------------------------------------------
(* requestOTP *)

CheckRate(c) ==
    /\ call[c].at = "rate"
    /\ IF asked[call[c].phone] >= RateLimit THEN Refuse(c) ELSE Goes(c, "store")
    /\ UNCHANGED <<code, tries, asked, sent, issued, outside>>

StoreCode(c) ==
    /\ call[c].at = "store"
    /\ issued' = issued + 1
    /\ code' = [code EXCEPT ![call[c].phone] = issued + 1]
    /\ call' = [call EXCEPT ![c].at = "sms", ![c].stored = issued + 1]
    /\ UNCHANGED <<tries, asked, sent, outside>>

\* The attempts are reset and the request is counted.  A message that is lost,
\* which sendSMS does not report, is a code that nobody enters.
SendCode(c) ==
    LET p == call[c].phone
    IN  /\ call[c].at = "sms"
        /\ tries' = [tries EXCEPT ![p] = 0]
        /\ asked' = [asked EXCEPT ![p] = @ + 1]
        /\ sent' = [sent EXCEPT ![p] = @ \cup {call[c].stored}]
        /\ Answer(c, "asked")
        /\ UNCHANGED <<code, issued, outside>>
-----------------------------------------------------------------------------
(* verifyOTP *)

ReadCode(c) ==
    /\ call[c].at = "read"
    /\ IF code[call[c].phone] = NoCode
       THEN Refuse(c)
       ELSE call' = [call EXCEPT ![c].at = "tries", ![c].stored = code[call[c].phone]]
    /\ UNCHANGED <<code, tries, asked, sent, issued, outside>>

\* Both keys are deleted, whichever code the first one holds by now.
DeleteCode(p) ==
    /\ code' = [code EXCEPT ![p] = NoCode]
    /\ tries' = [tries EXCEPT ![p] = 0]

ReadTries(c) ==
    LET p == call[c].phone
    IN  /\ call[c].at = "tries"
        /\ IF tries[p] >= MaxAttempts
           THEN DeleteCode(p) /\ Refuse(c)
           ELSE /\ call' = [call EXCEPT ![c].wrong = tries[p],
                              ![c].at = IF call[c].guess = call[c].stored THEN "spend" ELSE "wrong"]
                /\ UNCHANGED <<code, tries>>
        /\ UNCHANGED <<asked, sent, issued, outside>>

\* The attempts are incremented; the last one allowed, by what was read, takes
\* the code with it.
RejectCode(c) ==
    LET p == call[c].phone
    IN  /\ call[c].at = "wrong"
        /\ IF call[c].wrong + 1 >= MaxAttempts
           THEN DeleteCode(p)
           ELSE tries' = [tries EXCEPT ![p] = @ + 1] /\ UNCHANGED code
        /\ Refuse(c)
        /\ UNCHANGED <<asked, sent, issued, outside>>

SpendCode(c) ==
    /\ call[c].at = "spend"
    /\ DeleteCode(call[c].phone)
    /\ Answer(c, "verified")
    /\ UNCHANGED <<asked, sent, issued, outside>>
-----------------------------------------------------------------------------
(* Redis forgets keys: codes after five minutes, the rate window after fifteen *)

Outside == outside < MaxOutside /\ outside' = outside + 1

ExpireCode(p) ==
    /\ code[p] # NoCode /\ Outside
    /\ DeleteCode(p)
    /\ UNCHANGED <<asked, sent, issued, call>>

EndRateWindow(p) ==
    /\ asked[p] > 0 /\ Outside
    /\ asked' = [asked EXCEPT ![p] = 0]
    /\ UNCHANGED <<code, tries, sent, issued, call>>

OtpStep(c) ==
    \/ CheckRate(c) \/ StoreCode(c) \/ SendCode(c)
    \/ ReadCode(c) \/ ReadTries(c) \/ RejectCode(c) \/ SpendCode(c)

Forget(p) == ExpireCode(p) \/ EndRateWindow(p)
=============================================================================
