------------------------ MODULE NativeExchangeProofs ------------------------
(***************************************************************************)
(* Safety of the operations a running agent performs.  First of one native *)
(* exchange (NativeExchange), for every budget, timeout, number of         *)
(* attempts and number of addresses; then of what the goroutines that call *)
(* them share, the credential cache and the keys (RuntimeClient), for any  *)
(* number of goroutines, calls and credentials.                            *)
(***************************************************************************)
EXTENDS NativeExchange, RuntimeClient, FiniteSetTheorems, TLAPS

FlightSteps == {"lookup", "dial", "write", "read", "next"}

\* Counters and attempts in use; a challenge is only followed up on a first flight.
CounterInv ==
  /\ pc \in FlightSteps \cup {"prove"} => flight.ctr \in 1..drawn
  /\ \A p \in sent : p.ctr \in 1..drawn
  /\ pc = "prove" => flight.leg = 1
  /\ pc = "begin" => drawn <= 2 * attempt - 2
  /\ pc \in FlightSteps \cup {"prove"} /\ flight.leg = 1 => drawn <= 2 * attempt - 1
  /\ drawn <= 2 * attempt
  /\ pc = "sleep" => attempt < MaxAttempts
  /\ pc \in {"dial", "write", "read", "next"} => flight.left >= 1
  /\ result.kind # "none" \/ result.silent => pc = "done"

\* Datagrams with the counter of the flight belong to it.
CurrentInv ==
  /\ \A p \in sent :
       p.ctr = flight.ctr /\ pc \in FlightSteps \cup {"prove"} =>
         p.attempt = attempt /\ p.leg = flight.leg
  /\ \A p \in sent : p.ctr = flight.ctr /\ pc \in FlightSteps => p.cookie = flight.cookie
  /\ pc = "read" => \E p \in sent : p.ctr = flight.ctr

\* The cookie in use was issued for this attempt's first packet.
Issued(c) == \E q \in sent : q.ctr = c /\ q.leg = 1 /\ q.attempt = attempt

ProofInv ==
  /\ pc = "prove" => Issued(flight.cookie)
  /\ pc \in FlightSteps /\ flight.leg = 2 => Issued(flight.cookie)

\* A verdict that is being judged, or was reported, answers this attempt.
GoodAnswer ==
  \E p \in sent :
    /\ p.ctr = result.of /\ p.attempt = attempt
    /\ profile = "assignment" => p.leg = 2 /\ Issued(p.cookie)

AnswerInv ==
  profile # "otp" =>
    /\ pc = "judge" /\ outcome \in Verdicts => GoodAnswer
    /\ result.kind \in {"success", "terminal"} => GoodAnswer

\* A final verdict is on its way or reported.
VerdictInv ==
  /\ "ok" \in heard => \/ pc = "judge" /\ outcome = "ok"
                       \/ pc = "done" /\ result.kind = "success"
  /\ "terminal" \in heard => \/ pc = "judge" /\ outcome = "terminal"
                             \/ pc = "done" /\ result.kind = "terminal"

\* At most one one-time code is requested.
OTPInv ==
  profile = "otp" =>
    /\ pc # "read" /\ flight.left <= 1 /\ pc # "sleep" /\ pc # "prove"
    /\ sent = {} \/ (pc \in {"next", "judge", "done"} /\ \E p : sent = {p})

\* While silence is claimed nothing but a challenge of an assignment was read.
Challenge == IF profile = "assignment" THEN {"cok"} ELSE {}
Speech == Verdicts \cup {"unauthenticated", "malformed"}

UnheardInv ==
  /\ profile \in Looped /\ silence /\ pc \notin {"judge", "done"} => heard \subseteq Challenge
  /\ profile \in Looped /\ silence /\ pc = "judge" /\ outcome \notin Speech
       => heard \subseteq Challenge
  /\ profile = "knock" => pc # "sleep"
  /\ profile = "knock" /\ pc = "begin" => heard = {}
  /\ profile = "knock" /\ pc \in FlightSteps /\ flight.leg = 1 => heard = {}
  /\ profile = "knock" /\ pc = "judge" /\ outcome = "noreply" /\ flight.leg = 1 => heard = {}
  /\ result.silent => heard \subseteq Challenge

\* Silence rests on a flight without a local fault.
EvidenceInv ==
  /\ pc \in FlightSteps /\ ~flight.local => flight.ctr \notin faulted
  /\ pc = "next" /\ ~flight.local => \E p \in sent : p.ctr = flight.ctr
  /\ pc = "judge" /\ outcome = "noreply" => \E p \in sent : p.ctr \notin faulted
  /\ lastSilent =>
       \E p \in sent : p.ctr \notin faulted /\ (pc \in FlightSteps => p.ctr < flight.ctr)
  /\ result.silent => \E p \in sent : p.ctr \notin faulted

\* Whatever clears silence leaves a trace.
Trace == heard # {} \/ faulted # {} \/ latched

TraceInv ==
  /\ ~silence => Trace
  /\ pc \in FlightSteps /\ flight.local => faulted # {} \/ ContextDone
  /\ pc = "judge" => /\ outcome # "none"
                     /\ outcome \in {"transport", "resolve"} => faulted # {}
                     /\ outcome = "fence" => latched
                     /\ outcome = "context" => ContextDone
                     /\ outcome \in Speech /\ profile # "otp" => heard # {}
  /\ SilenceIsNamed

Inv == /\ TypeOK /\ CounterInv /\ CurrentInv /\ ProofInv /\ AnswerInv /\ VerdictInv /\ OTPInv
       /\ UnheardInv /\ EvidenceInv /\ TraceInv

\* The constants as the provers use them.
LEMMA Constants ==
  /\ Budget \in Nat /\ Timeout \in Nat /\ MaxAttempts \in Nat /\ MaxAttempts > 0
  /\ MaxAddresses \in Nat /\ MaxAddresses > 0 /\ MaxBackoff \in Nat
BY ExchangeAssumption DEF ExchangeAssumption

\* A fault of the current flight leaves the evidence of earlier flights alone.
LEMMA EvidenceSurvives ==
  ASSUME Inv, lastSilent, pc \in FlightSteps,
         faulted' \subseteq faulted \cup {flight.ctr}, sent \subseteq sent'
  PROVE  \E p \in sent' : p.ctr \notin faulted' /\ p.ctr < flight.ctr
<1>1. PICK p \in sent : p.ctr \notin faulted /\ p.ctr < flight.ctr
  BY DEF Inv, EvidenceInv
<1>2. p.ctr \in Nat /\ flight.ctr \in Nat
  BY Constants DEF Inv, CounterInv
<1> QED
  BY <1>1, <1>2

\* The invariant holds when the operation starts.
LEMMA InitInv == Init => Inv
<1> SUFFICES ASSUME Init PROVE Inv
  OBVIOUS
<1>1. TypeOK
  <2>1. [leg |-> 1, ctr |-> 0, cookie |-> 0, left |-> 0, local |-> FALSE] \in Flight
    BY Constants DEF Flight
  <2>2. /\ profile \in Profiles /\ budget \in 0..Budget /\ timer \in Nat /\ pc \in Steps
        /\ attempt \in 1..MaxAttempts /\ drawn \in 0..(2 * MaxAttempts) /\ outcome \in Outcomes
    BY Constants DEF Init, Steps, Outcomes
  <2>3. /\ result \in [kind : Kinds, silent : BOOLEAN, of : Nat]
        /\ sent \subseteq Packet /\ faulted \subseteq 0..drawn
        /\ heard \subseteq Verdicts \cup {"cok", "foreign", "misfit"}
    BY DEF Init, Kinds
  <2> QED
    BY <2>1, <2>2, <2>3 DEF Init, TypeOK
<1>2. CounterInv /\ CurrentInv /\ ProofInv
  BY DEF Init, CounterInv, CurrentInv, ProofInv, FlightSteps
<1>3. AnswerInv /\ VerdictInv /\ OTPInv
  BY DEF Init, AnswerInv, VerdictInv, OTPInv
<1>4. UnheardInv /\ EvidenceInv /\ TraceInv
  BY DEF Init, UnheardInv, EvidenceInv, TraceInv, SilenceIsNamed
<1> QED
  BY <1>1, <1>2, <1>3, <1>4 DEF Inv

\* An attempt starts with a counter no datagram has used.
LEMMA BeginAttemptStep == ASSUME Inv, BeginAttempt PROVE Inv'
<1>1. TypeOK'
  <2>1. /\ profile' \in Profiles /\ budget' \in 0..Budget /\ timer' \in Nat
        /\ pc' \in Steps /\ attempt' \in 1..MaxAttempts
        /\ drawn' \in 0..(2 * MaxAttempts) /\ outcome' \in Outcomes
    BY Constants DEF Inv, TypeOK, CounterInv, BeginAttempt, BuildPacket, Return,
       clockVars, loopVars, Steps, Outcomes
  <2>2. /\ fired' \in BOOLEAN /\ cancelled' \in BOOLEAN /\ late' \in BOOLEAN
        /\ latched' \in BOOLEAN /\ silence' \in BOOLEAN /\ lastSilent' \in BOOLEAN
    BY DEF Inv, TypeOK, BeginAttempt, BuildPacket, CheckFence, clockVars, loopVars
  <2>3. flight' \in Flight
    <3>1. flight \in Flight /\ drawn + 1 \in Nat /\ flight.cookie \in Nat
      BY Constants DEF Inv, TypeOK, Flight
    <3>2. [leg |-> 1, ctr |-> drawn + 1, cookie |-> 0, left |-> 0, local |-> FALSE] \in Flight
      BY <3>1, Constants DEF Flight
    <3> QED
      BY <3>1, <3>2 DEF BeginAttempt, BuildPacket
  <2>4. result' \in [kind : Kinds, silent : BOOLEAN, of : Nat]
    BY DEF Inv, TypeOK, BeginAttempt, BuildPacket, loopVars
  <2>5. /\ sent' \subseteq Packet
        /\ heard' \subseteq Verdicts \cup {"cok", "foreign", "misfit"}
    BY Constants DEF Inv, TypeOK, BeginAttempt, BuildPacket
  <2>6. faulted' \subseteq 0..drawn'
    <3>1. drawn \in Nat /\ (drawn' = drawn \/ drawn' = drawn + 1)
      BY Constants DEF Inv, TypeOK, BeginAttempt, BuildPacket
    <3>2. faulted' = faulted \/ faulted' = faulted \cup {0}
      BY DEF BeginAttempt, BuildPacket, Fault
    <3>3. faulted \subseteq 0..drawn
      BY DEF Inv, TypeOK
    <3>4. 0 \in 0..drawn' /\ \A f \in 0..drawn : f \in 0..drawn'
      BY <3>1
    <3> QED
      BY <3>2, <3>3, <3>4
  <2> QED
    BY <2>1, <2>2, <2>3, <2>4, <2>5, <2>6 DEF TypeOK
<1>2. CounterInv'
  BY Constants DEF Inv, TypeOK, CounterInv, FlightSteps, BeginAttempt, BuildPacket,
     Return, loopVars
<1>3. CurrentInv'
  BY Constants DEF Inv, TypeOK, CounterInv, CurrentInv, FlightSteps, BeginAttempt,
     BuildPacket, Return
<1>4. ProofInv'
  BY Constants DEF Inv, ProofInv, FlightSteps, BeginAttempt, BuildPacket, Return
<1>5. AnswerInv'
  BY Constants DEF Inv, AnswerInv, GoodAnswer, Issued, BeginAttempt, BuildPacket,
     Return, loopVars, Verdicts
<1>6. VerdictInv'
  BY DEF Inv, VerdictInv, BeginAttempt, BuildPacket
<1>7. OTPInv'
  BY DEF Inv, OTPInv, BeginAttempt, BuildPacket, Return
<1>8. UnheardInv'
  BY DEF Inv, UnheardInv, Challenge, BeginAttempt, BuildPacket, Return, loopVars
<1>9. EvidenceInv'
  BY Constants DEF Inv, TypeOK, CounterInv, EvidenceInv, FlightSteps, BeginAttempt,
     BuildPacket, Return, Fault, loopVars
<1>10. TraceInv'
  BY DEF Inv, TypeOK, TraceInv, Trace, SilenceIsNamed, Speech, FlightSteps,
     BeginAttempt, BuildPacket, ContextDone, FenceClosed, CheckFence, Return, Fault,
     clockVars, loopVars, Verdicts
<1> QED
  BY <1>1, <1>2, <1>3, <1>4, <1>5, <1>6, <1>7, <1>8, <1>9, <1>10 DEF Inv

\* Losing the state directory ends the operation without a verdict.
LEMMA ContinuityLostStep == ASSUME Inv, ContinuityLost PROVE Inv'
<1>1. TypeOK'
  BY Constants DEF Inv, TypeOK, ContinuityLost, Fault, clockVars, Steps, Kinds
<1>2. CounterInv'
  BY Constants DEF Inv, CounterInv, FlightSteps, ContinuityLost
<1>3. CurrentInv'
  BY Constants DEF Inv, CurrentInv, FlightSteps, ContinuityLost
<1>4. ProofInv'
  BY Constants DEF Inv, ProofInv, FlightSteps, ContinuityLost
<1>5. AnswerInv'
  BY Constants DEF Inv, AnswerInv, ContinuityLost
<1>6. VerdictInv'
  BY DEF Inv, VerdictInv, ContinuityLost
<1>7. OTPInv'
  BY DEF Inv, OTPInv, ContinuityLost
<1>8. UnheardInv'
  BY DEF Inv, UnheardInv, ContinuityLost
<1>9. EvidenceInv'
  BY Constants DEF Inv, CounterInv, EvidenceInv, FlightSteps, ContinuityLost, Fault
<1>10. TraceInv'
  BY DEF Inv, TraceInv, Trace, SilenceIsNamed, ContinuityLost, Fault
<1> QED
  BY <1>1, <1>2, <1>3, <1>4, <1>5, <1>6, <1>7, <1>8, <1>9, <1>10 DEF Inv

\* The proof flight takes over the cookie of the flight before.
LEMMA BeginProofStep == ASSUME Inv, BeginProof PROVE Inv'
<1>1. TypeOK'
  <2>1. /\ profile' \in Profiles /\ budget' \in 0..Budget /\ timer' \in Nat
        /\ pc' \in Steps /\ attempt' \in 1..MaxAttempts
        /\ drawn' \in 0..(2 * MaxAttempts) /\ outcome' \in Outcomes
    BY Constants DEF Inv, TypeOK, CounterInv, BeginProof, BuildPacket, Return,
       clockVars, loopVars, Steps, Outcomes
  <2>2. /\ fired' \in BOOLEAN /\ cancelled' \in BOOLEAN /\ late' \in BOOLEAN
        /\ latched' \in BOOLEAN /\ silence' \in BOOLEAN /\ lastSilent' \in BOOLEAN
    BY DEF Inv, TypeOK, BeginProof, BuildPacket, CheckFence, clockVars, loopVars
  <2>3. flight' \in Flight
    <3>1. flight \in Flight /\ drawn + 1 \in Nat /\ flight.cookie \in Nat
      BY Constants DEF Inv, TypeOK, Flight
    <3>2. [leg |-> 2, ctr |-> drawn + 1, cookie |-> flight.cookie, left |-> 0, local |-> FALSE] \in Flight
      BY <3>1, Constants DEF Flight
    <3> QED
      BY <3>1, <3>2 DEF BeginProof, BuildPacket
  <2>4. result' \in [kind : Kinds, silent : BOOLEAN, of : Nat]
    BY DEF Inv, TypeOK, BeginProof, BuildPacket, loopVars
  <2>5. /\ sent' \subseteq Packet
        /\ heard' \subseteq Verdicts \cup {"cok", "foreign", "misfit"}
    BY Constants DEF Inv, TypeOK, BeginProof, BuildPacket
  <2>6. faulted' \subseteq 0..drawn'
    <3>1. drawn \in Nat /\ (drawn' = drawn \/ drawn' = drawn + 1)
      BY Constants DEF Inv, TypeOK, BeginProof, BuildPacket
    <3>2. faulted' = faulted \/ faulted' = faulted \cup {0}
      BY DEF BeginProof, BuildPacket, Fault
    <3>3. faulted \subseteq 0..drawn
      BY DEF Inv, TypeOK
    <3>4. 0 \in 0..drawn' /\ \A f \in 0..drawn : f \in 0..drawn'
      BY <3>1
    <3> QED
      BY <3>2, <3>3, <3>4
  <2> QED
    BY <2>1, <2>2, <2>3, <2>4, <2>5, <2>6 DEF TypeOK
<1>2. CounterInv'
  BY Constants DEF Inv, TypeOK, CounterInv, BeginProof, BuildPacket, Return, loopVars
<1>3. CurrentInv'
  BY Constants DEF Inv, TypeOK, CounterInv, CurrentInv, FlightSteps, BeginProof,
     BuildPacket, Return
<1>4. ProofInv'
  BY Constants DEF Inv, ProofInv, Issued, BeginProof, BuildPacket, loopVars
<1>5. AnswerInv'
  BY Constants DEF Inv, AnswerInv, GoodAnswer, Issued, BeginProof, BuildPacket, Return,
     loopVars, Verdicts
<1>6. VerdictInv'
  BY DEF Inv, VerdictInv, BeginProof, BuildPacket
<1>7. OTPInv'
  BY DEF Inv, OTPInv, BeginProof, BuildPacket
<1>8. UnheardInv'
  BY DEF Inv, UnheardInv, Challenge, FlightSteps, BeginProof, BuildPacket, Return,
     loopVars
<1>9. EvidenceInv'
  BY Constants DEF Inv, TypeOK, CounterInv, EvidenceInv, FlightSteps, BeginProof,
     BuildPacket, Return, Fault, loopVars
<1>10. TraceInv'
  BY DEF Inv, TypeOK, TraceInv, Trace, SilenceIsNamed, Speech, FlightSteps, BeginProof,
     BuildPacket, ContextDone, FenceClosed, CheckFence, Return, Fault, clockVars,
     loopVars, Verdicts
<1> QED
  BY <1>1, <1>2, <1>3, <1>4, <1>5, <1>6, <1>7, <1>8, <1>9, <1>10 DEF Inv

\* Resolution changes addresses only; a failure leaves a trace.
LEMMA ResolveStep == ASSUME Inv, Resolve PROVE Inv'
<1>1. TypeOK'
  BY Constants DEF Inv, TypeOK, CounterInv, FlightSteps, Resolve, Addresses, CheckFence,
     Return, Fault, clockVars, loopVars, Steps, Flight, Outcomes
<1>2. CounterInv'
  BY Constants DEF Inv, TypeOK, CounterInv, FlightSteps, Resolve, Addresses, Return,
     loopVars, Flight
<1>3. CurrentInv'
  BY Constants DEF Inv, TypeOK, CurrentInv, FlightSteps, Resolve, Return, loopVars,
     Flight
<1>4. ProofInv'
  BY Constants DEF Inv, TypeOK, ProofInv, Issued, FlightSteps, Resolve, Return,
     loopVars, Flight
<1>5. AnswerInv'
  BY Constants DEF Inv, AnswerInv, GoodAnswer, Issued, Resolve, Return, loopVars,
     Verdicts
<1>6. VerdictInv'
  BY DEF Inv, VerdictInv, Resolve
<1>7. OTPInv'
  BY DEF Inv, TypeOK, OTPInv, Resolve, Addresses, Return, Flight
<1>8. UnheardInv'
  BY DEF Inv, TypeOK, UnheardInv, Challenge, FlightSteps, Resolve, Return, loopVars,
     Flight
<1>9. EvidenceInv'
  <2>1. /\ pc \in FlightSteps /\ faulted' \subseteq faulted \cup {flight.ctr}
        /\ sent \subseteq sent' /\ lastSilent' = lastSilent /\ flight'.ctr = flight.ctr
    BY DEF Inv, TypeOK, Flight, FlightSteps, Resolve, Fault, loopVars
  <2>2. lastSilent => \E p \in sent' : p.ctr \notin faulted' /\ p.ctr < flight.ctr
    BY <2>1, EvidenceSurvives
  <2>3. /\ result' = result /\ ~result.silent
        /\ pc' = "judge" => outcome' # "noreply"
        /\ pc' = "next" => flight'.local
    BY DEF Inv, CounterInv, Resolve, Return, loopVars
  <2>4. pc' \in FlightSteps /\ ~flight'.local => flight'.ctr \notin faulted'
    BY DEF Inv, TypeOK, Flight, EvidenceInv, FlightSteps, Resolve, Return
  <2> QED
    BY <2>1, <2>2, <2>3, <2>4 DEF EvidenceInv
<1>10. TraceInv'
  BY DEF Inv, TypeOK, TraceInv, Trace, SilenceIsNamed, Speech, FlightSteps, Resolve,
     ContextDone, FenceClosed, CheckFence, Return, Fault, clockVars, loopVars, Flight,
     Verdicts
<1> QED
  BY <1>1, <1>2, <1>3, <1>4, <1>5, <1>6, <1>7, <1>8, <1>9, <1>10 DEF Inv

\* The next address resends the same packet; the last one decides silence.
LEMMA NextAddressStep == ASSUME Inv, NextAddress PROVE Inv'
<1>1. TypeOK'
  <2>1. /\ profile' \in Profiles /\ budget' \in 0..Budget /\ timer' \in Nat
        /\ pc' \in Steps /\ attempt' \in 1..MaxAttempts
        /\ drawn' \in 0..(2 * MaxAttempts) /\ outcome' \in Outcomes
    BY Constants DEF Inv, TypeOK, NextAddress, Return, clockVars, loopVars, Steps,
       Outcomes
  <2>2. /\ fired' \in BOOLEAN /\ cancelled' \in BOOLEAN /\ late' \in BOOLEAN
        /\ latched' \in BOOLEAN /\ silence' \in BOOLEAN /\ lastSilent' \in BOOLEAN
    BY DEF Inv, TypeOK, NextAddress, CheckFence, clockVars, loopVars
  <2>3. flight' \in Flight
    <3>1. flight \in Flight /\ flight.left \in 1..MaxAddresses
      BY Constants DEF Inv, TypeOK, CounterInv, Flight, NextAddress
    <3>2. [flight EXCEPT !.left = @ - 1] \in Flight
      BY <3>1, Constants DEF Flight
    <3> QED
      BY <3>1, <3>2 DEF NextAddress
  <2>4. result' \in [kind : Kinds, silent : BOOLEAN, of : Nat]
    BY DEF Inv, TypeOK, NextAddress, loopVars
  <2>5. /\ sent' \subseteq Packet
        /\ heard' \subseteq Verdicts \cup {"cok", "foreign", "misfit"}
    BY Constants DEF Inv, TypeOK, NextAddress, histVars
  <2>6. faulted' \subseteq 0..drawn'
    BY Constants DEF Inv, TypeOK, NextAddress, histVars
  <2> QED
    BY <2>1, <2>2, <2>3, <2>4, <2>5, <2>6 DEF TypeOK
<1>2. CounterInv'
  BY Constants DEF Inv, TypeOK, CounterInv, FlightSteps, NextAddress, Return, loopVars,
     Flight
<1>3. CurrentInv'
  BY Constants DEF Inv, TypeOK, CurrentInv, FlightSteps, NextAddress, Return, loopVars,
     Flight
<1>4. ProofInv'
  BY Constants DEF Inv, TypeOK, ProofInv, Issued, FlightSteps, NextAddress, Return,
     loopVars, Flight
<1>5. AnswerInv'
  BY Constants DEF Inv, AnswerInv, GoodAnswer, Issued, NextAddress, Return, loopVars,
     Verdicts
<1>6. VerdictInv'
  BY DEF Inv, VerdictInv, NextAddress, histVars
<1>7. OTPInv'
  <2>1. UNCHANGED <<profile, sent>> /\ pc = "next"
    BY DEF NextAddress
  <2>2. profile = "otp" => flight.left = 1
    BY Constants DEF Inv, TypeOK, CounterInv, OTPInv, Flight, NextAddress
  <2>3. profile = "otp" => pc' = "judge" /\ flight'.left <= 1
    BY <2>2, Constants DEF Inv, TypeOK, Flight, NextAddress, Return
  <2> QED
    BY <2>1, <2>3 DEF Inv, OTPInv
<1>8. UnheardInv'
  BY DEF Inv, TypeOK, UnheardInv, Challenge, FlightSteps, NextAddress, Return, loopVars,
     histVars, Flight
<1>9. EvidenceInv'
  BY Constants DEF Inv, TypeOK, EvidenceInv, FlightSteps, NextAddress, Return, loopVars,
     histVars, Flight
<1>10. TraceInv'
  BY DEF Inv, TypeOK, TraceInv, Trace, SilenceIsNamed, Speech, FlightSteps, NextAddress,
     ContextDone, FenceClosed, CheckFence, Return, clockVars, loopVars, histVars,
     Flight, Verdicts
<1> QED
  BY <1>1, <1>2, <1>3, <1>4, <1>5, <1>6, <1>7, <1>8, <1>9, <1>10 DEF Inv

\* A dial fault marks the flight as local.
LEMMA DialStep == ASSUME Inv, Dial PROVE Inv'
<1>1. TypeOK'
  <2>1. /\ profile' \in Profiles /\ budget' \in 0..Budget /\ timer' \in Nat
        /\ pc' \in Steps /\ attempt' \in 1..MaxAttempts
        /\ drawn' \in 0..(2 * MaxAttempts) /\ outcome' \in Outcomes
    BY Constants DEF Inv, TypeOK, Dial, SocketTime, SendFailed, Return, loopVars, Steps,
       Outcomes
  <2>2. /\ fired' \in BOOLEAN /\ cancelled' \in BOOLEAN /\ late' \in BOOLEAN
        /\ latched' \in BOOLEAN /\ silence' \in BOOLEAN /\ lastSilent' \in BOOLEAN
    BY DEF Inv, TypeOK, Dial, CheckFence, loopVars
  <2>3. flight' \in Flight
    BY Constants DEF Inv, TypeOK, Dial, SendFailed, Flight
  <2>4. result' \in [kind : Kinds, silent : BOOLEAN, of : Nat]
    BY DEF Inv, TypeOK, Dial, loopVars
  <2>5. /\ sent' \subseteq Packet
        /\ heard' \subseteq Verdicts \cup {"cok", "foreign", "misfit"}
    BY Constants DEF Inv, TypeOK, Dial
  <2>6. faulted' \subseteq 0..drawn'
    BY Constants DEF Inv, TypeOK, CounterInv, FlightSteps, Dial, SendFailed, Fault
  <2> QED
    BY <2>1, <2>2, <2>3, <2>4, <2>5, <2>6 DEF TypeOK
<1>2. CounterInv'
  BY Constants DEF Inv, TypeOK, CounterInv, FlightSteps, Dial, SendFailed, Return,
     loopVars, Flight
<1>3. CurrentInv'
  BY Constants DEF Inv, TypeOK, CurrentInv, FlightSteps, Dial, SendFailed, Return,
     loopVars, Flight
<1>4. ProofInv'
  BY Constants DEF Inv, TypeOK, ProofInv, Issued, FlightSteps, Dial, SendFailed, Return,
     loopVars, Flight
<1>5. AnswerInv'
  BY Constants DEF Inv, AnswerInv, GoodAnswer, Issued, Dial, SendFailed, Return,
     loopVars, Verdicts
<1>6. VerdictInv'
  BY DEF Inv, VerdictInv, Dial
<1>7. OTPInv'
  BY DEF Inv, TypeOK, OTPInv, Dial, SendFailed, Return, Flight
<1>8. UnheardInv'
  BY DEF Inv, TypeOK, UnheardInv, Challenge, FlightSteps, Dial, SendFailed, Return,
     loopVars, Flight
<1>9. EvidenceInv'
  <2>1. /\ pc \in FlightSteps /\ faulted' \subseteq faulted \cup {flight.ctr}
        /\ sent \subseteq sent' /\ lastSilent' = lastSilent /\ flight'.ctr = flight.ctr
    BY DEF Inv, TypeOK, Flight, FlightSteps, Dial, SendFailed, Fault, loopVars
  <2>2. lastSilent => \E p \in sent' : p.ctr \notin faulted' /\ p.ctr < flight.ctr
    BY <2>1, EvidenceSurvives
  <2>3. /\ result' = result /\ ~result.silent
        /\ pc' = "judge" => outcome' # "noreply"
        /\ pc' = "next" => flight'.local
    BY DEF Inv, TypeOK, Flight, CounterInv, Dial, SendFailed, Return, loopVars
  <2>4. pc' \in FlightSteps /\ ~flight'.local => flight'.ctr \notin faulted'
    <3>1. pc' \in FlightSteps => UNCHANGED <<flight, faulted>> \/ flight'.local
      BY DEF Inv, TypeOK, Flight, Dial, SendFailed
    <3> QED
      BY <2>1, <3>1 DEF Inv, EvidenceInv
  <2> QED
    BY <2>1, <2>2, <2>3, <2>4 DEF EvidenceInv
<1>10. TraceInv'
  BY DEF Inv, TraceInv, Trace, SilenceIsNamed, Speech, FlightSteps, Dial, SendFailed,
     ContextDone, FenceClosed, CheckFence, Return, Fault, loopVars, Verdicts
<1> QED
  BY <1>1, <1>2, <1>3, <1>4, <1>5, <1>6, <1>7, <1>8, <1>9, <1>10 DEF Inv

\* The datagram written belongs to the current flight.
LEMMA WriteStep == ASSUME Inv, Write PROVE Inv'
<1>1. TypeOK'
  BY Constants DEF Inv, TypeOK, CounterInv, FlightSteps, Write, ThisPacket, Return,
     clockVars, loopVars, histVars, Steps, Flight, Outcomes, Verdicts, Packet
<1>2. CounterInv'
  BY Constants DEF Inv, CounterInv, FlightSteps, Write, ThisPacket, Return, loopVars
<1>3. CurrentInv'
  <2>1. /\ sent' = sent \cup {ThisPacket} /\ UNCHANGED <<flight, attempt>>
        /\ pc = "write" /\ ThisPacket.ctr = flight.ctr
        /\ ThisPacket.attempt = attempt /\ ThisPacket.leg = flight.leg
        /\ ThisPacket.cookie = flight.cookie
    BY DEF Write, ThisPacket, loopVars
  <2> QED
    BY <2>1 DEF Inv, CurrentInv, FlightSteps
<1>4. ProofInv'
  BY Constants DEF Inv, ProofInv, Issued, FlightSteps, Write, Return, loopVars
<1>5. AnswerInv'
  BY Constants DEF Inv, AnswerInv, GoodAnswer, Issued, Write, loopVars
<1>6. VerdictInv'
  BY DEF Inv, VerdictInv, Write, histVars
<1>7. OTPInv'
  BY DEF Inv, OTPInv, Write, Return
<1>8. UnheardInv'
  BY DEF Inv, UnheardInv, Challenge, FlightSteps, Write, loopVars, histVars
<1>9. EvidenceInv'
  BY Constants DEF Inv, EvidenceInv, FlightSteps, Write, Return, loopVars, histVars
<1>10. TraceInv'
  BY DEF Inv, TraceInv, Trace, SilenceIsNamed, FlightSteps, Write, Return, loopVars,
     histVars
<1> QED
  BY <1>1, <1>2, <1>3, <1>4, <1>5, <1>6, <1>7, <1>8, <1>9, <1>10 DEF Inv

\* A datagram that left although its write failed belongs to the flight too.
LEMMA WriteFailsStep == ASSUME Inv, WriteFails PROVE Inv'
<1>1. TypeOK'
  <2>1. /\ profile' \in Profiles /\ budget' \in 0..Budget /\ timer' \in Nat
        /\ pc' \in Steps /\ attempt' \in 1..MaxAttempts
        /\ drawn' \in 0..(2 * MaxAttempts) /\ outcome' \in Outcomes
    BY Constants DEF Inv, TypeOK, WriteFails, SendFailed, clockVars, loopVars, Steps
  <2>2. /\ fired' \in BOOLEAN /\ cancelled' \in BOOLEAN /\ late' \in BOOLEAN
        /\ latched' \in BOOLEAN /\ silence' \in BOOLEAN /\ lastSilent' \in BOOLEAN
    BY DEF Inv, TypeOK, WriteFails, CheckFence, clockVars, loopVars
  <2>3. flight' \in Flight
    BY Constants DEF Inv, TypeOK, WriteFails, SendFailed, Flight
  <2>4. result' \in [kind : Kinds, silent : BOOLEAN, of : Nat]
    BY DEF Inv, TypeOK, WriteFails, loopVars
  <2>5. /\ sent' \subseteq Packet
        /\ heard' \subseteq Verdicts \cup {"cok", "foreign", "misfit"}
    BY Constants DEF Inv, TypeOK, CounterInv, FlightSteps, WriteFails, ThisPacket,
       Flight, Packet
  <2>6. faulted' \subseteq 0..drawn'
    BY Constants DEF Inv, TypeOK, CounterInv, FlightSteps, WriteFails, SendFailed, Fault
  <2> QED
    BY <2>1, <2>2, <2>3, <2>4, <2>5, <2>6 DEF TypeOK
<1>2. CounterInv'
  BY Constants DEF Inv, CounterInv, FlightSteps, WriteFails, ThisPacket, SendFailed,
     loopVars
<1>3. CurrentInv'
  BY Constants DEF Inv, CurrentInv, FlightSteps, WriteFails, ThisPacket, SendFailed,
     loopVars
<1>4. ProofInv'
  BY Constants DEF Inv, ProofInv, Issued, FlightSteps, WriteFails, SendFailed, loopVars
<1>5. AnswerInv'
  BY Constants DEF Inv, AnswerInv, GoodAnswer, Issued, WriteFails, SendFailed, loopVars
<1>6. VerdictInv'
  BY DEF Inv, VerdictInv, WriteFails
<1>7. OTPInv'
  <2>1. profile' = profile /\ pc = "write" /\ pc' = "next" /\ flight'.left = flight.left
    BY DEF Inv, WriteFails, SendFailed
  <2>2. sent' = sent \/ sent' = sent \cup {ThisPacket}
    BY DEF WriteFails
  <2>3. profile = "otp" => sent = {}
    BY <2>1 DEF Inv, OTPInv
  <2> QED
    BY <2>1, <2>2, <2>3 DEF Inv, OTPInv
<1>8. UnheardInv'
  BY DEF Inv, UnheardInv, Challenge, FlightSteps, WriteFails, SendFailed, loopVars
<1>9. EvidenceInv'
  <2>1. /\ pc \in FlightSteps /\ faulted' \subseteq faulted \cup {flight.ctr}
        /\ sent \subseteq sent' /\ lastSilent' = lastSilent /\ flight'.ctr = flight.ctr
    BY DEF Inv, FlightSteps, WriteFails, SendFailed, Fault, loopVars
  <2>2. lastSilent => \E p \in sent' : p.ctr \notin faulted' /\ p.ctr < flight.ctr
    BY <2>1, EvidenceSurvives
  <2>3. /\ result' = result /\ ~result.silent
        /\ pc' = "judge" => outcome' # "noreply"
        /\ pc' = "next" => flight'.local
    BY DEF Inv, TypeOK, Flight, CounterInv, WriteFails, SendFailed, loopVars
  <2>4. pc' \in FlightSteps /\ ~flight'.local => flight'.ctr \notin faulted'
    BY DEF Inv, TypeOK, Flight, WriteFails, SendFailed
  <2> QED
    BY <2>1, <2>2, <2>3, <2>4 DEF EvidenceInv
<1>10. TraceInv'
  BY DEF Inv, TraceInv, Trace, SilenceIsNamed, WriteFails, SendFailed, ContextDone,
     Fault, clockVars, loopVars
<1> QED
  BY <1>1, <1>2, <1>3, <1>4, <1>5, <1>6, <1>7, <1>8, <1>9, <1>10 DEF Inv

\* Silence of one address after its datagram was written.
LEMMA ReadTimeoutStep == ASSUME Inv, ReadTimeout PROVE Inv'
<1>1. TypeOK'
  BY Constants DEF Inv, TypeOK, ReadTimeout, SendFailed, clockVars, loopVars, histVars,
     Steps, Flight
<1>2. CounterInv'
  BY Constants DEF Inv, CounterInv, FlightSteps, ReadTimeout, SendFailed, loopVars
<1>3. CurrentInv'
  BY Constants DEF Inv, CurrentInv, FlightSteps, ReadTimeout, SendFailed, loopVars
<1>4. ProofInv'
  BY Constants DEF Inv, ProofInv, Issued, FlightSteps, ReadTimeout, SendFailed, loopVars
<1>5. AnswerInv'
  BY Constants DEF Inv, AnswerInv, GoodAnswer, Issued, ReadTimeout, SendFailed, loopVars
<1>6. VerdictInv'
  BY DEF Inv, VerdictInv, ReadTimeout, histVars
<1>7. OTPInv'
  BY DEF Inv, OTPInv, ReadTimeout
<1>8. UnheardInv'
  BY DEF Inv, UnheardInv, Challenge, FlightSteps, ReadTimeout, SendFailed, loopVars,
     histVars
<1>9. EvidenceInv'
  BY Constants DEF Inv, TypeOK, CurrentInv, EvidenceInv, FlightSteps, ReadTimeout,
     SendFailed, loopVars, histVars, Flight
<1>10. TraceInv'
  BY DEF Inv, TypeOK, TraceInv, Trace, SilenceIsNamed, FlightSteps, ReadTimeout,
     SendFailed, ContextDone, clockVars, loopVars, histVars
<1> QED
  BY <1>1, <1>2, <1>3, <1>4, <1>5, <1>6, <1>7, <1>8, <1>9, <1>10 DEF Inv

\* An error of the socket marks the flight as local.
LEMMA ReadFailsStep == ASSUME Inv, ReadFails PROVE Inv'
<1>1. TypeOK'
  <2>1. /\ profile' \in Profiles /\ budget' \in 0..Budget /\ timer' \in Nat
        /\ pc' \in Steps /\ attempt' \in 1..MaxAttempts
        /\ drawn' \in 0..(2 * MaxAttempts) /\ outcome' \in Outcomes
    BY Constants DEF Inv, TypeOK, ReadFails, SendFailed, clockVars, loopVars, Steps
  <2>2. /\ fired' \in BOOLEAN /\ cancelled' \in BOOLEAN /\ late' \in BOOLEAN
        /\ latched' \in BOOLEAN /\ silence' \in BOOLEAN /\ lastSilent' \in BOOLEAN
    BY DEF Inv, TypeOK, ReadFails, clockVars, loopVars
  <2>3. flight' \in Flight
    BY Constants DEF Inv, TypeOK, ReadFails, SendFailed, Flight
  <2>4. result' \in [kind : Kinds, silent : BOOLEAN, of : Nat]
    BY DEF Inv, TypeOK, ReadFails, loopVars
  <2>5. /\ sent' \subseteq Packet
        /\ heard' \subseteq Verdicts \cup {"cok", "foreign", "misfit"}
    BY Constants DEF Inv, TypeOK, ReadFails
  <2>6. faulted' \subseteq 0..drawn'
    BY Constants DEF Inv, TypeOK, CounterInv, FlightSteps, ReadFails, SendFailed, Fault
  <2> QED
    BY <2>1, <2>2, <2>3, <2>4, <2>5, <2>6 DEF TypeOK
<1>2. CounterInv'
  BY Constants DEF Inv, CounterInv, FlightSteps, ReadFails, SendFailed, loopVars
<1>3. CurrentInv'
  BY Constants DEF Inv, CurrentInv, FlightSteps, ReadFails, SendFailed, loopVars
<1>4. ProofInv'
  BY Constants DEF Inv, ProofInv, Issued, FlightSteps, ReadFails, SendFailed, loopVars
<1>5. AnswerInv'
  BY Constants DEF Inv, AnswerInv, GoodAnswer, Issued, ReadFails, SendFailed, loopVars
<1>6. VerdictInv'
  BY DEF Inv, VerdictInv, ReadFails
<1>7. OTPInv'
  BY DEF Inv, OTPInv, ReadFails
<1>8. UnheardInv'
  BY DEF Inv, UnheardInv, Challenge, FlightSteps, ReadFails, SendFailed, loopVars
<1>9. EvidenceInv'
  <2>1. /\ pc \in FlightSteps /\ faulted' \subseteq faulted \cup {flight.ctr}
        /\ sent \subseteq sent' /\ lastSilent' = lastSilent /\ flight'.ctr = flight.ctr
    BY DEF Inv, FlightSteps, ReadFails, SendFailed, Fault, loopVars
  <2>2. lastSilent => \E p \in sent' : p.ctr \notin faulted' /\ p.ctr < flight.ctr
    BY <2>1, EvidenceSurvives
  <2>3. /\ result' = result /\ ~result.silent
        /\ pc' = "judge" => outcome' # "noreply"
        /\ pc' = "next" => flight'.local
    BY DEF Inv, TypeOK, Flight, CounterInv, ReadFails, SendFailed, loopVars
  <2>4. pc' \in FlightSteps /\ ~flight'.local => flight'.ctr \notin faulted'
    BY DEF Inv, TypeOK, Flight, ReadFails, SendFailed
  <2> QED
    BY <2>1, <2>2, <2>3, <2>4 DEF EvidenceInv
<1>10. TraceInv'
  BY DEF Inv, TraceInv, Trace, SilenceIsNamed, ReadFails, SendFailed, Fault
<1> QED
  BY <1>1, <1>2, <1>3, <1>4, <1>5, <1>6, <1>7, <1>8, <1>9, <1>10 DEF Inv

\* A foreign datagram ends the exchange and contradicts silence.
LEMMA ReadForeignStep == ASSUME Inv, ReadForeign PROVE Inv'
<1>1. TypeOK'
  BY Constants DEF Inv, TypeOK, ReadForeign, Return, clockVars, loopVars, Steps,
     Outcomes
<1>2. CounterInv'
  BY Constants DEF Inv, CounterInv, FlightSteps, ReadForeign, Return, loopVars
<1>3. CurrentInv'
  BY Constants DEF Inv, CurrentInv, FlightSteps, ReadForeign, Return
<1>4. ProofInv'
  BY Constants DEF Inv, ProofInv, FlightSteps, ReadForeign, Return
<1>5. AnswerInv'
  BY Constants DEF Inv, AnswerInv, GoodAnswer, Issued, ReadForeign, Return, loopVars,
     Verdicts
<1>6. VerdictInv'
  BY DEF Inv, VerdictInv, ReadForeign
<1>7. OTPInv'
  BY DEF Inv, OTPInv, ReadForeign
<1>8. UnheardInv'
  BY DEF Inv, CounterInv, UnheardInv, Speech, FlightSteps, ReadForeign, Return, loopVars
<1>9. EvidenceInv'
  BY Constants DEF Inv, EvidenceInv, FlightSteps, ReadForeign, Return, loopVars
<1>10. TraceInv'
  BY DEF Inv, TraceInv, Trace, SilenceIsNamed, FlightSteps, ReadForeign, Return
<1> QED
  BY <1>1, <1>2, <1>3, <1>4, <1>5, <1>6, <1>7, <1>8, <1>9, <1>10 DEF Inv

\* Counter, cookie and flight decide what an authentic datagram means.
LEMMA ReadReplyStep == ASSUME Inv, ReadReply PROVE Inv'
<1>1. TypeOK'
  BY Constants DEF Inv, TypeOK, ReadReply, Replies, ReadCookie, ReadAnswer, ReadMisfit,
     CookieMatches, Echoes, Return, clockVars, Steps, Flight, Outcomes
<1>2. CounterInv'
  BY Constants DEF Inv, TypeOK, CounterInv, FlightSteps, ReadReply, ReadCookie,
     ReadAnswer, ReadMisfit, ChallengeAllowed, Return, Flight
<1>3. CurrentInv'
  BY Constants DEF Inv, TypeOK, CurrentInv, FlightSteps, ReadReply, ReadCookie,
     ReadAnswer, ReadMisfit, Flight
<1>4. ProofInv'
  BY Constants DEF Inv, TypeOK, CurrentInv, ProofInv, Issued, FlightSteps, ReadReply,
     ReadCookie, ReadAnswer, ReadMisfit, ChallengeAllowed, CookieMatches, Return, Flight
<1>5. AnswerInv'
  BY Constants DEF Inv, TypeOK, CurrentInv, ProofInv, AnswerInv, GoodAnswer, Issued,
     FlightSteps, ReadReply, ReadCookie, ReadAnswer, ReadMisfit, Echoes, ProofDone,
     Return, Verdicts
<1>6. VerdictInv'
  BY DEF Inv, VerdictInv, ReadReply, ReadCookie, ReadAnswer, ReadMisfit, Return
<1>7. OTPInv'
  BY DEF Inv, OTPInv, ReadReply
<1>8. UnheardInv'
  BY DEF Inv, TypeOK, CounterInv, UnheardInv, Challenge, Speech, FlightSteps, ReadReply,
     Replies, ReadCookie, ReadAnswer, ReadMisfit, ChallengeAllowed, Return, Verdicts,
     Looped
<1>9. EvidenceInv'
  BY Constants DEF Inv, TypeOK, EvidenceInv, FlightSteps, ReadReply, Replies,
     ReadCookie, ReadAnswer, ReadMisfit, Return, Verdicts
<1>10. TraceInv'
  BY DEF Inv, TraceInv, Trace, SilenceIsNamed, FlightSteps, ReadReply, Replies,
     ReadCookie, ReadAnswer, ReadMisfit, Return, Verdicts
<1> QED
  BY <1>1, <1>2, <1>3, <1>4, <1>5, <1>6, <1>7, <1>8, <1>9, <1>10 DEF Inv

\* The driver reports a verdict, an error or silence, or backs off.
LEMMA JudgeStep == ASSUME Inv, Judge PROVE Inv'
<1>1. TypeOK'
  <2>1. /\ profile' \in Profiles /\ budget' \in 0..Budget /\ timer' \in Nat
        /\ pc' \in Steps /\ attempt' \in 1..MaxAttempts
        /\ drawn' \in 0..(2 * MaxAttempts) /\ outcome' \in Outcomes
    BY Constants DEF Inv, TypeOK, Judge, Finish, ReportContext, Backoff, Steps
  <2>2. /\ fired' \in BOOLEAN /\ cancelled' \in BOOLEAN /\ late' \in BOOLEAN
        /\ latched' \in BOOLEAN /\ silence' \in BOOLEAN /\ lastSilent' \in BOOLEAN
    BY DEF Inv, TypeOK, Judge, SilenceAfter
  <2>3. flight' \in Flight
    BY Constants DEF Inv, TypeOK, Judge
  <2>4. result' \in [kind : Kinds, silent : BOOLEAN, of : Nat]
    BY DEF Inv, TypeOK, Judge, Finish, ReportContext, Backoff, ObservedSilence, Kinds
  <2>5. /\ sent' \subseteq Packet
        /\ heard' \subseteq Verdicts \cup {"cok", "foreign", "misfit"}
    BY Constants DEF Inv, TypeOK, Judge
  <2>6. faulted' \subseteq 0..drawn'
    BY Constants DEF Inv, TypeOK, Judge, Finish, Backoff, Fault
  <2> QED
    BY <2>1, <2>2, <2>3, <2>4, <2>5, <2>6 DEF TypeOK
<1>2. CounterInv'
  BY Constants DEF Inv, TypeOK, CounterInv, FlightSteps, Judge, Finish, ReportContext,
     Backoff, Spent
<1>3. CurrentInv'
  BY Constants DEF Inv, CurrentInv, FlightSteps, Judge, Finish, ReportContext, Backoff
<1>4. ProofInv'
  BY Constants DEF Inv, ProofInv, FlightSteps, Judge, Finish, ReportContext, Backoff
<1>5. AnswerInv'
  <2>1. UNCHANGED <<profile, sent, attempt>> /\ result'.of = result.of /\ pc' # "judge"
    BY DEF Inv, TypeOK, Judge, Finish, Backoff, ReportContext
  <2>2. GoodAnswer => GoodAnswer'
    BY <2>1 DEF GoodAnswer, Issued
  <2>3. result'.kind \in {"success", "terminal"} => result.kind = result'.kind \/ outcome \in Verdicts
    BY DEF Inv, TypeOK, Judge, Finish, Backoff, ReportContext, AnswerFirst,
       AuthenticatedTerminal, Verdicts
  <2>4. pc = "judge"
    BY DEF Judge
  <2> QED
    BY <2>1, <2>2, <2>3, <2>4 DEF Inv, AnswerInv
<1>6. VerdictInv'
  BY DEF Inv, TypeOK, VerdictInv, Judge, Finish, AnswerFirst, AuthenticatedTerminal,
     Retryable
<1>7. OTPInv'
  BY DEF Inv, OTPInv, Judge, Looped
<1>8. UnheardInv'
  BY DEF Inv, TypeOK, UnheardInv, Challenge, Speech, Judge, Finish, ReportContext,
     AnswerFirst, Backoff, SilenceAfter, ObservedSilence, Verdicts, Looped
<1>9. EvidenceInv'
  BY Constants DEF Inv, TypeOK, EvidenceInv, FlightSteps, Judge, Finish, ReportContext,
     Backoff, Fault, ObservedSilence, Packet
<1>10. TraceInv'
  <2>1. /\ pc = "judge" /\ pc' \in {"done", "sleep"} /\ profile \in Looped
        /\ UNCHANGED <<profile, latched, heard>> /\ faulted \subseteq faulted'
        /\ lastSilent' = (lastSilent \/ outcome = "noreply")
    BY DEF Judge, Backoff, Finish, ReportContext, Fault
  <2>2. outcome \in {"noreply", "context"} \/ Trace
    BY <2>1 DEF Inv, TypeOK, TraceInv, Trace, Outcomes, Speech, Looped
  <2>3. Trace => Trace'
    BY <2>1 DEF Trace
  <2>4. ~silence' => Trace'
    <3>1. CASE outcome \in {"noreply", "context"}
      <4>1. silence' = silence
        BY <3>1 DEF Inv, TypeOK, Judge, SilenceAfter
      <4> QED
        BY <4>1, <2>3 DEF Inv, TraceInv
    <3> QED
      BY <3>1, <2>2, <2>3
  <2>5. AnswerFirst => Trace
    BY <2>1 DEF Inv, TraceInv, Trace, Speech, Verdicts, AnswerFirst,
       AuthenticatedTerminal, Looped
  <2>6. ~AnswerFirst /\ ~ContextDone /\ ~Retryable(outcome) => Trace
    <3>1. ASSUME outcome = "context", ~ContextDone PROVE FALSE
      BY <3>1, <2>1 DEF Inv, TraceInv
    <3> QED
      BY <3>1, <2>2 DEF Retryable
  <2>7. ASSUME pc' = "done", ~Trace' PROVE result'.silent = (silence' /\ lastSilent')
    BY <2>3, <2>5, <2>6, <2>7 DEF Inv, TypeOK, Trace, Judge, Finish, ReportContext,
       Backoff, ObservedSilence, Fault
  <2>8. SilenceIsNamed'
    BY <2>4, <2>7 DEF SilenceIsNamed, Trace
  <2> QED
    BY <2>1, <2>4, <2>8 DEF TraceInv, FlightSteps
<1> QED
  BY <1>1, <1>2, <1>3, <1>4, <1>5, <1>6, <1>7, <1>8, <1>9, <1>10 DEF Inv

\* After a backoff the next attempt starts, or the context has ended.
LEMMA WakeStep == ASSUME Inv, Wake PROVE Inv'
<1>1. TypeOK'
  <2>1. /\ profile' \in Profiles /\ budget' \in 0..Budget /\ timer' \in Nat
        /\ pc' \in Steps /\ attempt' \in 1..MaxAttempts
        /\ drawn' \in 0..(2 * MaxAttempts) /\ outcome' \in Outcomes
    BY Constants DEF Inv, TypeOK, CounterInv, Wake, Finish, ReportContext, Steps
  <2>2. /\ fired' \in BOOLEAN /\ cancelled' \in BOOLEAN /\ late' \in BOOLEAN
        /\ latched' \in BOOLEAN /\ silence' \in BOOLEAN /\ lastSilent' \in BOOLEAN
    BY DEF Inv, TypeOK, Wake
  <2>3. flight' \in Flight
    BY Constants DEF Inv, TypeOK, Wake
  <2>4. result' \in [kind : Kinds, silent : BOOLEAN, of : Nat]
    BY DEF Inv, TypeOK, Wake, Finish, ReportContext, ObservedSilence, Kinds
  <2>5. /\ sent' \subseteq Packet
        /\ heard' \subseteq Verdicts \cup {"cok", "foreign", "misfit"}
    BY Constants DEF Inv, TypeOK, Wake, histVars
  <2>6. faulted' \subseteq 0..drawn'
    BY Constants DEF Inv, TypeOK, Wake, histVars
  <2> QED
    BY <2>1, <2>2, <2>3, <2>4, <2>5, <2>6 DEF TypeOK
<1>2. CounterInv'
  BY Constants DEF Inv, TypeOK, CounterInv, FlightSteps, Wake, Finish, ReportContext
<1>3. CurrentInv'
  BY Constants DEF Inv, CurrentInv, FlightSteps, Wake, Finish, ReportContext
<1>4. ProofInv'
  BY Constants DEF Inv, ProofInv, FlightSteps, Wake, Finish, ReportContext
<1>5. AnswerInv'
  BY Constants DEF Inv, TypeOK, CounterInv, AnswerInv, Wake, Finish, ReportContext
<1>6. VerdictInv'
  BY DEF Inv, VerdictInv, Wake, histVars
<1>7. OTPInv'
  BY DEF Inv, OTPInv, Wake
<1>8. UnheardInv'
  <2>1. /\ UNCHANGED <<profile, silence, lastSilent, heard>> /\ pc = "sleep"
        /\ pc' \in {"begin", "done"}
        /\ result' = result \/ result'.silent = (silence /\ lastSilent)
    BY DEF Inv, TypeOK, Wake, Finish, ReportContext, ObservedSilence, histVars
  <2>2. profile \in Looped
    BY <2>1, ExchangeAssumption DEF Inv, TypeOK, UnheardInv, OTPInv
  <2> QED
    BY <2>1, <2>2 DEF Inv, UnheardInv, Challenge
<1>9. EvidenceInv'
  <2>1. /\ UNCHANGED <<silence, lastSilent, sent, faulted, flight>> /\ pc = "sleep"
        /\ pc' \in {"begin", "done"}
        /\ result' = result \/ result'.silent = (silence /\ lastSilent)
    BY DEF Inv, TypeOK, Wake, Finish, ReportContext, ObservedSilence, histVars
  <2> QED
    BY <2>1 DEF Inv, EvidenceInv, FlightSteps
<1>10. TraceInv'
  BY DEF Inv, TypeOK, TraceInv, Trace, SilenceIsNamed, FlightSteps, Wake, Finish,
     ReportContext, ObservedSilence, histVars
<1> QED
  BY <1>1, <1>2, <1>3, <1>4, <1>5, <1>6, <1>7, <1>8, <1>9, <1>10 DEF Inv

\* Operations without a driver return what their exchange returned.
LEMMA ReturnSingleStep == ASSUME Inv, ReturnSingle PROVE Inv'
<1>1. TypeOK'
  <2>1. /\ profile' \in Profiles /\ budget' \in 0..Budget /\ timer' \in Nat
        /\ pc' \in Steps /\ attempt' \in 1..MaxAttempts
        /\ drawn' \in 0..(2 * MaxAttempts) /\ outcome' \in Outcomes
    BY Constants DEF Inv, TypeOK, ReturnSingle, Finish, KnockSilent, Steps
  <2>2. /\ fired' \in BOOLEAN /\ cancelled' \in BOOLEAN /\ late' \in BOOLEAN
        /\ latched' \in BOOLEAN /\ silence' \in BOOLEAN /\ lastSilent' \in BOOLEAN
    BY DEF Inv, TypeOK, ReturnSingle, KnockSilent
  <2>3. flight' \in Flight
    BY Constants DEF Inv, TypeOK, ReturnSingle, KnockSilent
  <2>4. result' \in [kind : Kinds, silent : BOOLEAN, of : Nat]
    BY DEF Inv, TypeOK, ReturnSingle, Finish, KnockSilent, Kinds
  <2>5. /\ sent' \subseteq Packet
        /\ heard' \subseteq Verdicts \cup {"cok", "foreign", "misfit"}
    BY Constants DEF Inv, TypeOK, ReturnSingle, KnockSilent, histVars
  <2>6. faulted' \subseteq 0..drawn'
    BY Constants DEF Inv, TypeOK, ReturnSingle, KnockSilent, histVars
  <2> QED
    BY <2>1, <2>2, <2>3, <2>4, <2>5, <2>6 DEF TypeOK
<1>2. CounterInv'
  BY Constants DEF Inv, CounterInv, FlightSteps, ReturnSingle, Finish, KnockSilent
<1>3. CurrentInv'
  BY Constants DEF Inv, CurrentInv, FlightSteps, ReturnSingle, Finish, KnockSilent
<1>4. ProofInv'
  BY Constants DEF Inv, ProofInv, FlightSteps, ReturnSingle, Finish, KnockSilent
<1>5. AnswerInv'
  BY Constants DEF Inv, AnswerInv, GoodAnswer, Issued, ReturnSingle, Finish,
     KnockSilent, Verdicts
<1>6. VerdictInv'
  BY DEF Inv, VerdictInv, ReturnSingle, Finish, KnockSilent, histVars
<1>7. OTPInv'
  BY DEF Inv, OTPInv, ReturnSingle, Finish, KnockSilent
<1>8. UnheardInv'
  BY DEF Inv, TypeOK, UnheardInv, FlightSteps, ReturnSingle, Finish, KnockSilent,
     histVars
<1>9. EvidenceInv'
  BY Constants DEF Inv, TypeOK, EvidenceInv, FlightSteps, ReturnSingle, Finish,
     KnockSilent, histVars
<1>10. TraceInv'
  BY DEF Inv, TraceInv, Trace, SilenceIsNamed, FlightSteps, ReturnSingle, Finish,
     KnockSilent, histVars
<1> QED
  BY <1>1, <1>2, <1>3, <1>4, <1>5, <1>6, <1>7, <1>8, <1>9, <1>10 DEF Inv

\* Clocks, timers, cancellation and the wall clock touch nothing the invariant
\* relates; a context that is done stays done.
LEMMA EnvironmentStep ==
  ASSUME Inv, Tick \/ BudgetFires \/ CallerCancels \/ WallClockSteps PROVE Inv'
<1>1. /\ UNCHANGED <<profile, latched, pc, attempt, silence, lastSilent, result, flight,
                    drawn, outcome, sent, heard, faulted>>
      /\ (cancelled => cancelled') /\ (fired => fired')
  BY DEF Tick, BudgetFires, CallerCancels, WallClockSteps, loopVars, histVars
<1>2. /\ budget' \in 0..Budget /\ timer' \in Nat
      /\ fired' \in BOOLEAN /\ cancelled' \in BOOLEAN /\ late' \in BOOLEAN
  <2>1. CASE Tick
    BY <2>1, Constants DEF Inv, TypeOK, Tick
  <2>2. CASE BudgetFires \/ CallerCancels \/ WallClockSteps
    BY <2>2 DEF Inv, TypeOK, BudgetFires, CallerCancels, WallClockSteps
  <2> QED
    BY <2>1, <2>2
<1>3. TypeOK'
  BY <1>1, <1>2 DEF Inv, TypeOK
<1>4. ContextDone => ContextDone'
  BY <1>1 DEF ContextDone
<1>5. TraceInv'
  BY <1>1, <1>4 DEF Inv, TraceInv, Trace, SilenceIsNamed
<1>6. (CounterInv /\ CurrentInv /\ ProofInv /\ AnswerInv)'
  BY <1>1 DEF Inv, CounterInv, CurrentInv, ProofInv, AnswerInv, GoodAnswer, Issued
<1>7. (VerdictInv /\ OTPInv)'
  BY <1>1 DEF Inv, VerdictInv, OTPInv
<1>8. UnheardInv'
  BY <1>1 DEF Inv, UnheardInv, Challenge
<1>9. EvidenceInv'
  BY <1>1 DEF Inv, EvidenceInv
<1> QED
  BY <1>3, <1>5, <1>6, <1>7, <1>8, <1>9 DEF Inv

\* Every step, and stuttering, preserves the invariant.
LEMMA NextInv == Inv /\ [Next]_vars => Inv'
<1> SUFFICES ASSUME Inv, [Next]_vars PROVE Inv'
  OBVIOUS
<1>1. CASE Next
  BY <1>1, BeginAttemptStep, ContinuityLostStep, BeginProofStep, ResolveStep,
     NextAddressStep, DialStep, WriteStep, WriteFailsStep, ReadTimeoutStep,
     ReadFailsStep, ReadForeignStep, ReadReplyStep, JudgeStep, WakeStep,
     ReturnSingleStep, EnvironmentStep DEF Next, Client
<1>2. CASE UNCHANGED vars
  <2>1. (TypeOK /\ CounterInv /\ CurrentInv /\ ProofInv /\ AnswerInv)'
    BY <1>2 DEF Inv, TypeOK, CounterInv, CurrentInv, ProofInv, AnswerInv, GoodAnswer,
       Issued, vars, clockVars, loopVars, histVars
  <2>2. (VerdictInv /\ OTPInv /\ UnheardInv /\ EvidenceInv)'
    BY <1>2 DEF Inv, VerdictInv, OTPInv, UnheardInv, EvidenceInv, Challenge, vars,
       loopVars, histVars
  <2>3. TraceInv'
    BY <1>2 DEF Inv, TraceInv, Trace, SilenceIsNamed, ContextDone, vars, clockVars,
       loopVars, histVars
  <2> QED
    BY <2>1, <2>2, <2>3 DEF Inv
<1> QED
  BY <1>1, <1>2

\* What the invariant says to the caller.
LEMMA InvImplies ==
  Inv => /\ TypeOK /\ AnswerIsCurrent /\ AnswerIsProven /\ VerdictWins
         /\ SilenceIsHonest /\ SilenceIsNamed /\ OneOTP
<1> SUFFICES ASSUME Inv
             PROVE  /\ TypeOK /\ AnswerIsCurrent /\ AnswerIsProven /\ VerdictWins
                    /\ SilenceIsHonest /\ SilenceIsNamed /\ OneOTP
  OBVIOUS
<1>1. TypeOK /\ SilenceIsNamed
  BY DEF Inv, TraceInv
<1>2. AnswerIsCurrent /\ AnswerIsProven
  BY DEF Inv, AnswerInv, GoodAnswer, Issued, AnswerIsCurrent, AnswerIsProven, Answered
<1>3. VerdictWins
  BY DEF Inv, VerdictInv, VerdictWins
<1>4. SilenceIsHonest
  BY DEF Inv, UnheardInv, EvidenceInv, Challenge, SilenceIsHonest
<1>5. OneOTP
  <2>1. ASSUME NEW p PROVE Cardinality({p}) <= 1
    BY FS_Singleton
  <2>2. Cardinality({}) <= 1
    BY FS_EmptySet
  <2> QED
    BY <2>1, <2>2 DEF Inv, OTPInv, OneOTP
<1> QED
  BY <1>1, <1>2, <1>3, <1>4, <1>5

\* Safety of one native operation, for every budget, timeout, number of attempts
\* and addresses: results answer this attempt's own, proven, request; final
\* verdicts win over deadlines; silence is reported exactly when it was observed;
\* a one-time code is requested at most once (runNativeExchange, nativeudp).
THEOREM ExchangeSafety ==
  Spec => [](/\ TypeOK /\ AnswerIsCurrent /\ AnswerIsProven /\ VerdictWins
             /\ SilenceIsHonest /\ SilenceIsNamed /\ OneOTP)
BY InitInv, NextInv, InvImplies, PTL DEF Spec

\* What an operation returns with the server's authority is current, proven and
\* final (correlateDecryptedReply, runNativeExchange).
THEOREM AnswersAreSound == Spec => []AnswerSound
<1>1. Spec => [](AnswerIsCurrent /\ AnswerIsProven /\ VerdictWins /\ OneOTP)
  BY ExchangeSafety, PTL
<1> QED BY <1>1 DEF AnswerSound

\* What an operation says of silence is what was observed (observedSilence).
THEOREM SilenceIsSound == Spec => []SilenceSound
<1>1. Spec => [](SilenceIsHonest /\ SilenceIsNamed) BY ExchangeSafety, PTL
<1> QED BY <1>1 DEF SilenceSound

\* The recovery fence holds for the rest of the operation once it was seen closed,
\* whatever the wall clock does (agentRecoveryBoundary.checkAt, udpfence.Check).
THEOREM FenceHolds == Spec => FenceLatches
<1>1. [Next]_vars => (latched => sent' = sent)
  BY DEF Next, Client, BeginAttempt, ContinuityLost, BeginProof, Resolve, NextAddress,
     Dial, Write, WriteFails, ReadTimeout, ReadFails, ReadForeign, ReadReply, Judge,
     Wake, ReturnSingle, Tick, BudgetFires, CallerCancels, WallClockSteps, FenceClosed,
     vars
<1> QED
  BY <1>1, PTL DEF Spec, FenceLatches

-----------------------------------------------------------------------------
(***************************************************************************)
(* The runtime client.  A credential that is loaded, cached or put on a    *)
(* request carries when its refresh began, and was not replaced before     *)
(* (FreshInv); an exchange owns the mutex of the key it uses (KeyInv).     *)
(***************************************************************************)

Times == Nat \cup {None}
Creds == 1..MaxCred
CacheEntry == [cred : Creds, begun : Nat, ended : Nat]
Spots == {"idle", "top", "cache", "wait", "load", "exchange", "exit"}

RuntimeTypes ==
  /\ now \in Nat /\ stored \in Creds
  /\ replaced \in [Creds -> Times] /\ moved \in Times
  /\ cache \in CacheEntry /\ expires = cache.ended + TTL
  /\ at \in [Procs -> Spots]
  /\ clock \in [Procs -> Nat]
  /\ load \in [Procs -> [begun : Nat, cred : Creds \cup {None}]]
  /\ authorized \in [cred : Creds, begun : Nat, ended : Nat, clock : Nat] \cup {None}

\* A credential read by a refresh that began at t was the stored one, of the
\* opened agent, at some moment since.
Fresh(c, t) == t <= now /\ \A r \in {replaced[c], moved} \ {None} : t <= r

FreshInv ==
  /\ \A c \in Creds : c >= stored => replaced[c] = None
  /\ \A p \in Procs : clock[p] <= now /\ load[p].begun <= now
  /\ \A p \in Procs : load[p].cred # None => Fresh(load[p].cred, load[p].begun)
  /\ Fresh(cache.cred, cache.begun)
  /\ authorized # None =>
       /\ Fresh(authorized.cred, authorized.begun)
       /\ authorized.clock < authorized.ended + TTL

\* An exchange that uses a key holds its mutex, and a handle's key is wiped
\* after its session has closed.
KeyInv ==
  /\ key \in {"held", "taken", "wiped"} /\ closeKey \in {"held", "wiped"}
  /\ session \in {"open", "closing", "closed"}
  /\ \A p \in Procs : at[p] = "exchange" => keyMu = p /\ key = "held"
  /\ \A p \in Procs : at[p] = "exit" => closeMu = p /\ closeKey = "held"
  /\ closeKey = "wiped" => session = "closed"

RuntimeInv == RuntimeTypes /\ FreshInv /\ KeyInv

\* What the caches and loads hold is what a request may carry.
LEMMA RuntimeStarts == RuntimeInit => RuntimeInv
<1> SUFFICES ASSUME RuntimeInit PROVE RuntimeInv OBVIOUS
<1> USE DEF RuntimeInit
<1>1. RuntimeTypes
  BY RuntimeAssumption DEF RuntimeTypes, Times, Creds, CacheEntry, Spots, Unread
<1>2. FreshInv
  <2>1. None \notin Nat BY RuntimeAssumption
  <2> QED BY <1>1, <2>1, RuntimeAssumption DEF FreshInv, Fresh, Creds, Unread, RuntimeTypes
<1>3. KeyInv BY DEF KeyInv
<1> QED BY <1>1, <1>2, <1>3 DEF RuntimeInv

\* A step of the cache.
LEMMA ClockRead ==
  ASSUME RuntimeInv, NEW p \in Procs, ReadClock(p)
  PROVE  RuntimeInv'
<1> USE DEF RuntimeInv, ReadClock, Goto
<1>1. RuntimeTypes' BY DEF RuntimeTypes, Spots
<1>2. FreshInv' BY DEF FreshInv, Fresh, RuntimeTypes
<1>3. KeyInv' BY DEF KeyInv, keyVars, closeVars, RuntimeTypes
<1> QED BY <1>1, <1>2, <1>3

LEMMA CacheUsed ==
  ASSUME RuntimeInv, NEW p \in Procs, UseCache(p)
  PROVE  RuntimeInv'
<1> USE DEF RuntimeInv, UseCache, Goto, Stamped
<1>1. RuntimeTypes' BY DEF RuntimeTypes, Spots, CacheEntry
<1>2. FreshInv'
  <2>1. authorized'.cred = cache.cred /\ authorized'.begun = cache.begun
        /\ authorized'.ended = cache.ended /\ authorized'.clock = clock[p]
    OBVIOUS
  <2>2. clock[p] < cache.ended + TTL BY DEF Cached, RuntimeTypes
  <2>3. Fresh(cache.cred, cache.begun)' BY DEF FreshInv, Fresh
  <2>4. \A q \in Procs : clock'[q] <= now' /\ load'[q].begun <= now'
    BY DEF FreshInv, RuntimeTypes
  <2>5. \A q \in Procs : load'[q].cred # None => Fresh(load[q].cred, load[q].begun)'
    BY DEF FreshInv, Fresh
  <2>6. \A c \in Creds : c >= stored' => replaced'[c] = None BY DEF FreshInv
  <2> QED BY <2>1, <2>2, <2>3, <2>4, <2>5, <2>6 DEF FreshInv, Fresh
<1>3. KeyInv' BY DEF KeyInv, keyVars, closeVars, RuntimeTypes
<1> QED BY <1>1, <1>2, <1>3

LEMMA RefreshStarted ==
  ASSUME RuntimeInv, NEW p \in Procs, StartRefresh(p)
  PROVE  RuntimeInv'
<1> USE DEF RuntimeInv, StartRefresh, Goto
<1>1. RuntimeTypes' BY DEF RuntimeTypes, Spots
<1>2. FreshInv' BY DEF FreshInv, Fresh, RuntimeTypes
<1>3. KeyInv' BY DEF KeyInv, keyVars, closeVars, RuntimeTypes
<1> QED BY <1>1, <1>2, <1>3

LEMMA RefreshAwaited ==
  ASSUME RuntimeInv, NEW p \in Procs, AwaitRefresh(p)
  PROVE  RuntimeInv'
<1> USE DEF RuntimeInv, AwaitRefresh, Goto
<1>1. RuntimeTypes' BY DEF RuntimeTypes, Spots
<1>2. FreshInv' BY DEF FreshInv, Fresh, RuntimeTypes
<1>3. KeyInv' BY DEF KeyInv, keyVars, closeVars, RuntimeTypes
<1> QED BY <1>1, <1>2, <1>3

\* The credential that is read is the stored one now, and so since the load began.
LEMMA CredentialLoaded ==
  ASSUME RuntimeInv, NEW p \in Procs, LoadCredential(p)
  PROVE  RuntimeInv'
<1> USE DEF RuntimeInv, LoadCredential
<1>1. RuntimeTypes' BY DEF RuntimeTypes
<1>2. FreshInv'
  <2>1. replaced[stored] = None /\ moved = None BY DEF FreshInv, RuntimeTypes, Creds
  <2>2. load'[p].cred = stored /\ load'[p].begun = load[p].begun BY DEF RuntimeTypes
  <2>3. \A q \in Procs \ {p} : load'[q] = load[q] BY DEF RuntimeTypes
  <2>4. Fresh(load[p].cred, load[p].begun)' BY <2>1, <2>2 DEF FreshInv, Fresh
  <2> QED BY <2>2, <2>3, <2>4 DEF FreshInv, Fresh
<1>3. KeyInv' BY DEF KeyInv, keyVars, closeVars
<1> QED BY <1>1, <1>2, <1>3

\* What finishRefresh caches was read by the refresh that ends, and a waiter
\* that it wakes reads the clock again.
LEMMA RefreshFinished ==
  ASSUME RuntimeInv, NEW p \in Procs, FinishRefresh(p)
  PROVE  RuntimeInv'
<1> USE DEF RuntimeInv, FinishRefresh, Stamped
<1>1. cache' \in CacheEntry /\ cache'.cred = load[p].cred /\ cache'.begun = load[p].begun
      /\ cache'.ended = now /\ expires' = now + TTL
  BY DEF RuntimeTypes, CacheEntry
<1>2. /\ authorized' \in [cred : Creds, begun : Nat, ended : Nat, clock : Nat]
      /\ authorized'.cred = load[p].cred /\ authorized'.begun = load[p].begun
      /\ authorized'.ended = now /\ authorized'.clock = clock[p]
  BY <1>1 DEF RuntimeTypes, CacheEntry
<1>3. RuntimeTypes' BY <1>1, <1>2, RuntimeAssumption DEF RuntimeTypes, Spots, Woken, Unread
<1>4. FreshInv'
  <2>1. Fresh(load[p].cred, load[p].begun) BY DEF FreshInv
  <2>2. Fresh(cache.cred, cache.begun)' BY <1>1, <2>1 DEF Fresh
  <2>3. Fresh(authorized.cred, authorized.begun)' BY <1>2, <2>1 DEF Fresh
  <2>4. authorized'.clock < authorized'.ended + TTL
    BY <1>2, RuntimeAssumption DEF FreshInv, RuntimeTypes
  <2>5. \A q \in Procs : clock'[q] <= now' /\ load'[q].begun <= now'
    BY DEF FreshInv, RuntimeTypes, Unread
  <2>6. \A q \in Procs : load'[q].cred # None => Fresh(load[q].cred, load[q].begun)'
    <3> SUFFICES ASSUME NEW q \in Procs, load'[q].cred # None
                 PROVE  Fresh(load[q].cred, load[q].begun)'
      OBVIOUS
    <3>1. q # p /\ load'[q] = load[q] BY DEF RuntimeTypes, Unread
    <3> QED BY <3>1 DEF FreshInv, Fresh
  <2>7. \A c \in Creds : c >= stored' => replaced'[c] = None BY DEF FreshInv
  <2> QED BY <2>2, <2>3, <2>4, <2>5, <2>6, <2>7 DEF FreshInv
<1>5. KeyInv' BY DEF KeyInv, keyVars, closeVars, RuntimeTypes, Woken
<1> QED BY <1>3, <1>4, <1>5

\* A refresh that fails caches nothing.
LEMMA RefreshFailed ==
  ASSUME RuntimeInv, NEW p \in Procs, RefreshFails(p)
  PROVE  RuntimeInv'
<1> USE DEF RuntimeInv, RefreshFails
<1>1. RuntimeTypes' BY DEF RuntimeTypes, Spots, Woken, Unread
<1>2. FreshInv'
  <2>1. \A q \in Procs : clock'[q] <= now' /\ load'[q].begun <= now'
    BY DEF FreshInv, RuntimeTypes, Unread
  <2>2. \A q \in Procs : load'[q].cred # None => Fresh(load[q].cred, load[q].begun)'
    <3> SUFFICES ASSUME NEW q \in Procs, load'[q].cred # None
                 PROVE  Fresh(load[q].cred, load[q].begun)'
      OBVIOUS
    <3>1. q # p /\ load'[q] = load[q] BY DEF RuntimeTypes, Unread
    <3> QED BY <3>1 DEF FreshInv, Fresh
  <2> QED BY <2>1, <2>2 DEF FreshInv, Fresh
<1>3. KeyInv' BY DEF KeyInv, keyVars, closeVars, RuntimeTypes, Woken
<1> QED BY <1>1, <1>2, <1>3

\* Whoever leaves the cache alone keeps what the cache holds.
LEMMA CacheKept ==
  ASSUME RuntimeInv, UNCHANGED <<now, cacheVars>>, at' \in [Procs -> Spots]
  PROVE  RuntimeTypes' /\ FreshInv'
<1>1. RuntimeTypes' BY DEF RuntimeInv, RuntimeTypes, cacheVars
<1>2. FreshInv' BY DEF RuntimeInv, FreshInv, Fresh, cacheVars
<1> QED BY <1>1, <1>2

\* A call that asks for a key, uses one or waits: only the holder of a mutex
\* changes the key behind it.
KeyStep(p) ==
  \/ Authorize(p) \/ WaitCancelled(p)
  \/ Borrow(p) \/ ExchangeEnds(p) \/ Take(p) \/ Destroy(p)
  \/ RetireSession(p) \/ ExitAnswered(p) \/ ExitFails(p)

LEMMA KeysKept ==
  ASSUME RuntimeInv, NEW p \in Procs, KeyStep(p)
  PROVE  RuntimeInv'
<1> USE DEF RuntimeInv, Call, Goto, keyVars, closeVars
<1>1. at \in [Procs -> Spots] BY DEF RuntimeTypes
<1>2. at' \in [Procs -> Spots] /\ UNCHANGED <<now, cacheVars>>
  BY <1>1 DEF KeyStep, Authorize, WaitCancelled, Borrow, ExchangeEnds, Take,
              Destroy, RetireSession, ExitAnswered, ExitFails, Spots
<1>3. RuntimeTypes' /\ FreshInv' BY <1>2, CacheKept
<1>4. CASE Authorize(p) BY <1>1, <1>3, <1>4 DEF Authorize, KeyInv
<1>5. CASE WaitCancelled(p) BY <1>1, <1>3, <1>5 DEF WaitCancelled, KeyInv
<1>6. CASE Borrow(p)
  <2>1. \A q \in Procs : at[q] # "exchange" BY <1>6, RuntimeAssumption DEF Borrow, KeyInv
  <2> QED BY <1>1, <1>3, <1>6, <2>1 DEF Borrow, KeyInv
<1>7. CASE ExchangeEnds(p)
  <2>1. \A q \in Procs \ {p} : at[q] # "exchange" BY <1>7 DEF ExchangeEnds, KeyInv
  <2> QED BY <1>1, <1>3, <1>7, <2>1 DEF ExchangeEnds, KeyInv
<1>8. CASE Take(p)
  <2>1. \A q \in Procs : at[q] # "exchange" BY <1>8, RuntimeAssumption DEF Take, KeyFree, KeyInv
  <2> QED BY <1>1, <1>3, <1>8, <2>1 DEF Take, KeyInv
<1>9. CASE Destroy(p)
  <2>1. \A q \in Procs : at[q] # "exchange" BY <1>9, RuntimeAssumption DEF Destroy, KeyFree, KeyInv
  <2> QED BY <1>1, <1>3, <1>9, <2>1 DEF Destroy, KeyInv
<1>10. CASE RetireSession(p)
  <2>1. \A q \in Procs : at[q] # "exit" BY <1>10, RuntimeAssumption DEF RetireSession, KeyInv
  <2> QED BY <1>1, <1>3, <1>10, <2>1 DEF RetireSession, KeyInv
<1>11. CASE ExitAnswered(p)
  <2>1. \A q \in Procs \ {p} : at[q] # "exit" BY <1>11 DEF ExitAnswered, KeyInv
  <2> QED BY <1>1, <1>3, <1>11, <2>1 DEF ExitAnswered, KeyInv
<1>12. CASE ExitFails(p)
  <2>1. \A q \in Procs \ {p} : at[q] # "exit" BY <1>12 DEF ExitFails, KeyInv
  <2> QED BY <1>1, <1>3, <1>12, <2>1 DEF ExitFails, KeyInv
<1> QED BY <1>4, <1>5, <1>6, <1>7, <1>8, <1>9, <1>10, <1>11, <1>12 DEF KeyStep

\* Time passes, and what is replaced now was the stored one until now.
LEMMA RuntimeTicks == RuntimeInv /\ ClockTicks => RuntimeInv'
<1> SUFFICES ASSUME RuntimeInv, ClockTicks PROVE RuntimeInv' OBVIOUS
<1> USE DEF RuntimeInv, ClockTicks, cacheVars, keyVars, closeVars
<1>1. RuntimeTypes' BY DEF RuntimeTypes
<1>2. FreshInv' BY DEF FreshInv, Fresh, RuntimeTypes, CacheEntry
<1>3. KeyInv' BY DEF KeyInv
<1> QED BY <1>1, <1>2, <1>3

LEMMA CredentialRotated == RuntimeInv /\ Rotate => RuntimeInv'
<1> SUFFICES ASSUME RuntimeInv, Rotate PROVE RuntimeInv' OBVIOUS
<1> USE DEF RuntimeInv, Rotate, keyVars, closeVars
<1>1. stored \in Creds /\ replaced[stored] = None /\ now \in Nat
  BY DEF RuntimeTypes, FreshInv, Creds
<1>2. RuntimeTypes' BY RuntimeAssumption DEF RuntimeTypes, Times, Creds
<1>3. \A c \in Creds, t \in Nat : Fresh(c, t) => Fresh(c, t)'
  BY <1>1 DEF Fresh, RuntimeTypes
<1>4. FreshInv'
  <2>1. \A c \in Creds : c >= stored' => replaced'[c] = None
    BY <1>1 DEF FreshInv, RuntimeTypes, Creds
  <2>2. \A q \in Procs : load'[q].cred # None => Fresh(load[q].cred, load[q].begun)'
    BY <1>3 DEF FreshInv, RuntimeTypes
  <2>3. Fresh(cache.cred, cache.begun)' BY <1>3 DEF FreshInv, RuntimeTypes, CacheEntry
  <2>4. authorized # None => Fresh(authorized.cred, authorized.begun)'
    BY <1>3 DEF FreshInv, RuntimeTypes
  <2> QED BY <2>1, <2>2, <2>3, <2>4 DEF FreshInv
<1>5. KeyInv' BY DEF KeyInv
<1> QED BY <1>2, <1>4, <1>5

LEMMA StoreReidentified == RuntimeInv /\ Reidentify => RuntimeInv'
<1> SUFFICES ASSUME RuntimeInv, Reidentify PROVE RuntimeInv' OBVIOUS
<1> USE DEF RuntimeInv, Reidentify, keyVars, closeVars
<1>1. RuntimeTypes' BY DEF RuntimeTypes, Times
<1>2. FreshInv' BY DEF FreshInv, Fresh, RuntimeTypes
<1>3. KeyInv' BY DEF KeyInv
<1> QED BY <1>1, <1>2, <1>3

LEMMA RuntimeStep == RuntimeInv /\ [RuntimeNext]_runtimeVars => RuntimeInv'
<1> SUFFICES ASSUME RuntimeInv, [RuntimeNext]_runtimeVars PROVE RuntimeInv' OBVIOUS
<1>1. ASSUME NEW p \in Procs,
             Step(p) \/ WaitCancelled(p) \/ Authorize(p) \/ Borrow(p) \/ Take(p)
               \/ Destroy(p) \/ RetireSession(p)
      PROVE  RuntimeInv'
  BY <1>1, ClockRead, CacheUsed, RefreshStarted, RefreshAwaited, CredentialLoaded,
     RefreshFinished, RefreshFailed, KeysKept DEF Step, KeyStep
<1>2. CASE CellCloses
  <2>1. at' \in [Procs -> Spots] /\ UNCHANGED <<now, cacheVars>>
    BY <1>2 DEF CellCloses, RuntimeInv, RuntimeTypes
  <2>2. KeyInv' BY <1>2 DEF CellCloses, RuntimeInv, KeyInv, keyVars
  <2> QED BY <2>1, <2>2, CacheKept DEF RuntimeInv
<1>3. CASE UNCHANGED runtimeVars
  <2>1. at' \in [Procs -> Spots] /\ UNCHANGED <<now, cacheVars>>
    BY <1>3 DEF runtimeVars, RuntimeInv, RuntimeTypes
  <2>2. KeyInv' BY <1>3 DEF runtimeVars, RuntimeInv, KeyInv, keyVars, closeVars
  <2> QED BY <2>1, <2>2, CacheKept DEF RuntimeInv
<1> QED BY <1>1, <1>2, <1>3, RuntimeTicks, CredentialRotated, StoreReidentified
        DEF RuntimeNext

\* The invariant holds in every behaviour, for any number of goroutines, calls
\* and credentials.
THEOREM RuntimeInvariant == RuntimeSpec => []RuntimeInv
BY RuntimeStarts, RuntimeStep, PTL DEF RuntimeSpec

\* A credential that was replaced, or whose agent the store no longer names, is out
\* of use a TTL and the duration of its load later, by the clock a call has read,
\* however refreshes, cached calls and replacements overlap
\* (cachedCredentialProvider.Authorize).
THEOREM CredentialsAreFresh == RuntimeSpec => []CredentialFresh
<1>1. RuntimeInv => CredentialFresh
  <2> SUFFICES ASSUME RuntimeInv, authorized # None,
                      NEW t \in {replaced[authorized.cred], moved} \ {None}
               PROVE  authorized.clock < t + TTL + (authorized.ended - authorized.begun)
    BY DEF CredentialFresh
  <2>1. /\ authorized.cred \in Creds /\ authorized.begun \in Nat
        /\ authorized.ended \in Nat /\ authorized.clock \in Nat
    BY DEF RuntimeInv, RuntimeTypes
  <2>2. t \in Nat BY <2>1 DEF RuntimeInv, RuntimeTypes, Times
  <2>3. authorized.begun <= t /\ authorized.clock < authorized.ended + TTL
    BY DEF RuntimeInv, FreshInv, Fresh
  <2> QED BY <2>1, <2>2, <2>3, RuntimeAssumption
<1> QED BY <1>1, RuntimeInvariant, PTL

\* One goroutine loads at a time; what it has loaded is no older than what is cached,
\* and that no older than what requests carry.
OrderInv ==
  /\ cache.cred <= stored
  /\ authorized # None => authorized.cred <= cache.cred
  /\ \A p \in Procs : at[p] = "load" => refresher = p
  /\ \A p \in Procs : load[p].cred # None =>
       at[p] = "load" /\ cache.cred <= load[p].cred /\ load[p].cred <= stored

\* The order of the credentials, at the start.
LEMMA OrderStarts == RuntimeInit => OrderInv
<1>1. 1 <= 1 OBVIOUS
<1> QED BY <1>1 DEF RuntimeInit, OrderInv, Unread

\* Steps that leave cache, loads and store alone; a goroutine may come and go, but
\* none begins to load.
LEMMA OrderUntouched ==
  ASSUME OrderInv, UNCHANGED <<stored, cache, refresher, load, authorized>>,
         \A p \in Procs : at'[p] = "load" <=> at[p] = "load"
  PROVE  OrderInv'
BY DEF OrderInv

\* The refresh of p ends: no other goroutine has loaded anything.
LEMMA OrderAtEnd ==
  ASSUME RuntimeInv, OrderInv, NEW p \in Procs, FinishRefresh(p) \/ RefreshFails(p)
  PROVE  OrderInv'
<1>1. /\ at \in [Procs -> Spots] /\ load \in [Procs -> [begun : Nat, cred : Creds \cup {None}]]
      /\ stored \in Creds /\ cache \in CacheEntry
  BY DEF RuntimeInv, RuntimeTypes
<1>2. at[p] = "load" /\ load' = [load EXCEPT ![p] = Unread] /\ at' = Woken(p) /\ stored' = stored
  BY DEF FinishRefresh, RefreshFails
<1>3. \A q \in Procs \ {p} : at[q] # "load" BY <1>2 DEF OrderInv
<1>4. \A q \in Procs : at'[q] # "load" BY <1>2, <1>3 DEF Woken
<1>5. \A q \in Procs : load'[q].cred = None BY <1>1, <1>2, <1>3 DEF OrderInv, Unread
<1>6. CASE RefreshFails(p) BY <1>4, <1>5, <1>6 DEF RefreshFails, OrderInv
<1>7. CASE FinishRefresh(p)
  <2>1. /\ load[p].cred # None /\ cache'.cred = load[p].cred
        /\ authorized'.cred = load[p].cred
    BY <1>7 DEF FinishRefresh, Stamped
  <2>2. load[p].cred <= stored /\ load[p].cred \in Nat BY <1>1, <2>1 DEF OrderInv, Creds
  <2> QED BY <1>2, <1>4, <1>5, <2>1, <2>2 DEF OrderInv
<1> QED BY <1>6, <1>7

\* Every step keeps the order.
LEMMA OrderStep == RuntimeInv /\ OrderInv /\ [RuntimeNext]_runtimeVars => OrderInv'
<1> SUFFICES ASSUME RuntimeInv, OrderInv, [RuntimeNext]_runtimeVars PROVE OrderInv' OBVIOUS
<1>1. /\ at \in [Procs -> Spots] /\ load \in [Procs -> [begun : Nat, cred : Creds \cup {None}]]
      /\ stored \in Nat /\ stored \in Creds /\ cache \in CacheEntry /\ cache.cred \in Nat
  BY DEF RuntimeInv, RuntimeTypes, CacheEntry, Creds
<1>2. ASSUME NEW p \in Procs,
             ReadClock(p) \/ AwaitRefresh(p) \/ KeyStep(p)
      PROVE  OrderInv'
  BY <1>1, <1>2, OrderUntouched
     DEF ReadClock, AwaitRefresh, KeyStep, Authorize, WaitCancelled, Borrow, ExchangeEnds, Take,
         Destroy, RetireSession, ExitAnswered, ExitFails, Call, Goto, cacheVars
<1>3. ASSUME NEW p \in Procs, UseCache(p) PROVE OrderInv'
  <2>1. authorized'.cred = cache.cred BY <1>3 DEF UseCache, Stamped
  <2>2. \A q \in Procs : q # p => at'[q] = at[q] BY <1>1, <1>3 DEF UseCache, Goto
  <2>3. at[p] = "cache" /\ at'[p] = "idle" BY <1>1, <1>3 DEF UseCache, Goto
  <2> QED BY <1>1, <1>3, <2>1, <2>2, <2>3 DEF UseCache, OrderInv
<1>4. ASSUME NEW p \in Procs, StartRefresh(p) PROVE OrderInv'
  <2>1. \A q \in Procs : at[q] # "load" BY <1>4, RuntimeAssumption DEF StartRefresh, OrderInv
  <2>2. \A q \in Procs : at'[q] = "load" => q = p
    BY <1>1, <1>4, <2>1 DEF StartRefresh, Goto
  <2>3. \A q \in Procs : load'[q].cred = None
    BY <1>1, <1>4, <2>1 DEF StartRefresh, OrderInv
  <2> QED BY <1>4, <2>2, <2>3 DEF StartRefresh, OrderInv
<1>5. ASSUME NEW p \in Procs, LoadCredential(p) PROVE OrderInv'
  <2>1. load'[p].cred = stored /\ \A q \in Procs \ {p} : load'[q] = load[q]
    BY <1>1, <1>5 DEF LoadCredential
  <2> QED BY <1>1, <1>5, <2>1 DEF LoadCredential, OrderInv
<1>6. ASSUME NEW p \in Procs, FinishRefresh(p) \/ RefreshFails(p) PROVE OrderInv'
  BY <1>6, OrderAtEnd
<1>7. CASE Rotate
  <2>1. \A q \in Procs : load[q].cred # None => load[q].cred \in Nat BY <1>1 DEF Creds
  <2> QED BY <1>1, <1>7, <2>1 DEF Rotate, OrderInv
<1>8. CASE ClockTicks \/ Reidentify \/ CellCloses \/ UNCHANGED runtimeVars
  BY <1>8, OrderUntouched DEF ClockTicks, Reidentify, CellCloses, runtimeVars, cacheVars
<1> QED BY <1>2, <1>3, <1>4, <1>5, <1>6, <1>7, <1>8 DEF RuntimeNext, Step, KeyStep

\* Requests never go back to an older credential, for any number of goroutines and
\* replacements: what a refresh brings is no older than what any before it brought
\* (refreshDone, finishRefresh).
THEOREM CredentialsOnlyAdvance == RuntimeSpec => CredentialsAdvance
<1>1. RuntimeInv /\ OrderInv /\ [RuntimeNext]_runtimeVars =>
        [authorized # None => authorized.cred <= authorized'.cred]_runtimeVars
  <2> SUFFICES ASSUME RuntimeInv, OrderInv, [RuntimeNext]_runtimeVars, authorized # None
               PROVE  authorized.cred <= authorized'.cred
    OBVIOUS
  <2>1. authorized.cred \in Nat /\ cache.cred \in Nat /\ authorized.cred <= cache.cred
    BY DEF RuntimeInv, RuntimeTypes, CacheEntry, Creds, OrderInv
  <2>2. CASE authorized' = authorized BY <2>1, <2>2
  <2>3. ASSUME NEW p \in Procs, UseCache(p) PROVE authorized'.cred = cache.cred
    BY <2>3 DEF UseCache, Stamped
  <2>4. ASSUME NEW p \in Procs, FinishRefresh(p)
        PROVE  authorized'.cred \in Nat /\ cache.cred <= authorized'.cred
    <3>1. load[p].cred # None /\ authorized'.cred = load[p].cred
      BY <2>4 DEF FinishRefresh, Stamped
    <3>2. load[p].cred \in Nat BY <3>1 DEF RuntimeInv, RuntimeTypes, Creds
    <3> QED BY <3>1, <3>2 DEF OrderInv
  <2>5. \/ authorized' = authorized
        \/ \E p \in Procs : UseCache(p) \/ FinishRefresh(p)
    BY DEF RuntimeNext, Step, ReadClock, StartRefresh, AwaitRefresh, LoadCredential, RefreshFails,
       ExchangeEnds, ExitAnswered, ExitFails, WaitCancelled, Authorize, Borrow, Take, Destroy,
       RetireSession, ClockTicks, Rotate, Reidentify, CellCloses, runtimeVars, cacheVars
  <2> QED BY <2>1, <2>2, <2>3, <2>4, <2>5
<1> QED BY <1>1, OrderStarts, OrderStep, RuntimeInvariant, PTL
        DEF RuntimeSpec, CredentialsAdvance

\* No exchange ever loses the key it uses, and a handle keeps its key until the
\* cell has closed the session (withBorrow, RetireSession).
THEOREM KeysOutlive == RuntimeSpec => []KeysOutliveUse
<1>1. RuntimeInv => KeysOutliveUse BY DEF RuntimeInv, KeyInv, KeysOutliveUse
<1> QED BY <1>1, RuntimeInvariant, PTL
=============================================================================
