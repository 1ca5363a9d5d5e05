--------------------------- MODULE NativeExchange ---------------------------
(***************************************************************************)
(* One bounded operation over native UDP:                                  *)
(*                                                                         *)
(*   src/qurl/agent_assignment.go           runNativeExchange              *)
(*   src/relayknock/nativeudp/transport.go  AssignmentList, Exchange,      *)
(*                                          KnockWithReknock, SendOTP      *)
(*   src/internal/udpfence/fence.go         write fence                    *)
(*                                                                         *)
(* An operation makes attempts until its budget is spent.  An attempt is   *)
(* one flight, or two when the server challenges the first with a cookie   *)
(* (COK); a flight is one packet sent to the resolved addresses in turn,   *)
(* each on a socket of its own, until a datagram comes back.  Between any  *)
(* two steps the caller may cancel, timers may fire late, and the wall     *)
(* clock that the recovery fence reads may be stepped in either direction. *)
(* A reply to an earlier flight may reach a later socket (a reused port).  *)
(*                                                                         *)
(* Durations are the time that is left.  Message counters, drawn at random *)
(* from 64 bits, are serial numbers; a cookie is the counter of the packet *)
(* it was issued for.                                                      *)
(***************************************************************************)
EXTENDS Naturals, FiniteSets

CONSTANTS
  Profiles,       \* kinds of operation to run
  Budget,         \* assignmentConfig.budget
  Timeout,        \* nativeudp.Options.Timeout, one socket
  MaxAttempts,    \* assignmentConfig.maxAttempts
  MaxAddresses,   \* nativeudp.Options.MaxAddresses
  MaxBackoff      \* longest backoff or RetryAfter

Looped == {"assignment", "completion", "register"}
Fenced == {"completion", "register"}

ASSUME ExchangeAssumption ==
  /\ Profiles \subseteq Looped \cup {"knock", "otp"}
  /\ Budget \in Nat \ {0} /\ Timeout \in Nat \ {0}
  /\ MaxAttempts \in Nat \ {0} /\ MaxAddresses \in Nat \ {0}
  /\ MaxBackoff \in Nat

VARIABLES
  profile,    \* which operation this is
  budget,     \* what is left of the budget
  timer,      \* what is left of the socket deadline or of the backoff
  fired,      \* the transaction context has noticed that the budget is spent
  cancelled,  \* the caller's context has ended
  late,       \* the wall clock reads past the recovery deadline
  latched,    \* agentRecoveryBoundary.expired
  pc,         \* the step the operation is at
  attempt,    \* attempt number
  flight,     \* the packet being exchanged and the addresses still to try
  drawn,      \* counters drawn so far
  outcome,    \* what exchange returned
  silence,    \* no attempt contradicted silence
  lastSilent, \* some attempt was silent
  result,     \* what the operation returned
  sent,       \* datagrams written
  heard,      \* what was read from a socket (history)
  faulted     \* flights with a local fault, 0 for faults outside a flight (history)

clockVars == <<budget, timer, fired, cancelled, late>>
loopVars == <<attempt, silence, lastSilent, result>>
histVars == <<heard, faulted>>
vars == <<profile, clockVars, latched, pc, loopVars, flight, drawn, outcome,
          sent, histVars>>

Steps == {"begin", "lookup", "dial", "write", "read", "next", "prove", "judge", "sleep", "done"}
Verdicts == {"ok", "terminal", "retry"}
Outcomes == Verdicts \cup {"none", "noreply", "transport", "resolve",
                           "unauthenticated", "malformed", "context", "fence"}
Kinds == {"none", "success", "terminal", "recovery", "context", "failed"}

\* One flight: its counter, the cookie mixed into it (0 for none), addresses left
\* and whether an address has failed other than by silence.
Flight == [leg : {1, 2}, ctr : Nat, cookie : Nat, left : 0..MaxAddresses, local : BOOLEAN]
Packet == [ctr : Nat \ {0}, attempt : 1..MaxAttempts, leg : {1, 2}, cookie : Nat, left : 0..MaxAddresses]

Init ==
  /\ profile \in Profiles
  /\ budget = Budget /\ timer = 0
  /\ fired = FALSE /\ cancelled = FALSE /\ late = FALSE /\ latched = FALSE
  /\ pc = "begin" /\ attempt = 1
  /\ flight = [leg |-> 1, ctr |-> 0, cookie |-> 0, left |-> 0, local |-> FALSE]
  /\ drawn = 0 /\ outcome = "none"
  /\ silence = TRUE /\ lastSilent = FALSE
  /\ result = [kind |-> "none", silent |-> FALSE, of |-> 0]
  /\ sent = {} /\ heard = {} /\ faulted = {}

\* The context of the exchange is done: the caller's own, or the budget's timer.
ContextDone == cancelled \/ fired

\* agentRecoveryBoundary.check: once seen, an expired horizon stays expired.
FaultyFenceClosed == late
FenceClosed == latched \/ late
CheckFence == latched' = (latched \/ late)

\* The exchange ends and hands its outcome to the driver.
Return(o) == outcome' = o /\ pc' = "judge"

Fault(f) == faulted' = faulted \cup {f}

-----------------------------------------------------------------------------
(* A flight: validate, build, resolve, then each address in turn.          *)

\* validateExchangeInputs, SendOTP and the checks before a proof LST; then fresh
\* randomness.
BuildPacket(leg, cookie) ==
  /\ \/ /\ ContextDone /\ Return("context")
        /\ UNCHANGED <<latched, flight, drawn, faulted>>
     \/ /\ ~ContextDone /\ FenceClosed /\ CheckFence /\ Return("fence")
        /\ UNCHANGED <<flight, drawn, faulted>>
     \/ /\ ~ContextDone /\ ~FenceClosed       \* entropy unavailable
        /\ Return("transport") /\ Fault(0)
        /\ UNCHANGED <<latched, flight, drawn>>
     \/ /\ ~ContextDone /\ ~FenceClosed /\ UNCHANGED latched
        /\ drawn' = drawn + 1
        /\ flight' = [leg |-> leg, ctr |-> drawn + 1, cookie |-> cookie,
                      left |-> 0, local |-> FALSE]
        /\ pc' = "lookup" /\ UNCHANGED <<outcome, faulted>>

BeginAttempt ==
  /\ pc = "begin"
  /\ BuildPacket(1, 0)
  /\ UNCHANGED <<profile, clockVars, loopVars, sent, heard>>

\* beforeExchange: the state directory is no longer the one the call opened.
ContinuityLost ==
  /\ pc = "begin" /\ profile \in Looped
  /\ pc' = "done" /\ Fault(0)
  /\ result' = [kind |-> "failed", silent |-> FALSE, of |-> 0]
  /\ UNCHANGED <<profile, clockVars, latched, attempt, silence, lastSilent, flight,
                 drawn, outcome, sent, heard>>

\* RKN or the proof LST, with the cookie of the flight before.
BeginProof ==
  /\ pc = "prove"
  /\ BuildPacket(2, flight.cookie)
  /\ UNCHANGED <<profile, clockVars, loopVars, sent, heard>>

\* resolveAddresses.  An OTP uses the first address only.
Addresses == IF profile = "otp" THEN {1} ELSE 1..MaxAddresses

Resolve ==
  /\ pc = "lookup"
  /\ CheckFence
  /\ \/ /\ FenceClosed /\ Return("fence")
        /\ UNCHANGED <<flight, faulted>>
     \/ /\ ~FenceClosed
        /\ Return(IF ContextDone THEN "context" ELSE "resolve")
        /\ IF ContextDone THEN UNCHANGED faulted ELSE Fault(flight.ctr)
        /\ UNCHANGED flight
     \/ /\ ~FenceClosed
        /\ \E n \in Addresses : flight' = [flight EXCEPT !.left = n]
        /\ pc' = "dial" /\ UNCHANGED <<outcome, faulted>>
  /\ UNCHANGED <<profile, clockVars, loopVars, drawn, sent, heard>>

\* sendOne failed; local unless the datagram was written and nothing came back.
SendFailed(local) ==
  /\ flight' = [flight EXCEPT !.local = @ \/ local]
  /\ pc' = "next" /\ UNCHANGED outcome

\* sendToAddresses after a failure: fence, context, next address, and only when
\* every address was written to and stayed silent is it "no reply".
NextAddress ==
  /\ pc = "next"
  /\ CheckFence
  /\ \/ /\ FenceClosed /\ Return("fence") /\ UNCHANGED flight
     \/ /\ ~FenceClosed /\ ContextDone /\ Return("context") /\ UNCHANGED flight
     \/ /\ ~FenceClosed /\ ~ContextDone
        /\ flight' = [flight EXCEPT !.left = @ - 1]
        /\ IF flight.left > 1 THEN pc' = "dial" /\ UNCHANGED outcome
           ELSE Return(IF flight.local THEN "transport" ELSE "noreply")
  /\ UNCHANGED <<profile, clockVars, loopVars, drawn, sent, histVars>>

\* dialWithDeadline: the socket's deadline is clamped to the context's.
SocketTime ==
  IF profile \in Looped /\ budget < Timeout THEN budget ELSE Timeout

Dial ==
  /\ pc = "dial"
  /\ \/ /\ ContextDone /\ Return("context")
        /\ UNCHANGED <<latched, timer, flight, faulted>>
     \/ /\ ~ContextDone /\ FenceClosed /\ CheckFence /\ Return("fence")
        /\ UNCHANGED <<timer, flight, faulted>>
     \/ /\ ~ContextDone /\ ~FenceClosed
        /\ timer' = SocketTime /\ pc' = "write"
        /\ UNCHANGED <<latched, flight, outcome, faulted>>
     \/ /\ ~ContextDone /\ ~FenceClosed
        /\ SendFailed(TRUE) /\ Fault(flight.ctr)
        /\ UNCHANGED <<latched, timer>>
  /\ UNCHANGED <<profile, budget, fired, cancelled, late, loopVars, drawn, sent, heard>>

ThisPacket ==
  [ctr |-> flight.ctr, attempt |-> attempt, leg |-> flight.leg,
   cookie |-> flight.cookie, left |-> flight.left]

\* The dial may have taken long, so context and fence are asked again.
Write ==
  /\ pc = "write" /\ ~ContextDone /\ ~FenceClosed
  /\ sent' = sent \cup {ThisPacket}
  /\ IF profile = "otp" THEN Return("ok") ELSE pc' = "read" /\ UNCHANGED outcome
  /\ UNCHANGED <<profile, clockVars, latched, loopVars, flight, drawn, histVars>>

\* Refused by the context or the fence, or an error of the socket, after which the
\* datagram may be out all the same.
WriteFails ==
  /\ pc = "write"
  /\ SendFailed(TRUE)
  /\ \/ ContextDone /\ UNCHANGED <<latched, faulted, sent>>
     \/ ~ContextDone /\ CheckFence /\ Fault(flight.ctr) /\ UNCHANGED sent
     \/ /\ ~ContextDone /\ ~FenceClosed /\ Fault(flight.ctr)
        /\ sent' = sent \cup {ThisPacket} /\ UNCHANGED latched
  /\ UNCHANGED <<profile, clockVars, loopVars, drawn, heard>>

-----------------------------------------------------------------------------
(* What comes back.                                                        *)

\* The socket deadline passes, or cancellation pulls it to now.
FaultyReadTimeout ==
  /\ pc = "read" /\ ContextDone
  /\ SendFailed(FALSE)
  /\ UNCHANGED <<profile, clockVars, latched, loopVars, drawn, sent, histVars>>

ReadTimeout ==
  /\ pc = "read" /\ (timer = 0 \/ ContextDone)
  /\ SendFailed(FALSE)
  /\ UNCHANGED <<profile, clockVars, latched, loopVars, drawn, sent, histVars>>

ReadFails ==
  /\ pc = "read"
  /\ SendFailed(TRUE) /\ Fault(flight.ctr)
  /\ UNCHANGED <<profile, clockVars, latched, loopVars, drawn, sent, heard>>

\* The server answers any packet it received, at once or much later, any number of
\* times or never.  Hub and cell may challenge a first flight; nothing keeps a
\* server of another version from challenging or answering out of turn.
Replies ==
  [kind : {"answer"}, ctr : {p.ctr : p \in sent}, verdict : Verdicts]
    \cup [kind : {"cok"}, ctr : {p.ctr : p \in sent}, verdict : {"none"}]

\* decryptAuthenticatedReply: a datagram that is not from the pinned key ends the
\* exchange; no other address is tried.
ReadForeign ==
  /\ pc = "read"
  /\ Return("unauthenticated")
  /\ heard' = heard \cup {"foreign"}
  /\ UNCHANGED <<profile, clockVars, latched, loopVars, flight, drawn, sent, faulted>>

\* replyTypeAllowed and correlateAssignmentReply: who may be challenged.
ChallengeAllowed == flight.leg = 1 /\ profile \in {"assignment", "knock"}

\* sessioncookie.Parse: the challenge must name the counter of the request.
CookieMatches(r) == r.ctr = flight.ctr

\* correlateDecryptedReply: an answer echoes the counter of the request.
FaultyEchoes(r) == TRUE
Echoes(r) == r.ctr = flight.ctr

\* An assignment is answered only after the source proof.
ProofDone == profile = "assignment" => flight.leg = 2

ReadCookie(r) ==
  /\ r.kind = "cok" /\ ChallengeAllowed /\ CookieMatches(r)
  /\ heard' = heard \cup {"cok"}
  /\ flight' = [flight EXCEPT !.cookie = r.ctr]
  /\ pc' = "prove"
  /\ UNCHANGED <<outcome, result>>

ReadAnswer(r) ==
  /\ r.kind = "answer" /\ Echoes(r) /\ ProofDone
  /\ heard' = heard \cup {r.verdict}
  /\ result' = [result EXCEPT !.of = r.ctr]
  /\ Return(r.verdict)
  /\ UNCHANGED flight

ReadMisfit(r) ==
  /\ ~(r.kind = "cok" /\ ChallengeAllowed /\ CookieMatches(r))
  /\ ~(r.kind = "answer" /\ Echoes(r) /\ ProofDone)
  /\ heard' = heard \cup {"misfit"}
  /\ Return("malformed")
  /\ UNCHANGED <<flight, result>>

ReadReply ==
  /\ pc = "read"
  /\ \E r \in Replies : ReadCookie(r) \/ ReadAnswer(r) \/ ReadMisfit(r)
  /\ UNCHANGED <<profile, clockVars, latched, attempt, silence, lastSilent, drawn,
                 sent, faulted>>

-----------------------------------------------------------------------------
(* The driver: classify, report or back off.                               *)

\* assignmentRetryInfo, completionRetryInfo, registrationRetryInfo.
Retryable(o) ==
  \/ o \in {"transport", "noreply", "resolve"}
  \/ o = "retry" /\ profile \in {"assignment", "completion"}

AuthenticatedTerminal(o) == o \in {"terminal", "retry"} /\ ~Retryable(o)

Finish(kind, silent) ==
  /\ pc' = "done"
  /\ result' = [result EXCEPT !.kind = kind, !.silent = silent]
  /\ UNCHANGED <<attempt, timer>>

\* What the attempt that just ended says about silence.
FaultySilenceAfter == silence /\ outcome = "noreply"
SilenceAfter == silence /\ outcome \in {"noreply", "context"}
ObservedSilence == silence' /\ lastSilent'

\* The context ended the wait: the caller's own error, or recovery.
ReportContext == Finish(IF cancelled THEN "context" ELSE "recovery", ObservedSilence)

AnswerFirst == outcome = "ok" \/ AuthenticatedTerminal(outcome)

Spent == attempt = MaxAttempts \/ budget = 0

\* backoff: the jittered window, at least the authenticated RetryAfter.
Backoff ==
  \/ /\ Spent
     /\ Finish("recovery", ObservedSilence) /\ UNCHANGED faulted
  \/ /\ ~Spent
     /\ \/ /\ Finish("recovery", FALSE) /\ Fault(0)  \* no entropy for jitter
        \/ \E d \in 0..MaxBackoff :
             \/ d > budget /\ Finish("recovery", ObservedSilence) /\ UNCHANGED faulted
             \/ /\ d <= budget
                /\ timer' = d /\ pc' = "sleep"
                /\ UNCHANGED <<attempt, result, faulted>>

Judge ==
  /\ pc = "judge" /\ profile \in Looped
  /\ silence' = IF outcome = "ok" THEN silence ELSE SilenceAfter
  /\ lastSilent' = (lastSilent \/ outcome = "noreply")
  /\ \/ /\ AnswerFirst
        /\ Finish(IF outcome = "ok" THEN "success" ELSE "terminal", FALSE) /\ UNCHANGED faulted
     \/ /\ ~AnswerFirst /\ ContextDone
        /\ ReportContext /\ UNCHANGED faulted
     \/ /\ ~AnswerFirst /\ ~ContextDone /\ ~Retryable(outcome)
        /\ Finish("failed", FALSE) /\ UNCHANGED faulted
     \/ /\ ~AnswerFirst /\ ~ContextDone /\ Retryable(outcome)
        /\ Backoff
  /\ UNCHANGED <<profile, budget, fired, cancelled, late, latched, flight, drawn,
                 outcome, sent, heard>>

\* sleepAssignmentBackoff: timer and context may both be ready.
Wake ==
  /\ pc = "sleep"
  /\ \/ /\ timer = 0
        /\ attempt' = attempt + 1 /\ pc' = "begin"
        /\ UNCHANGED <<timer, silence, lastSilent, result>>
     \/ /\ ContextDone
        /\ UNCHANGED <<silence, lastSilent>> /\ ReportContext
  /\ UNCHANGED <<profile, budget, fired, cancelled, late, latched, flight, drawn,
                 outcome, sent, histVars>>

\* KnockRegisteredAgent and requestOTP: one exchange, no driver.  Silence of the
\* first flight of a knock is named.
KnockSilent == outcome = "noreply" /\ flight.leg = 1

ReturnSingle ==
  /\ pc = "judge" /\ profile \notin Looped
  /\ Finish(CASE outcome = "ok" -> "success"
              [] outcome \in {"terminal", "retry"} -> "terminal"
              [] outcome = "context" -> "context"
              [] OTHER -> "failed",
            profile = "knock" /\ KnockSilent)
  /\ UNCHANGED <<profile, budget, fired, cancelled, late, latched, silence, lastSilent,
                 flight, drawn, outcome, sent, histVars>>

-----------------------------------------------------------------------------
(* Environment.                                                            *)

Tick ==
  /\ pc # "done" /\ (budget > 0 \/ timer > 0)
  /\ budget' = IF budget > 0 THEN budget - 1 ELSE 0
  /\ timer' = IF timer > 0 THEN timer - 1 ELSE 0
  /\ UNCHANGED <<profile, fired, cancelled, late, latched, pc, loopVars, flight, drawn,
                 outcome, sent, histVars>>

\* The context's timer is not the socket's: it fires some time after the budget.
BudgetFires ==
  /\ pc # "done" /\ profile \in Looped /\ budget = 0 /\ ~fired
  /\ fired' = TRUE
  /\ UNCHANGED <<profile, budget, timer, cancelled, late, latched, pc, loopVars, flight,
                 drawn, outcome, sent, histVars>>

CallerCancels ==
  /\ pc # "done" /\ ~cancelled
  /\ cancelled' = TRUE
  /\ UNCHANGED <<profile, budget, timer, fired, late, latched, pc, loopVars, flight,
                 drawn, outcome, sent, histVars>>

\* The recovery deadline passes, or the wall clock is stepped across it.
WallClockSteps ==
  /\ pc # "done" /\ profile \in Fenced
  /\ late' = ~late
  /\ UNCHANGED <<profile, budget, timer, fired, cancelled, latched, pc, loopVars, flight,
                 drawn, outcome, sent, histVars>>

Client ==
  \/ BeginAttempt \/ BeginProof \/ Resolve \/ Dial \/ Write \/ WriteFails
  \/ ReadTimeout \/ NextAddress \/ Judge \/ Wake \/ ReturnSingle

Next ==
  \/ Client
  \/ ContinuityLost \/ ReadFails \/ ReadForeign \/ ReadReply
  \/ Tick \/ BudgetFires \/ CallerCancels \/ WallClockSteps

Spec == Init /\ [][Next]_vars

\* The goroutine is scheduled, time passes and timers fire.  Nothing is assumed of
\* the network or the server.
FairSpec == Spec /\ WF_vars(Client) /\ WF_vars(Tick) /\ WF_vars(BudgetFires)

-----------------------------------------------------------------------------
(* Properties.                                                             *)

\* Type invariant.
TypeOK ==
  /\ profile \in Profiles
  /\ budget \in 0..Budget /\ timer \in Nat
  /\ fired \in BOOLEAN /\ cancelled \in BOOLEAN /\ late \in BOOLEAN
  /\ latched \in BOOLEAN /\ silence \in BOOLEAN /\ lastSilent \in BOOLEAN
  /\ pc \in Steps /\ attempt \in 1..MaxAttempts
  /\ flight \in Flight /\ drawn \in 0..(2 * MaxAttempts)
  /\ outcome \in Outcomes
  /\ result \in [kind : Kinds, silent : BOOLEAN, of : Nat]
  /\ sent \subseteq Packet
  /\ heard \subseteq Verdicts \cup {"cok", "foreign", "misfit"}
  /\ faulted \subseteq 0..drawn

Answered == result.kind \in {"success", "terminal"} /\ profile # "otp"

\* A result that claims the server's authority answers a packet of the attempt
\* that reports it, although replies to earlier attempts may arrive on its socket
\* (correlateDecryptedReply).
AnswerIsCurrent ==
  Answered => \E p \in sent : p.ctr = result.of /\ p.attempt = attempt

\* An assignment is accepted only for a packet that carried the cookie of this
\* attempt's own first packet: neither an answer before the proof nor the cookie
\* of an earlier attempt counts (AssignmentList, sessioncookie.Parse).
AnswerIsProven ==
  Answered /\ profile = "assignment" =>
    \E p, q \in sent : /\ p.ctr = result.of /\ p.leg = 2 /\ p.cookie = q.ctr
                       /\ q.leg = 1 /\ q.attempt = attempt

\* An authenticated final verdict is reported as it is, whatever cancellation or
\* deadline fires while it is being parsed: rejection never becomes permission to
\* recover (runNativeExchange).
VerdictWins ==
  pc = "done" /\ profile # "otp" =>
    /\ "ok" \in heard => result.kind = "success"
    /\ "terminal" \in heard => result.kind = "terminal"

\* An endpoint is reported as silent only if no datagram of any attempt was read,
\* save the challenge of an assignment, and only on the evidence of a flight that
\* reached every address it tried (sendToAddresses, runNativeExchange).
SilenceIsHonest ==
  result.silent =>
    /\ heard \subseteq (IF profile = "assignment" THEN {"cok"} ELSE {})
    /\ \E p \in sent : p.ctr \notin faulted

\* A silent endpoint is reported as such, however the wait ended: by attempts,
\* budget, an unaffordable backoff or the caller's own deadline (observedSilence).
SilenceIsNamed ==
  pc = "done" /\ profile \in Looped /\ lastSilent /\ heard = {} /\ faulted = {} /\ ~latched
    => result.silent

\* "Silent" is reported exactly where the flights were evidence of silence.
SilenceSound == SilenceIsHonest /\ SilenceIsNamed

\* A one-time code is requested by at most one datagram: a second would void the
\* code of the first (SendOTP).
OneOTP == profile = "otp" => Cardinality(sent) <= 1

\* An authenticated answer that is returned is current and proven, an
\* authenticated verdict that was read is the one returned, and no second request
\* voids a code.
AnswerSound == AnswerIsCurrent /\ AnswerIsProven /\ VerdictWins /\ OneOTP

\* Once the recovery horizon has been seen to expire nothing is written any more,
\* even if the wall clock is set back (agentRecoveryBoundary.expired, udpfence).
FenceLatches == [][latched => sent' = sent]_vars

\* Every operation returns, however server, network and caller behave: sockets
\* have deadlines, attempts and backoff a budget.
OperationReturns == <>(pc = "done")

=============================================================================
